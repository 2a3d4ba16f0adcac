------------------------------- MODULE Events -------------------------------
(***************************************************************************)
(* What the gateway knows of a GitHub event: the menu of supported types   *)
(* (server/events.py), the tuple a webhook payload is normalized to        *)
(* (server/normalize.py) and the rule by which a subscription filter       *)
(* selects a tuple (the innermost test of Registry.match).                 *)
(*                                                                         *)
(* A payload is reduced to the four things the code reads from it: the     *)
(* full name of its repository, its action, and the number of the issue    *)
(* and of the pull request it carries.  None stands for Python's None, for *)
(* an absent key and for a value of the wrong type, which the code treats  *)
(* alike.                                                                  *)
(***************************************************************************)

CONSTANT None

EVENT_MENU == {"issues", "pull_request", "issue_comment", "pull_request_review", "release"}

\* A comment on a pull request arrives as "issue_comment" and carries the
\* pull request's number as its issue number.
extract_number(event, payload) ==
    IF event \in {"issues", "issue_comment"} THEN payload.issue
    ELSE IF event \in {"pull_request", "pull_request_review"} THEN payload.pull_request
    ELSE None

normalize(event, payload) ==
    IF payload.repo = None
    THEN None
    ELSE [repo   |-> payload.repo,
          event  |-> event,
          action |-> payload.action,
          number |-> extract_number(event, payload)]

\* A bug the checks must catch: the number test is dropped.
SelectsAnyNumber(filter, norm) ==
    /\ filter.repo = norm.repo
    /\ filter.event = norm.event
    /\ filter.action = None \/ filter.action = norm.action

\* filter.action and filter.number are wildcards when they are None.
Selects(filter, norm) ==
    /\ filter.repo = norm.repo
    /\ filter.event = norm.event
    /\ filter.action = None \/ filter.action = norm.action
    /\ filter.number = None \/ filter.number = norm.number
=============================================================================
