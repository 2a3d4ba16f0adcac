------------------------------ MODULE Requests ------------------------------
(***************************************************************************)
(* What the two routes of server/app.py make of a request before any state *)
(* is touched: the status of a webhook delivery, the status and the        *)
(* filters of a stream query, and which deliveries a query asks for.       *)
(*                                                                         *)
(* A query has the parameters of GET /events/stream and whether it carries *)
(* a bearer token; a delivery says whether it is signed, what shape its    *)
(* body has and what the normalization reads from it.  The name of a       *)
(* repository is the sequence of its parts between slashes.                *)
(***************************************************************************)
EXTENDS Events, Integers, Sequences

CONSTANT Malformed      \* a number or a duration in a form that its check rejects

FiltersOf(q) ==
    {[repo |-> q.repo, event |-> e, action |-> q.action, number |-> q.number] : e \in q.events}

_int_or_none(number) == number # Malformed

_bearer_token(q) == q.bearer

_valid_repo(repo) == Len(repo) = 2 /\ \A i \in 1..2 : repo[i] # ""

_event_names(events) == events # {} /\ events \subseteq EVENT_MENU

\* The status a query is refused with, in the order of the checks; 200 when
\* it passes them all.
QueryStatus(q) ==
    IF q.repo = None \/ q.events = None THEN 422
    ELSE IF ~_int_or_none(q.number) THEN 422
    ELSE IF ~_bearer_token(q) THEN 401
    ELSE IF ~_valid_repo(q.repo) \/ ~_event_names(q.events) THEN 422
    ELSE 200

\* The status a delivery is answered with; only 202 has an effect.
DeliveryStatus(d) ==
    IF ~d.signed THEN 401
    ELSE IF d.event = "ping" THEN 200
    ELSE IF d.shape # "object" THEN 400
    ELSE IF normalize(d.event, d.payload) = None THEN 204
    ELSE 202

\* The events a client asked for, read off its query and the raw delivery.
Wants(q, d) ==
    /\ d.payload.repo = q.repo
    /\ d.event \in q.events
    /\ q.action \in {None, d.payload.action}
    /\ \/ q.number = None
       \/ d.event \in {"issues", "issue_comment"} /\ q.number = d.payload.issue
       \/ d.event \in {"pull_request", "pull_request_review"} /\ q.number = d.payload.pull_request
=============================================================================
