------------------------------ MODULE MCSystem ------------------------------
(***************************************************************************)
(* Model checking of System: a run that follows issue 1 and one that waits *)
(* for pull request 1 to be merged; events about the pull request are not  *)
(* for the first, and those about the issue not for the second.  Both have *)
(* a deadline, which expires at any time or never.                         *)
(***************************************************************************)
EXTENDS System

Repo == <<"octo", "repo">>

Post(event, action, number, merged) ==
    [signed |-> TRUE, event |-> event, shape |-> "object",
     payload |-> [repo |-> Repo, action |-> action, merged |-> merged, review |-> None,
                  issue |-> IF event = "issues" THEN number ELSE None,
                  pull_request |-> IF event = "issues" THEN None ELSE number]]

Events ==
    {Post("issues", "opened", 1, FALSE), Post("pull_request", "closed", 1, TRUE)}

Follow == [repo |-> Repo, events |-> {"issues"}, number |-> 1, action |-> None,
           until |-> None, timeout |-> 60, count |-> None, first_event |-> FALSE,
           format |-> "json", server |-> [scheme |-> "https", host |-> "remote"],
           insecure |-> FALSE]

Lines == {Follow, [Follow EXCEPT !.events = None, !.until = "merged"]}
=============================================================================
