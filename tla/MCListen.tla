------------------------------ MODULE MCListen ------------------------------
(***************************************************************************)
(* Model checking of Listen.  A listen run keeps no unbounded state except *)
(* the number of events printed, which MaxPrinted bounds.  The events are  *)
(* about one issue or pull request, number 1; with each --until one of     *)
(* them is terminal.  The command lines are one of each kind that listen   *)
(* accepts, and one for each check that refuses one; of the repositories   *)
(* refused, only the last would do for the server.                         *)
(***************************************************************************)
EXTENDS Listen

Repo == <<"octo", "repo">>

Post(event, action, merged, review) ==
    [signed |-> TRUE, event |-> event, shape |-> "object",
     payload |-> [repo |-> Repo, action |-> action, merged |-> merged, review |-> review,
                  issue |-> IF event = "issues" THEN 1 ELSE None,
                  pull_request |-> IF event = "issues" THEN None ELSE 1]]

Events == {Post("issues", "opened", FALSE, None), Post("pull_request", "closed", FALSE, None),
           Post("pull_request", "closed", TRUE, None),
           Post("pull_request_review", "submitted", FALSE, "approved")}

Follow == [repo |-> Repo, events |-> {"issues", "pull_request"}, number |-> 1, action |-> None,
           until |-> None, timeout |-> None, count |-> None, first_event |-> FALSE,
           format |-> "json", server |-> [scheme |-> "http", host |-> "loopback"],
           insecure |-> FALSE]

Watch(until) == [Follow EXCEPT !.events = None, !.until = until]
Counted == [Follow EXCEPT !.count = 2]
CountedWatch == [Watch("merged") EXCEPT !.events = {"issues"}, !.count = 1]
TimedWatch == [Watch("closed") EXCEPT !.timeout = 60]

Refused ==
    {[Follow EXCEPT !.repo = <<"repo">>], [Follow EXCEPT !.repo = <<"octo", "">>],
     [Follow EXCEPT !.repo = <<"octo", "repo", "repo">>],
     [Follow EXCEPT !.repo = <<"octo", "a repo">>], [Follow EXCEPT !.number = 0],
     [Follow EXCEPT !.action = ""], [Follow EXCEPT !.timeout = 0],
     [Follow EXCEPT !.timeout = Malformed], [Counted EXCEPT !.first_event = TRUE],
     [Follow EXCEPT !.count = 0], [Follow EXCEPT !.events = {"issues", "push"}],
     [Follow EXCEPT !.events = None], [Follow EXCEPT !.format = "yaml"],
     [Follow EXCEPT !.server.host = "remote"], [Follow EXCEPT !.server.scheme = "ftp"],
     [Watch("merged") EXCEPT !.number = None], Watch("deployed")}

AllLines ==
    {Follow, [Counted EXCEPT !.timeout = 60], [Follow EXCEPT !.first_event = TRUE],
     [Follow EXCEPT !.server.host = "remote", !.insecure = TRUE],
     Watch("merged"), Watch("closed"), Watch("approved"),
     [Watch("approved") EXCEPT !.events = {"issues"}, !.timeout = 60],
     [Watch("merged") EXCEPT !.action = "opened"], CountedWatch, TimedWatch} \cup Refused
CountedWatches == {CountedWatch}
TimedWatches == {TimedWatch}
ReviewWatches == {Watch("approved"), Watch("changes_requested")}
=============================================================================
