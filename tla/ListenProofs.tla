---------------------------- MODULE ListenProofs ----------------------------
(***************************************************************************)
(* Proofs about a run of listen for every set of command lines and events. *)
(***************************************************************************)
EXTENDS Listen, TLAPS

\* What _validated lets pass has a count of at least one.
LEMMA CountIsPositive ==
    ASSUME NEW o \in CommandLines, Usable(o), CountOf(o) # None
    PROVE  CountOf(o) \in Int /\ CountOf(o) >= 1
  BY ListenAssumption DEF Usable, _validated, CountOf

LEMMA CountType ==
    ASSUME NEW o \in CommandLines
    PROVE  CountOf(o) \in Int \cup {None}
  BY ListenAssumption DEF CountOf

\* The types that --until adds are of the menu.
LEMMA UntilTypes ==
    \A u \in DOMAIN UNTIL_MATRIX : UNTIL_MATRIX[u] \subseteq EVENT_MENU
  BY DEF UNTIL_MATRIX, EVENT_MENU

LEMMA EventsOfMenu ==
    ASSUME NEW o \in CommandLines, _validated(o)
    PROVE  EventsOf(o) \subseteq EVENT_MENU /\ EventsOf(o) # {}
  BY UntilTypes DEF _validated, EventsOf

LEMMA Accepted ==
    ASSUME NEW o \in CommandLines, Usable(o)
    PROVE  QueryStatus(Query(o)) = 200
  <1>1. EventsOf(o) \subseteq EVENT_MENU /\ EventsOf(o) # {}
    BY EventsOfMenu DEF Usable
  <1>2. EventsOf(o) # None
    BY <1>1, ListenAssumption
  <1>3. o.repo # None /\ o.number # Malformed
    BY ListenAssumption DEF Usable, _validated, _validate_target
  <1>4. _valid_repo(o.repo)
    BY PlainNamesAssumption DEF Usable, _validated, _validate_target, _valid_repo
  <1> QED
    BY <1>1, <1>2, <1>3, <1>4 DEF QueryStatus, Query, _int_or_none, _bearer_token, _event_names

LEMMA TerminalWanted ==
    ASSUME NEW o \in CommandLines, Usable(o), o.until # None, o.action = None,
           NEW d \in Deliveries, d.payload.repo = o.repo,
           extract_number(d.event, d.payload) = o.number,
           satisfied_by_event(o.until, d)
    PROVE  Wants(Query(o), d)
  <1>1. o.until \in DOMAIN UNTIL_MATRIX /\ o.number # None
    BY DEF Usable, _validated
  <1>2. d.event \in UNTIL_MATRIX[o.until]
    BY <1>1 DEF satisfied_by_event, UNTIL_MATRIX
  <1>3. d.event \in EventsOf(o)
    BY <1>2 DEF EventsOf
  <1>4. \/ d.event \in {"issues", "issue_comment"} /\ o.number = d.payload.issue
        \/ d.event \in {"pull_request", "pull_request_review"} /\ o.number = d.payload.pull_request
    BY <1>1 DEF extract_number
  <1> QED BY <1>3, <1>4 DEF Wants, Query

-----------------------------------------------------------------------------
LEMMA TypeInit == Init => ListenTypeOK
  <1> SUFFICES ASSUME Init PROVE ListenTypeOK
    OBVIOUS
  <1>1. IF Count = None THEN remaining = None ELSE remaining \in Int
    BY CountType DEF Init, Count
  <1>2. /\ reached \in BOOLEAN /\ ready \in BOOLEAN /\ fired \in BOOLEAN
        /\ target \in {"open", "shown", "unshown"}
    BY DEF Init
  <1>3. printed \in 0..MaxPrinted
    BY ListenAssumption DEF Init
  <1> QED BY <1>1, <1>2, <1>3 DEF Init, ListenTypeOK

LEMMA TypeStep == ListenTypeOK /\ [Next]_vars => ListenTypeOK'
  <1> SUFFICES ASSUME ListenTypeOK, [Next]_vars PROVE ListenTypeOK'
    OBVIOUS
  <1> USE ListenAssumption DEF world, stateVars, historyVars
  <1>1. ASSUME NEW token \in BOOLEAN, Begin(token) PROVE ListenTypeOK'
    <2>1. /\ main' \in {"begin", "startup", "race", "reap", "inline", "recheck", "backoff",
                        "closing", "exit"}
          /\ stream' \in {"none", "connecting", "open", "done", "cancelled"}
          /\ poll' \in {"none", "sleeping", "asking", "done", "cancelled"}
      BY <1>1 DEF Begin, Exit, StartRound, NewTasks, ListenTypeOK
    <2>2. /\ outcome' \in {"none", "retry", "exit0", "exit1", "garbled"}
          /\ answer' \in {"none", "reached", "http_error", "garbled"}
          /\ exit_code' \in {None, 0, 1, 2, 124}
      BY <1>1 DEF Begin, Exit, StartRound, NewTasks, ListenTypeOK
    <2>3. ready' \in BOOLEAN /\ fired' \in BOOLEAN /\ reached' \in BOOLEAN
      BY <1>1 DEF Begin, Exit, StartRound, NewTasks, ListenTypeOK
    <2>4. IF Count' = None THEN remaining' = None ELSE remaining' \in Int
      BY <1>1 DEF Begin, Exit, StartRound, NewTasks, ListenTypeOK, Count
    <2>5. trouble' \subseteq {"no_token", "refused", "garbled", "http_error"}
      <3>1. trouble' \in {trouble, {"no_token"}, {}}
        BY <1>1 DEF Begin, StartRound, NewTasks
      <3> QED BY <3>1 DEF ListenTypeOK
    <2>6. opt' \in CommandLines /\ delay' \in 1..30 /\ target' \in {"open", "shown", "unshown"}
          /\ printed' \in 0..MaxPrinted /\ fruitless' \in 0..5
      BY <1>1 DEF Begin, Exit, StartRound, NewTasks, ListenTypeOK
    <2> QED BY <2>1, <2>2, <2>3, <2>4, <2>5, <2>6 DEF ListenTypeOK
  <1>2. ASSUME NEW check \in Checks, Startup(check) PROVE ListenTypeOK'
    <2>1. /\ main' \in {"begin", "startup", "race", "reap", "inline", "recheck", "backoff",
                        "closing", "exit"}
          /\ stream' \in {"none", "connecting", "open", "done", "cancelled"}
          /\ poll' \in {"none", "sleeping", "asking", "done", "cancelled"}
      BY <1>2 DEF Startup, Exit, StartRound, NewTasks, Truthful, Possible, Checks, Blame,
         ListenTypeOK
    <2>2. /\ outcome' \in {"none", "retry", "exit0", "exit1", "garbled"}
          /\ answer' \in {"none", "reached", "http_error", "garbled"}
          /\ exit_code' \in {None, 0, 1, 2, 124}
      BY <1>2 DEF Startup, Exit, StartRound, NewTasks, Truthful, Possible, Checks, Blame,
         ListenTypeOK
    <2>3. ready' \in BOOLEAN /\ fired' \in BOOLEAN /\ reached' \in BOOLEAN
      BY <1>2 DEF Startup, Exit, StartRound, NewTasks, Truthful, Possible, Checks, Blame,
         ListenTypeOK
    <2>4. IF Count' = None THEN remaining' = None ELSE remaining' \in Int
      BY <1>2 DEF Startup, Exit, StartRound, NewTasks, Truthful, Possible, Checks, Blame,
         ListenTypeOK, Count
    <2>5. trouble' \subseteq {"no_token", "refused", "garbled", "http_error"}
      BY <1>2 DEF Startup, Exit, StartRound, NewTasks, Truthful, Possible, Checks, Blame,
         ListenTypeOK
    <2>6. opt' \in CommandLines /\ delay' \in 1..30 /\ target' \in {"open", "shown", "unshown"}
          /\ printed' \in 0..MaxPrinted /\ fruitless' \in 0..5
      BY <1>2 DEF Startup, Exit, StartRound, NewTasks, Truthful, Possible, Checks, Blame,
         ListenTypeOK
    <2> QED BY <2>1, <2>2, <2>3, <2>4, <2>5, <2>6 DEF ListenTypeOK
  <1>3. ASSUME NEW check \in Checks, Recheck(check) PROVE ListenTypeOK'
    BY <1>3 DEF Recheck, Exit, Truthful, Possible, Checks, Blame, ListenTypeOK, Count
  <1>4. CASE InlineEnds
    BY <1>4 DEF InlineEnds, EndRound, Exit, Retry, ListenTypeOK, Count
  <1>5. CASE BothDone
    BY <1>5 DEF BothDone, EndRound, Result, Exit, Retry, ListenTypeOK, Count
  <1>6. CASE CancelLoser
    BY <1>6 DEF CancelLoser, ListenTypeOK, Count
  <1>7. CASE Reaped
    BY <1>7 DEF Reaped, EndRound, Result, Exit, Retry, ListenTypeOK, Count
  <1>8. CASE Reconnect
    <2>1. /\ main' \in {"begin", "startup", "race", "reap", "inline", "recheck", "backoff",
                        "closing", "exit"}
          /\ stream' \in {"none", "connecting", "open", "done", "cancelled"}
          /\ poll' \in {"none", "sleeping", "asking", "done", "cancelled"}
      BY <1>8 DEF Reconnect, StartRound, NewTasks, ListenTypeOK
    <2>2. /\ outcome' \in {"none", "retry", "exit0", "exit1", "garbled"}
          /\ answer' \in {"none", "reached", "http_error", "garbled"}
          /\ exit_code' \in {None, 0, 1, 2, 124}
      BY <1>8 DEF Reconnect, StartRound, NewTasks, ListenTypeOK
    <2>3. ready' \in BOOLEAN /\ fired' \in BOOLEAN /\ reached' \in BOOLEAN
      BY <1>8 DEF Reconnect, StartRound, NewTasks, ListenTypeOK
    <2>4. IF Count' = None THEN remaining' = None ELSE remaining' \in Int
      BY <1>8 DEF Reconnect, StartRound, NewTasks, ListenTypeOK, Count
    <2>5. trouble' \subseteq {"no_token", "refused", "garbled", "http_error"}
      BY <1>8 DEF Reconnect, StartRound, NewTasks, ListenTypeOK
    <2>6. opt' \in CommandLines /\ delay' \in 1..30 /\ target' \in {"open", "shown", "unshown"}
          /\ printed' \in 0..MaxPrinted /\ fruitless' \in 0..5
      BY <1>8 DEF Reconnect, StartRound, NewTasks, ListenTypeOK
    <2> QED BY <2>1, <2>2, <2>3, <2>4, <2>5, <2>6 DEF ListenTypeOK
  <1>9. CASE Closed
    BY <1>9 DEF Closed, Exit, ListenTypeOK, Count
  <1>10. ASSUME NEW response \in {"ok", "retryable", "http_error", "refused"}, Connect(response)
         PROVE  ListenTypeOK'
    <2>1. /\ main' \in {"begin", "startup", "race", "reap", "inline", "recheck", "backoff",
                        "closing", "exit"}
          /\ stream' \in {"none", "connecting", "open", "done", "cancelled"}
          /\ poll' \in {"none", "sleeping", "asking", "done", "cancelled"}
      BY <1>10 DEF Connect, EndStream, Streaming, ListenTypeOK
    <2>2. /\ outcome' \in {"none", "retry", "exit0", "exit1", "garbled"}
          /\ answer' \in {"none", "reached", "http_error", "garbled"}
          /\ exit_code' \in {None, 0, 1, 2, 124}
      BY <1>10 DEF Connect, EndStream, Streaming, ListenTypeOK
    <2>3. ready' \in BOOLEAN /\ fired' \in BOOLEAN /\ reached' \in BOOLEAN
      BY <1>10 DEF Connect, EndStream, Streaming, ListenTypeOK
    <2>4. IF Count' = None THEN remaining' = None ELSE remaining' \in Int
      BY <1>10 DEF Connect, EndStream, Streaming, ListenTypeOK, Count
    <2>5. trouble' \subseteq {"no_token", "refused", "garbled", "http_error"}
      BY <1>10 DEF Connect, EndStream, Streaming, ListenTypeOK
    <2>6. opt' \in CommandLines /\ delay' \in 1..30 /\ target' \in {"open", "shown", "unshown"}
          /\ printed' \in 0..MaxPrinted /\ fruitless' \in 0..5
      BY <1>10 DEF Connect, EndStream, Streaming, ListenTypeOK
    <2> QED BY <2>1, <2>2, <2>3, <2>4, <2>5, <2>6 DEF ListenTypeOK
  <1>11. CASE ReadyFrame
    BY <1>11 DEF ReadyFrame, Streaming, ListenTypeOK, Count
  <1>12. ASSUME NEW d \in Deliveries, EventFrame(d) PROVE ListenTypeOK'
    BY <1>12 DEF EventFrame, EndStream, Streaming, ListenTypeOK, Count
  <1>13. ASSUME NEW result \in {"retry", "garbled"}, StreamEnds(result) PROVE ListenTypeOK'
    BY <1>13 DEF StreamEnds, EndStream, Streaming, ListenTypeOK, Count
  <1>14. CASE PollWakes
    BY <1>14 DEF PollWakes, Polling, ListenTypeOK, Count
  <1>15. ASSUME NEW check \in Checks, PollAnswer(check) PROVE ListenTypeOK'
    BY <1>15 DEF PollAnswer, Polling, Truthful, Possible, Checks, ListenTypeOK, Count
  <1>16. CASE ReachTarget
    BY <1>16 DEF ReachTarget, ListenTypeOK, Count
  <1>17. CASE Reopen
    BY <1>17 DEF Reopen, ListenTypeOK, Count
  <1>18. CASE DeadlineExpires
    BY <1>18 DEF DeadlineExpires, Exit, ListenTypeOK, Count
  <1>19. CASE UNCHANGED vars
    BY <1>19 DEF vars, world, stateVars, historyVars, ListenTypeOK, Count
  <1> QED BY <1>1, <1>2, <1>3, <1>4, <1>5, <1>6, <1>7, <1>8, <1>9, <1>10, <1>11, <1>12, <1>13,
     <1>14, <1>15, <1>16, <1>17, <1>18, <1>19 DEF Next, Main, Stream, Poll, Done

-----------------------------------------------------------------------------
Stopped == {"none", "done", "cancelled"}

\* Where the two tasks are at each suspension point of main.
Shape ==
    /\ main \in {"begin", "startup"} =>
         stream = "none" /\ poll = "none" /\ ~ready /\ printed = 0
    /\ main \in {"startup", "race", "reap", "recheck", "closing"} => Until
    /\ main = "closing" => fired
    /\ main = "inline" => ~Until /\ poll = "none"
    /\ main = "race" => /\ stream \in {"connecting", "open", "done"}
                        /\ poll \in {"sleeping", "asking", "done"}
    /\ main = "reap" => \/ stream = "done" /\ poll = "cancelled"
                        \/ stream = "cancelled" /\ poll = "done"
    /\ main \in {"recheck", "backoff", "exit"} => stream \in Stopped /\ poll \in Stopped
    /\ poll = "done" => answer # "none"

LEMMA ShapeInit == Init => Shape
  BY DEF Init, Shape

LEMMA ShapeStep == ListenTypeOK /\ Shape /\ [Next]_vars => Shape'
  <1> SUFFICES ASSUME ListenTypeOK, Shape, [Next]_vars PROVE Shape'
    OBVIOUS
  <1> USE ListenAssumption DEF world, stateVars, historyVars
  <1>1. ASSUME NEW token \in BOOLEAN, Begin(token) PROVE Shape'
    BY <1>1 DEF Begin, Exit, StartRound, NewTasks, ListenTypeOK, Shape, Until, Stopped
  <1>2. ASSUME NEW check \in Checks, Startup(check) PROVE Shape'
    BY <1>2 DEF Startup, Exit, StartRound, NewTasks, Truthful, Possible, Checks, Blame,
       ListenTypeOK, Shape, Until, Stopped
  <1>3. ASSUME NEW check \in Checks, Recheck(check) PROVE Shape'
    BY <1>3 DEF Recheck, Exit, Truthful, Possible, Checks, Blame, ListenTypeOK, Shape, Until,
       Stopped
  <1>4. CASE InlineEnds
    BY <1>4 DEF InlineEnds, EndRound, Exit, Retry, ListenTypeOK, Shape, Until, Stopped
  <1>5. CASE BothDone
    BY <1>5 DEF BothDone, EndRound, Result, Exit, Retry, ListenTypeOK, Shape, Until, Stopped
  <1>6. CASE CancelLoser
    <2>1. main = "race" /\ main' = "reap" /\ UNCHANGED <<opt, answer>>
      BY <1>6 DEF CancelLoser
    <2>2. \/ stream' = "done" /\ poll' = "cancelled"
          \/ stream' = "cancelled" /\ poll' = "done" /\ poll = "done"
      BY <1>6 DEF CancelLoser
    <2>3. Until' /\ (poll = "done" => answer # "none")'
      BY <2>1, <2>2 DEF Shape, Until
    <2> QED BY <2>1, <2>2, <2>3 DEF Shape, Until
  <1>7. CASE Reaped
    BY <1>7 DEF Reaped, EndRound, Result, Exit, Retry, ListenTypeOK, Shape, Until, Stopped
  <1>8. CASE Reconnect
    BY <1>8 DEF Reconnect, StartRound, NewTasks, ListenTypeOK, Shape, Until, Stopped
  <1>9. CASE Closed
    BY <1>9 DEF Closed, Exit, ListenTypeOK, Shape, Until, Stopped
  <1>10. ASSUME NEW response \in {"ok", "retryable", "http_error", "refused"}, Connect(response)
         PROVE  Shape'
    BY <1>10 DEF Connect, EndStream, Streaming, ListenTypeOK, Shape, Until, Stopped
  <1>11. CASE ReadyFrame
    BY <1>11 DEF ReadyFrame, Streaming, ListenTypeOK, Shape, Until, Stopped
  <1>12. ASSUME NEW d \in Deliveries, EventFrame(d) PROVE Shape'
    BY <1>12 DEF EventFrame, EndStream, Streaming, ListenTypeOK, Shape, Until, Stopped
  <1>13. ASSUME NEW result \in {"retry", "garbled"}, StreamEnds(result) PROVE Shape'
    BY <1>13 DEF StreamEnds, EndStream, Streaming, ListenTypeOK, Shape, Until, Stopped
  <1>14. CASE PollWakes
    BY <1>14 DEF PollWakes, Polling, ListenTypeOK, Shape, Until, Stopped
  <1>15. ASSUME NEW check \in Checks, PollAnswer(check) PROVE Shape'
    BY <1>15 DEF PollAnswer, Polling, Truthful, Possible, Checks, ListenTypeOK, Shape, Until,
       Stopped
  <1>16. CASE ReachTarget
    BY <1>16 DEF ReachTarget, ListenTypeOK, Shape, Until, Stopped
  <1>17. CASE Reopen
    BY <1>17 DEF Reopen, ListenTypeOK, Shape, Until, Stopped
  <1>18. CASE DeadlineExpires
    BY <1>18 DEF DeadlineExpires, Exit, ListenTypeOK, Shape, Until, Stopped
  <1>19. CASE UNCHANGED vars
    BY <1>19 DEF vars, world, stateVars, historyVars, ListenTypeOK, Shape, Until, Stopped
  <1> QED BY <1>1, <1>2, <1>3, <1>4, <1>5, <1>6, <1>7, <1>8, <1>9, <1>10, <1>11, <1>12, <1>13,
     <1>14, <1>15, <1>16, <1>17, <1>18, <1>19 DEF Next, Main, Stream, Poll, Done

-----------------------------------------------------------------------------
\* What lies behind each result that a round may have.
Cause ==
    /\ target # "open" => reached
    /\ reached => Until
    /\ answer = "reached" => reached
    /\ answer = "garbled" => trouble # {}
    /\ Count # None => printed >= Count - remaining
    /\ outcome = "exit0" => reached \/ (Count # None /\ printed >= Count)
    /\ outcome \in {"exit1", "garbled"} => trouble # {}
    /\ ExitJustified

LEMMA CauseInit == Init => Cause
  <1> SUFFICES ASSUME Init PROVE Cause
    OBVIOUS
  <1>1. Count # None => printed >= Count - remaining
    BY CountType DEF Init, Count
  <1> QED BY <1>1 DEF Init, Cause, ExitJustified

LEMMA CauseStep == ListenTypeOK /\ Shape /\ Cause /\ [Next]_vars => Cause'
  <1> SUFFICES ASSUME ListenTypeOK, Shape, Cause, [Next]_vars PROVE Cause'
    OBVIOUS
  <1> USE ListenAssumption DEF world, stateVars, historyVars
  <1>1. ASSUME NEW token \in BOOLEAN, Begin(token) PROVE Cause'
    BY <1>1, CountType DEF Begin, Exit, StartRound, NewTasks, ListenTypeOK, Shape, Cause,
       ExitJustified, Until, Count
  <1>2. ASSUME NEW check \in Checks, Startup(check) PROVE Cause'
    <2>1. ExitJustified'
      <3>1. CASE check = "reached"
        BY <1>2, <3>1 DEF Startup, Exit, StartRound, NewTasks, Truthful, Possible, Shape, Cause,
           ExitJustified, Until
      <3>2. CASE check \in {"http_error", "garbled"}
        <4>1. main' = "exit" /\ exit_code' = 1 /\ check \in trouble'
          BY <1>2, <3>2 DEF Startup, Exit, StartRound, NewTasks, Blame
        <4> QED BY <4>1 DEF ExitJustified
      <3>3. CASE check = "open"
        BY <1>2, <3>3 DEF Startup, Exit, StartRound, NewTasks, ExitJustified
      <3> QED BY <3>1, <3>2, <3>3 DEF Checks
    <2>2. (Count # None => printed >= Count - remaining)'
      BY <1>2, CountType DEF Startup, Exit, StartRound, NewTasks, Truthful, Possible, Checks,
         Blame, ListenTypeOK, Cause, Count
    <2>3. /\ (target # "open" => reached)' /\ (reached => Until)'
          /\ (answer = "reached" => reached)' /\ (answer = "garbled" => trouble # {})'
      BY <1>2 DEF Startup, Exit, StartRound, NewTasks, Truthful, Possible, Checks, Blame,
         ListenTypeOK, Shape, Cause, Until
    <2>4. (outcome = "exit0" => reached \/ (Count # None /\ printed >= Count))'
      BY <1>2, CountType DEF Startup, Exit, StartRound, NewTasks, Truthful, Possible, Checks,
         Blame, ListenTypeOK, Cause, Count
    <2>5. (outcome \in {"exit1", "garbled"} => trouble # {})'
      BY <1>2 DEF Startup, Exit, StartRound, NewTasks, Truthful, Possible, Checks, Blame,
         ListenTypeOK, Cause
    <2> QED BY <2>1, <2>2, <2>3, <2>4, <2>5 DEF Cause
  <1>3. ASSUME NEW check \in Checks, Recheck(check) PROVE Cause'
    <2>1. ExitJustified'
      <3>1. CASE check = "reached"
        BY <1>3, <3>1 DEF Recheck, Exit, Truthful, Possible, Shape, Cause, ExitJustified, Until
      <3>2. CASE check \in {"http_error", "garbled"}
        <4>1. main' = "exit" /\ exit_code' = 1 /\ check \in trouble'
          BY <1>3, <3>2 DEF Recheck, Exit, Blame
        <4> QED BY <4>1 DEF ExitJustified
      <3>3. CASE check = "open"
        BY <1>3, <3>3 DEF Recheck, Exit, ExitJustified
      <3> QED BY <3>1, <3>2, <3>3 DEF Checks
    <2>2. (Count # None => printed >= Count - remaining)'
      BY <1>3, CountType DEF Recheck, Exit, Truthful, Possible, Checks, Blame, ListenTypeOK,
         Cause, Count
    <2>3. /\ (target # "open" => reached)' /\ (reached => Until)'
          /\ (answer = "reached" => reached)' /\ (answer = "garbled" => trouble # {})'
      BY <1>3 DEF Recheck, Exit, Truthful, Possible, Checks, Blame, ListenTypeOK, Shape, Cause,
         Until
    <2>4. (outcome = "exit0" => reached \/ (Count # None /\ printed >= Count))'
      BY <1>3, CountType DEF Recheck, Exit, Truthful, Possible, Checks, Blame, ListenTypeOK,
         Cause, Count
    <2>5. (outcome \in {"exit1", "garbled"} => trouble # {})'
      BY <1>3 DEF Recheck, Exit, Truthful, Possible, Checks, Blame, ListenTypeOK, Cause
    <2> QED BY <2>1, <2>2, <2>3, <2>4, <2>5 DEF Cause
  <1>4. CASE InlineEnds
    BY <1>4, CountType DEF InlineEnds, EndRound, Exit, Retry, ListenTypeOK, Shape, Cause,
       ExitJustified, Until, Count
  <1>5. CASE BothDone
    BY <1>5, CountType DEF BothDone, EndRound, Result, Exit, Retry, ListenTypeOK, Shape, Cause,
       ExitJustified, Until, Count
  <1>6. CASE CancelLoser
    BY <1>6, CountType DEF CancelLoser, ListenTypeOK, Shape, Cause, ExitJustified, Until, Count
  <1>7. CASE Reaped
    BY <1>7, CountType DEF Reaped, EndRound, Result, Exit, Retry, ListenTypeOK, Shape, Cause,
       ExitJustified, Until, Count
  <1>8. CASE Reconnect
    BY <1>8, CountType DEF Reconnect, StartRound, NewTasks, ListenTypeOK, Shape, Cause,
       ExitJustified, Until, Count
  <1>9. CASE Closed
    <2>1. ExitJustified'
      <3>1. main' = "exit" /\ exit_code' = 124 /\ fired'
        BY <1>9 DEF Closed, Exit, Shape
      <3> QED BY <3>1 DEF ExitJustified
    <2>2. (Count # None => printed >= Count - remaining)'
      BY <1>9, CountType DEF Closed, Exit, ListenTypeOK, Cause, Count
    <2>3. /\ (target # "open" => reached)' /\ (reached => Until)'
          /\ (answer = "reached" => reached)' /\ (answer = "garbled" => trouble # {})'
      BY <1>9 DEF Closed, Exit, ListenTypeOK, Shape, Cause, Until
    <2>4. (outcome = "exit0" => reached \/ (Count # None /\ printed >= Count))'
      BY <1>9, CountType DEF Closed, Exit, ListenTypeOK, Cause, Count
    <2>5. (outcome \in {"exit1", "garbled"} => trouble # {})'
      BY <1>9 DEF Closed, Exit, ListenTypeOK, Cause
    <2> QED BY <2>1, <2>2, <2>3, <2>4, <2>5 DEF Cause
  <1>10. ASSUME NEW response \in {"ok", "retryable", "http_error", "refused"}, Connect(response)
         PROVE  Cause'
    BY <1>10, CountType DEF Connect, EndStream, Streaming, ListenTypeOK, Shape, Cause,
       ExitJustified, Until, Count
  <1>11. CASE ReadyFrame
    BY <1>11, CountType DEF ReadyFrame, Streaming, ListenTypeOK, Shape, Cause, ExitJustified,
       Until, Count
  <1>12. ASSUME NEW d \in Deliveries, EventFrame(d) PROVE Cause'
    <2>1. ExitJustified'
      BY <1>12, CountType DEF EventFrame, EndStream, Streaming, ListenTypeOK, Shape, Cause,
         ExitJustified, Until, Count
    <2>2. (Count # None => printed >= Count - remaining)'
      BY <1>12, CountType DEF EventFrame, EndStream, Streaming, ListenTypeOK, Cause, Count
    <2>3. /\ (target # "open" => reached)' /\ (reached => Until)'
          /\ (answer = "reached" => reached)' /\ (answer = "garbled" => trouble # {})'
      BY <1>12 DEF EventFrame, EndStream, Streaming, ListenTypeOK, Shape, Cause, Until
    <2>4. (outcome = "exit0" => reached \/ (Count # None /\ printed >= Count))'
      <3>1. CASE Terminal(d)
        <4>1. reached /\ reached' = reached
          BY <1>12, <3>1 DEF EventFrame
        <4> QED BY <4>1
      <3>2. CASE ~Terminal(d) /\ outcome' = "exit0" /\ outcome # "exit0"
        <4>1. remaining' = 0 /\ opt' = opt /\ printed' = printed + 1
          BY <1>12, <3>2 DEF EventFrame
        <4>2. Count \in Int /\ Count' = Count /\ printed \in Int
          BY <1>12, <4>1, CountType DEF EventFrame, ListenTypeOK, Count
        <4> QED BY <2>2, <4>1, <4>2, ListenAssumption
      <3>3. CASE outcome' # "exit0"
        BY <3>3
      <3>4. CASE outcome = "exit0"
        <4>1. /\ printed' = printed + 1 /\ reached' = reached /\ Count' = Count
              /\ printed \in Int /\ Count \in Int \cup {None}
          BY <1>12, CountType DEF EventFrame, ListenTypeOK, Count
        <4>2. reached \/ (Count # None /\ printed >= Count)
          BY <3>4 DEF Cause
        <4>3. CASE reached
          BY <4>1, <4>3
        <4>4. CASE Count # None /\ printed >= Count
          BY <4>1, <4>4
        <4> QED BY <4>2, <4>3, <4>4
      <3> QED BY <3>1, <3>2, <3>3, <3>4
    <2>5. (outcome \in {"exit1", "garbled"} => trouble # {})'
      BY <1>12 DEF EventFrame, EndStream, Streaming, ListenTypeOK, Cause
    <2> QED BY <2>1, <2>2, <2>3, <2>4, <2>5 DEF Cause
  <1>13. ASSUME NEW result \in {"retry", "garbled"}, StreamEnds(result) PROVE Cause'
    BY <1>13, CountType DEF StreamEnds, EndStream, Streaming, ListenTypeOK, Shape, Cause,
       ExitJustified, Until, Count
  <1>14. CASE PollWakes
    BY <1>14, CountType DEF PollWakes, Polling, ListenTypeOK, Shape, Cause, ExitJustified, Until,
       Count
  <1>15. ASSUME NEW check \in Checks, PollAnswer(check) PROVE Cause'
    <2>1. ExitJustified'
      BY <1>15, CountType DEF PollAnswer, Polling, Truthful, Possible, Checks, ListenTypeOK,
         Shape, Cause, ExitJustified, Until, Count
    <2>2. (Count # None => printed >= Count - remaining)'
      BY <1>15, CountType DEF PollAnswer, Polling, Truthful, Possible, Checks, ListenTypeOK,
         Cause, Count
    <2>3. /\ (target # "open" => reached)' /\ (reached => Until)'
          /\ (answer = "reached" => reached)' /\ (answer = "garbled" => trouble # {})'
      BY <1>15 DEF PollAnswer, Polling, Truthful, Possible, Checks, ListenTypeOK, Shape, Cause,
         Until
    <2>4. (outcome = "exit0" => reached \/ (Count # None /\ printed >= Count))'
      BY <1>15, CountType DEF PollAnswer, Polling, Truthful, Possible, Checks, ListenTypeOK,
         Cause, Count
    <2>5. (outcome \in {"exit1", "garbled"} => trouble # {})'
      BY <1>15 DEF PollAnswer, Polling, Truthful, Possible, Checks, ListenTypeOK, Cause
    <2> QED BY <2>1, <2>2, <2>3, <2>4, <2>5 DEF Cause
  <1>16. CASE ReachTarget
    BY <1>16, CountType DEF ReachTarget, ListenTypeOK, Shape, Cause, ExitJustified, Until, Count
  <1>17. CASE Reopen
    BY <1>17, CountType DEF Reopen, ListenTypeOK, Shape, Cause, ExitJustified, Until, Count
  <1>18. CASE DeadlineExpires
    BY <1>18, CountType DEF DeadlineExpires, Exit, ListenTypeOK, Shape, Cause, ExitJustified,
       Until, Count
  <1>19. CASE UNCHANGED vars
    BY <1>19 DEF vars, world, stateVars, historyVars, ListenTypeOK, Shape, Cause, ExitJustified,
       Until, Count
  <1> QED BY <1>1, <1>2, <1>3, <1>4, <1>5, <1>6, <1>7, <1>8, <1>9, <1>10, <1>11, <1>12, <1>13,
     <1>14, <1>15, <1>16, <1>17, <1>18, <1>19 DEF Next, Main, Stream, Poll, Done

-----------------------------------------------------------------------------
\* Without --until the countdown tells how many events are still to come, and
\* the round in which it meets 0 is the last one.
Countdown ==
    ~Until /\ Usable(opt) /\ Count # None =>
        /\ remaining = Count - printed /\ remaining >= 0
        /\ remaining = 0 => \/ main = "exit"
                            \/ main = "inline" /\ stream = "done" /\ outcome = "exit0"

LEMMA CountdownInit == Init => Countdown
  BY CountIsPositive DEF Init, Countdown, Count

LEMMA CountdownStep == ListenTypeOK /\ Shape /\ Countdown /\ [Next]_vars => Countdown'
  <1> SUFFICES ASSUME ListenTypeOK, Shape, Countdown, [Next]_vars PROVE Countdown'
    OBVIOUS
  <1> USE ListenAssumption DEF world, stateVars, historyVars
  <1>1. ASSUME NEW token \in BOOLEAN, Begin(token) PROVE Countdown'
    BY <1>1, CountType DEF Begin, Exit, StartRound, NewTasks, ListenTypeOK, Shape, Countdown,
       Until, Count
  <1>2. ASSUME NEW check \in Checks, Startup(check) PROVE Countdown'
    BY <1>2, CountType DEF Startup, Exit, StartRound, NewTasks, Truthful, Possible, Checks,
       Blame, ListenTypeOK, Shape, Countdown, Until, Count
  <1>3. ASSUME NEW check \in Checks, Recheck(check) PROVE Countdown'
    BY <1>3, CountType DEF Recheck, Exit, Truthful, Possible, Checks, Blame, ListenTypeOK, Shape,
       Countdown, Until, Count
  <1>4. CASE InlineEnds
    BY <1>4, CountType DEF InlineEnds, EndRound, Exit, Retry, ListenTypeOK, Shape, Countdown,
       Until, Count
  <1>5. CASE BothDone
    BY <1>5, CountType DEF BothDone, EndRound, Result, Exit, Retry, ListenTypeOK, Shape,
       Countdown, Until, Count
  <1>6. CASE CancelLoser
    BY <1>6, CountType DEF CancelLoser, ListenTypeOK, Shape, Countdown, Until, Count
  <1>7. CASE Reaped
    BY <1>7, CountType DEF Reaped, EndRound, Result, Exit, Retry, ListenTypeOK, Shape, Countdown,
       Until, Count
  <1>8. CASE Reconnect
    BY <1>8, CountType DEF Reconnect, StartRound, NewTasks, ListenTypeOK, Shape, Countdown,
       Until, Count
  <1>9. CASE Closed
    BY <1>9, CountType DEF Closed, Exit, ListenTypeOK, Shape, Countdown, Until, Count
  <1>10. ASSUME NEW response \in {"ok", "retryable", "http_error", "refused"}, Connect(response)
         PROVE  Countdown'
    BY <1>10, CountType DEF Connect, EndStream, Streaming, ListenTypeOK, Shape, Countdown, Until,
       Count
  <1>11. CASE ReadyFrame
    BY <1>11, CountType DEF ReadyFrame, Streaming, ListenTypeOK, Shape, Countdown, Until, Count
  <1>12. ASSUME NEW d \in Deliveries, EventFrame(d) PROVE Countdown'
    <2> SUFFICES ASSUME ~Until', Usable(opt'), Count' # None
                 PROVE  /\ remaining' = Count' - printed' /\ remaining' >= 0
                        /\ remaining' = 0 => \/ main' = "exit"
                                             \/ /\ main' = "inline"
                                                /\ stream' = "done" /\ outcome' = "exit0"
      BY DEF Countdown
    <2>1. /\ ~Until /\ Usable(opt) /\ Count \in Int /\ Count' = Count /\ ~Terminal(d)
          /\ main = "inline" /\ main' = main /\ stream = "open" /\ printed' = printed + 1
      BY <1>12, CountType DEF EventFrame, Streaming, Shape, Until, Count, Terminal, ListenTypeOK
    <2>2. remaining = Count - printed /\ remaining > 0 /\ remaining \in Int /\ printed \in Int
      BY <2>1, CountType DEF Countdown, ListenTypeOK, Count
    <2>3. remaining' = remaining - 1
      BY <1>12, <2>1, <2>2 DEF EventFrame
    <2>4. remaining' = 0 => stream' = "done" /\ outcome' = "exit0"
      BY <1>12 DEF EventFrame, EndStream
    <2> QED BY <2>1, <2>2, <2>3, <2>4
  <1>13. ASSUME NEW result \in {"retry", "garbled"}, StreamEnds(result) PROVE Countdown'
    BY <1>13, CountType DEF StreamEnds, EndStream, Streaming, ListenTypeOK, Shape, Countdown,
       Until, Count
  <1>14. CASE PollWakes
    BY <1>14, CountType DEF PollWakes, Polling, ListenTypeOK, Shape, Countdown, Until, Count
  <1>15. ASSUME NEW check \in Checks, PollAnswer(check) PROVE Countdown'
    BY <1>15, CountType DEF PollAnswer, Polling, Truthful, Possible, Checks, ListenTypeOK, Shape,
       Countdown, Until, Count
  <1>16. CASE ReachTarget
    BY <1>16, CountType DEF ReachTarget, ListenTypeOK, Shape, Countdown, Until, Count
  <1>17. CASE Reopen
    BY <1>17, CountType DEF Reopen, ListenTypeOK, Shape, Countdown, Until, Count
  <1>18. CASE DeadlineExpires
    BY <1>18, CountType DEF DeadlineExpires, Exit, ListenTypeOK, Shape, Countdown, Until, Count
  <1>19. CASE UNCHANGED vars
    BY <1>19 DEF vars, world, stateVars, historyVars, ListenTypeOK, Shape, Countdown, Until, Count
  <1> QED BY <1>1, <1>2, <1>3, <1>4, <1>5, <1>6, <1>7, <1>8, <1>9, <1>10, <1>11, <1>12, <1>13,
     <1>14, <1>15, <1>16, <1>17, <1>18, <1>19 DEF Next, Main, Stream, Poll, Done

-----------------------------------------------------------------------------
\* The delay follows from the fruitless reconnects alone.
Backoff ==
    /\ ready => fruitless = 0
    /\ ~ready => delay = <<1, 2, 4, 8, 16, 30>>[fruitless + 1]
    /\ ready /\ main \in {"recheck", "backoff"} => delay = 1

LEMMA BackoffInit == Init => Backoff
  BY DEF Init, Backoff

LEMMA BackoffStep == ListenTypeOK /\ Shape /\ Backoff /\ [Next]_vars => Backoff'
  <1> SUFFICES ASSUME ListenTypeOK, Shape, Backoff, [Next]_vars PROVE Backoff'
    OBVIOUS
  <1> USE ListenAssumption DEF world, stateVars, historyVars
  <1>1. ASSUME NEW token \in BOOLEAN, Begin(token) PROVE Backoff'
    BY <1>1 DEF Begin, Exit, StartRound, NewTasks, ListenTypeOK, Shape, Backoff
  <1>2. ASSUME NEW check \in Checks, Startup(check) PROVE Backoff'
    BY <1>2 DEF Startup, Exit, StartRound, NewTasks, Truthful, Possible, Checks, Blame,
       ListenTypeOK, Shape, Backoff
  <1>3. ASSUME NEW check \in Checks, Recheck(check) PROVE Backoff'
    BY <1>3 DEF Recheck, Exit, Truthful, Possible, Checks, Blame, ListenTypeOK, Shape, Backoff
  <1>4. CASE InlineEnds
    BY <1>4 DEF InlineEnds, EndRound, Exit, Retry, ListenTypeOK, Shape, Backoff
  <1>5. CASE BothDone
    BY <1>5 DEF BothDone, EndRound, Result, Exit, Retry, ListenTypeOK, Shape, Backoff
  <1>6. CASE CancelLoser
    BY <1>6 DEF CancelLoser, ListenTypeOK, Shape, Backoff
  <1>7. CASE Reaped
    BY <1>7 DEF Reaped, EndRound, Result, Exit, Retry, ListenTypeOK, Shape, Backoff
  <1>8. CASE Reconnect
    BY <1>8 DEF Reconnect, StartRound, NewTasks, ListenTypeOK, Shape, Backoff
  <1>9. CASE Closed
    BY <1>9 DEF Closed, Exit, ListenTypeOK, Shape, Backoff
  <1>10. ASSUME NEW response \in {"ok", "retryable", "http_error", "refused"}, Connect(response)
         PROVE  Backoff'
    BY <1>10 DEF Connect, EndStream, Streaming, ListenTypeOK, Shape, Backoff
  <1>11. CASE ReadyFrame
    BY <1>11 DEF ReadyFrame, Streaming, ListenTypeOK, Shape, Backoff
  <1>12. ASSUME NEW d \in Deliveries, EventFrame(d) PROVE Backoff'
    BY <1>12 DEF EventFrame, EndStream, Streaming, ListenTypeOK, Shape, Backoff
  <1>13. ASSUME NEW result \in {"retry", "garbled"}, StreamEnds(result) PROVE Backoff'
    BY <1>13 DEF StreamEnds, EndStream, Streaming, ListenTypeOK, Shape, Backoff
  <1>14. CASE PollWakes
    BY <1>14 DEF PollWakes, Polling, ListenTypeOK, Shape, Backoff
  <1>15. ASSUME NEW check \in Checks, PollAnswer(check) PROVE Backoff'
    BY <1>15 DEF PollAnswer, Polling, Truthful, Possible, Checks, ListenTypeOK, Shape, Backoff
  <1>16. CASE ReachTarget
    BY <1>16 DEF ReachTarget, ListenTypeOK, Shape, Backoff
  <1>17. CASE Reopen
    BY <1>17 DEF Reopen, ListenTypeOK, Shape, Backoff
  <1>18. CASE DeadlineExpires
    BY <1>18 DEF DeadlineExpires, Exit, ListenTypeOK, Shape, Backoff
  <1>19. CASE UNCHANGED vars
    BY <1>19 DEF vars, world, stateVars, historyVars, ListenTypeOK, Shape, Backoff
  <1> QED BY <1>1, <1>2, <1>3, <1>4, <1>5, <1>6, <1>7, <1>8, <1>9, <1>10, <1>11, <1>12, <1>13,
     <1>14, <1>15, <1>16, <1>17, <1>18, <1>19 DEF Next, Main, Stream, Poll, Done

-----------------------------------------------------------------------------
ListenInv == ListenTypeOK /\ Shape /\ Cause /\ Countdown /\ Backoff

LEMMA ListenInvariant == Spec => []ListenInv
  <1>1. Init => ListenInv
    BY TypeInit, ShapeInit, CauseInit, CountdownInit, BackoffInit DEF ListenInv
  <1>2. ListenInv /\ [Next]_vars => ListenInv'
    BY TypeStep, ShapeStep, CauseStep, CountdownStep, BackoffStep DEF ListenInv
  <1> QED BY <1>1, <1>2, PTL DEF Spec

\* Every variable of a run holds what it should.
THEOREM TypesCorrect == Spec => []ListenTypeOK
  BY ListenInvariant, PTL DEF ListenInv

\* No task of a round is left running when the round is over.
THEOREM TasksReaped == Spec => []NoTaskOutlivesItsRound
  <1>1. ListenInv => NoTaskOutlivesItsRound
    BY DEF ListenInv, Shape, Stopped, NoTaskOutlivesItsRound
  <1> QED BY <1>1, ListenInvariant, PTL

\* For every command line and every behaviour of server and GitHub, the exit code
\* is one that what happened justifies.
THEOREM ExitCodesJustified == Spec => []ExitJustified
  BY ListenInvariant, PTL DEF ListenInv, Cause

\* Without --until no run prints more than --count events, for every count.
THEOREM CountsCorrect == Spec => []PlainCountExact
  <1>1. ListenInv => PlainCountExact
    <2> SUFFICES ASSUME ListenInv, ~Until, Usable(opt), Count # None
                 PROVE  printed <= Count
      BY DEF PlainCountExact, CountExact
    <2>1. remaining = Count - printed /\ remaining >= 0 /\ printed \in Int
      BY ListenAssumption DEF ListenInv, Countdown, ListenTypeOK
    <2>2. Count \in Int
      BY CountType DEF ListenInv, ListenTypeOK, Count
    <2> QED BY <2>1, <2>2
  <1> QED BY <1>1, ListenInvariant, PTL

\* Every delay is the one that the reconnects since the last ready frame earn.
THEOREM DelaysEarned == Spec => []BackoffEarned
  <1>1. ListenInv => BackoffEarned
    BY DEF ListenInv, ListenTypeOK, Backoff, BackoffEarned
  <1> QED BY <1>1, ListenInvariant, PTL

\* A command line that is let pass is one that the server accepts, and subscribes
\* to what --until waits for.
THEOREM SubscriptionCorrect == Spec => []SubscriptionServesUntil
  <1>1. ListenInv => SubscriptionServesUntil
    BY Accepted, TerminalWanted
    DEF ListenInv, ListenTypeOK, SubscriptionServesUntil, ServesUntil
  <1> QED BY <1>1, ListenInvariant, PTL
=============================================================================
