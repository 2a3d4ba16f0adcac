------------------------------- MODULE Listen -------------------------------
(***************************************************************************)
(* cli/listen.py and its command in cli/main.py: one run of `listen`,      *)
(* which checks its options, streams events until an exit condition is     *)
(* met, reconnects when the stream breaks and, with --until, races every   *)
(* stream against a task that polls GitHub for the target's state.         *)
(*                                                                         *)
(* Three coroutines share the event loop: main (_listen), the stream task  *)
(* (_stream_once) and the poll task (_poll_until_terminal).  The code      *)
(* between two awaits is one atomic step.  main is suspended at             *)
(*                                                                         *)
(*   begin     the command line is given, nothing has been done            *)
(*   startup   the state check before the first stream                     *)
(*   race      asyncio.wait for the first of the two tasks                 *)
(*   reap      await of the task that was cancelled because it lost        *)
(*   inline    _stream_once without --until: no task, no poll              *)
(*   recheck   the state check before a reconnect                          *)
(*   backoff   the sleep before a reconnect                                *)
(*   closing   the deadline expired during a race: the clients are being   *)
(*             closed, and nobody has cancelled the two tasks              *)
(*   exit      listen has returned exit_code                               *)
(*                                                                         *)
(* The server and GitHub are external: they answer in any way the client   *)
(* distinguishes.                                                          *)
(***************************************************************************)
EXTENDS Options

CONSTANTS
    CommandLines,  \* the options a run may be given
    Deliveries,    \* the events a server may send
    MaxPrinted     \* bound on the events received

\* --repo is required and --number and --count are integers: Typer sees to it.
ASSUME ListenAssumption ==
    /\ MaxPrinted \in Nat
    /\ None \notin Int /\ Malformed \notin Int \cup {None}
    /\ \A types \in SUBSET EVENT_MENU : types # None
    /\ \A o \in CommandLines :
         /\ o.repo # None
         /\ o.number = None \/ o.number \in Int
         /\ o.count = None \/ o.count \in Int

VARIABLES
    opt,                 \* the options, which never change
    main, stream, poll,  \* where each coroutine is; a task is also "none", "cancelled" or
                         \* "done"
    outcome,             \* of the stream task once it is done
    answer,              \* of the poll task once it is done
    ready, remaining,    \* _StreamState
    delay,               \* _listen's local "backoff"
    fired,               \* the deadline of asyncio.timeout has expired
    exit_code,
    target,              \* GitHub: "open", or reached and "shown" or "unshown" by a poll
    reached,             \* history: the target has been in its terminal state
    printed,             \* history: events printed
    fruitless,           \* history: reconnects since the last ready frame (up to 5)
    trouble              \* history: what in this round justifies exit code 1

stateVars == <<ready, remaining, delay, fired, exit_code>>
world == <<opt, target, reached>>
historyVars == <<printed, fruitless, trouble>>
vars == <<world, main, stream, poll, outcome, answer, stateVars, historyVars>>

Until == opt.until # None
Count == CountOf(opt)
Timeout == opt.timeout # None
Reviews == opt.until \in {"approved", "changes_requested"}

-----------------------------------------------------------------------------
Init ==
    /\ opt \in CommandLines
    /\ main = "begin" /\ stream = "none" /\ poll = "none"
    /\ outcome = "none" /\ answer = "none"
    /\ ready = FALSE /\ remaining = Count
    /\ delay = 1
    /\ fired = FALSE
    /\ exit_code = None
    /\ target \in IF Until THEN {"open", "shown"} ELSE {"open"}
    /\ reached = (target = "shown")
    /\ printed = 0 /\ fruitless = 0 /\ trouble = {}

Exit(code) == main' = "exit" /\ exit_code' = code

\* The first page of a target's reviews may be full of older ones, so that the
\* poll (satisfied_by_poll, which reads one page) does not see the newest.
ReachTarget ==
    /\ Until /\ target = "open"
    /\ target' \in IF Reviews THEN {"shown", "unshown"} ELSE {"shown"}
    /\ reached' = TRUE
    /\ UNCHANGED <<opt, main, stream, poll, outcome, answer, stateVars, historyVars>>

\* What was closed is reopened, a review is dismissed; a merge is for ever.
Reopen ==
    /\ target # "open" /\ opt.until # "merged"
    /\ target' = "open"
    /\ UNCHANGED <<opt, main, stream, poll, outcome, answer, stateVars, reached, historyVars>>

\* A GitHub state check: it finds the target reached, or not, or fails with
\* an HTTP error, or gets an answer that is not JSON.
Checks == {"reached", "open", "http_error", "garbled"}
Possible(check) == check = "reached" => target = "shown"
Truthful(check) == Possible(check) /\ (check = "open" => target # "shown")

\* A check that main makes itself is not retried.
Blame(check) == trouble \cup ({check} \cap {"http_error", "garbled"})

-----------------------------------------------------------------------------
(* The stream: _stream_once, _response_outcome and _consume_stream.        *)

\* The event loop resumes the stream task, or main inside _stream_once.
Streaming == main \in {"race", "inline", "closing"}

EndStream(result) == stream' = "done" /\ outcome' = result

Connect(response) ==
    /\ Streaming /\ stream = "connecting"
    /\ \/ /\ response = "ok"
          /\ stream' = "open"
          /\ UNCHANGED <<outcome, trouble>>
       \/ /\ response \in {"retryable", "http_error"}
          /\ EndStream("retry")
          /\ UNCHANGED trouble
       \/ /\ response = "refused"
          /\ EndStream("exit1")
          /\ trouble' = trouble \cup {"refused"}
    /\ UNCHANGED <<world, main, poll, answer, stateVars, printed, fruitless>>

ReadyFrame ==
    /\ Streaming /\ stream = "open"
    /\ ready' = TRUE
    /\ fruitless' = 0
    /\ UNCHANGED <<world, main, stream, poll, outcome, answer, remaining, delay, fired, exit_code,
                   printed, trouble>>

Terminal(d) == Until /\ satisfied_by_event(opt.until, d)

\* An event is printed first; then a terminal one ends the run, and any other
\* is counted.  The server sends what was asked for, and an event that says that
\* the target is in its terminal state only when it has been.
EventFrame(d) ==
    /\ Streaming /\ stream = "open"
    /\ printed < MaxPrinted
    /\ Wants(Query(opt), d) /\ (Terminal(d) => reached)
    /\ printed' = printed + 1
    /\ remaining' = IF remaining = None \/ Terminal(d) THEN remaining ELSE remaining - 1
    /\ IF Terminal(d) \/ remaining' = 0
       THEN EndStream("exit0")
       ELSE UNCHANGED <<stream, outcome>>
    /\ UNCHANGED <<world, main, poll, answer, ready, delay, fired, exit_code, fruitless, trouble>>

\* The stream ends, breaks or falls silent (all three are retried), or a frame
\* is not JSON.
StreamEnds(result) ==
    /\ Streaming /\ stream = "open"
    /\ EndStream(result)
    /\ trouble' = IF result = "garbled" THEN trouble \cup {"garbled"} ELSE trouble
    /\ UNCHANGED <<world, main, poll, answer, stateVars, printed, fruitless>>

-----------------------------------------------------------------------------
(* The poll task.                                                          *)
Polling == main \in {"race", "closing"}

\* A poll that wakes when the stream has ended is cancelled before it asks.
PollWakes ==
    /\ Polling /\ poll = "sleeping" /\ stream # "done"
    /\ poll' = "asking"
    /\ UNCHANGED <<world, main, stream, outcome, answer, stateVars, historyVars>>

PollAnswer(check) ==
    /\ Polling /\ poll = "asking"
    /\ Truthful(check)
    /\ IF check = "open"
       THEN poll' = "sleeping" /\ UNCHANGED answer
       ELSE poll' = "done" /\ answer' = check
    /\ trouble' = trouble \cup ({check} \cap {"garbled"})
    /\ UNCHANGED <<world, main, stream, outcome, stateVars, printed, fruitless>>

-----------------------------------------------------------------------------
(* main.                                                                   *)

NewTasks ==
    /\ main' = IF Until THEN "race" ELSE "inline"
    /\ stream' = "connecting"
    /\ poll' = IF Until THEN "sleeping" ELSE "none"
    /\ outcome' = "none" /\ answer' = "none"
    /\ trouble' = {}

\* Bugs the checks must catch: the countdown restarts with every stream.
StartRoundRecounting == NewTasks /\ ready' = FALSE /\ remaining' = Count

\* Only the first stream starts out as not ready.
StartRoundKeepingReady == NewTasks /\ UNCHANGED <<ready, remaining>>

\* The poll task is created once, before the loop.
StartRoundPollingOnce ==
    /\ main' = IF Until THEN "race" ELSE "inline"
    /\ stream' = "connecting"
    /\ poll' = IF main = "startup" THEN "sleeping" ELSE "none"
    /\ outcome' = "none" /\ answer' = "none"
    /\ ready' = FALSE /\ trouble' = {} /\ UNCHANGED remaining

\* A new stream, and with --until a new poll task, which sleeps first.
StartRound == NewTasks /\ ready' = FALSE /\ UNCHANGED remaining

\* The command line is refused, or there is no token, or _listen starts: with
\* the state check, and without --until at once with a stream.
Begin(token) ==
    /\ main = "begin"
    /\ \/ /\ ~Usable(opt) /\ Exit(2)
          /\ UNCHANGED <<stream, poll, outcome, answer, ready, remaining, trouble>>
       \/ /\ Usable(opt) /\ ~token /\ Exit(1) /\ trouble' = {"no_token"}
          /\ UNCHANGED <<stream, poll, outcome, answer, ready, remaining>>
       \/ /\ Usable(opt) /\ token /\ Until /\ main' = "startup"
          /\ UNCHANGED <<stream, poll, outcome, answer, ready, remaining, exit_code, trouble>>
       \/ Usable(opt) /\ token /\ ~Until /\ StartRound /\ UNCHANGED exit_code
    /\ UNCHANGED <<world, delay, fired, printed, fruitless>>

Startup(check) ==
    /\ main = "startup"
    /\ Truthful(check)
    /\ trouble' = Blame(check)
    /\ \/ /\ \/ check = "reached" /\ Exit(0)
             \/ check \in {"http_error", "garbled"} /\ Exit(1)
          /\ UNCHANGED <<stream, poll, outcome, answer, ready, remaining>>
       \/ check = "open" /\ StartRound /\ UNCHANGED exit_code
    /\ UNCHANGED <<world, delay, fired, printed, fruitless>>

\* The round did not end the run: back off, unless a check says it is over.
Retry ==
    /\ main' = IF Until THEN "recheck" ELSE "backoff"
    /\ delay' = IF ready THEN 1 ELSE delay
    /\ UNCHANGED exit_code

EndRound(result) ==
    /\ \/ result = "exit0" /\ Exit(0) /\ UNCHANGED delay
       \/ result \in {"exit1", "garbled"} /\ Exit(1) /\ UNCHANGED delay
       \/ result = "retry" /\ Retry
    /\ UNCHANGED <<world, stream, poll, outcome, answer, ready, remaining, fired, historyVars>>

\* A bug the checks must catch: poll_task.result() is not called.
ResultOfAnyPoll == IF poll = "done" THEN "exit0" ELSE outcome

\* _race_stream_and_poll returns: a finished poll decides, whatever the stream
\* has to say, and its failure is retried like the stream's.
Result ==
    IF poll = "done"
    THEN CASE answer = "reached" -> "exit0"
           [] answer = "http_error" -> "retry"
           [] answer = "garbled" -> "garbled"
    ELSE outcome

InlineEnds ==
    /\ main = "inline" /\ stream = "done"
    /\ EndRound(outcome)

\* wait returns.  If both tasks are done there is nothing to cancel.
BothDone ==
    /\ main = "race" /\ stream = "done" /\ poll = "done"
    /\ EndRound(Result)

\* A bug the checks must catch: a poll that lost is not cancelled.
CancelLoserLeavingPoll ==
    /\ main = "race"
    /\ \/ stream = "done" /\ poll # "done" /\ UNCHANGED <<stream, poll>>
       \/ poll = "done" /\ stream # "done" /\ stream' = "cancelled" /\ UNCHANGED poll
    /\ main' = "reap"
    /\ UNCHANGED <<world, outcome, answer, stateVars, historyVars>>

CancelLoser ==
    /\ main = "race"
    /\ \/ stream = "done" /\ poll # "done" /\ poll' = "cancelled" /\ UNCHANGED stream
       \/ poll = "done" /\ stream # "done" /\ stream' = "cancelled" /\ UNCHANGED poll
    /\ main' = "reap"
    /\ UNCHANGED <<world, outcome, answer, stateVars, historyVars>>

\* The cancelled task has ended.
Reaped ==
    /\ main = "reap"
    /\ EndRound(Result)

Recheck(check) ==
    /\ main = "recheck"
    /\ Truthful(check)
    /\ trouble' = Blame(check)
    /\ \/ check = "reached" /\ Exit(0)
       \/ check \in {"http_error", "garbled"} /\ Exit(1)
       \/ check = "open" /\ main' = "backoff" /\ UNCHANGED exit_code
    /\ UNCHANGED <<world, stream, poll, outcome, answer, ready, remaining, delay, fired, printed,
                   fruitless>>

\* A bug the checks must catch: the delay has no limit.
ReconnectUncapped ==
    /\ main = "backoff"
    /\ delay' = delay * 2
    /\ fruitless' = IF fruitless < 5 THEN fruitless + 1 ELSE 5
    /\ StartRound
    /\ UNCHANGED <<world, fired, exit_code, printed>>

\* min(backoff * 2, 30).  The delay slept is within a fifth of it.
Reconnect ==
    /\ main = "backoff"
    /\ delay' = IF delay * 2 < 30 THEN delay * 2 ELSE 30
    /\ fruitless' = IF fruitless < 5 THEN fruitless + 1 ELSE 5
    /\ StartRound
    /\ UNCHANGED <<world, fired, exit_code, printed>>

\* A bug the checks must catch: the deadline is taken for a silent stream.
DeadlineRetried ==
    /\ Timeout /\ ~fired /\ main \notin {"begin", "closing", "exit"}
    /\ fired' = TRUE
    /\ IF main = "inline" /\ stream # "done"
       THEN EndStream("retry") /\ UNCHANGED <<main, exit_code, poll>>
       ELSE Exit(124) /\ stream' = "cancelled" /\ poll' = "cancelled" /\ UNCHANGED outcome
    /\ UNCHANGED <<world, answer, ready, remaining, delay, historyVars>>

\* asyncio.timeout cancels main, once.  A cancelled asyncio.wait leaves its tasks
\* running.  While a task is being reaped the cancellation is swallowed by
\* suppress(CancelledError), and no other will come.  At any other await it ends
\* the run with 124.
DeadlineExpires ==
    /\ Timeout /\ ~fired /\ main \notin {"begin", "closing", "exit"}
    /\ fired' = TRUE
    /\ \/ main = "reap" /\ UNCHANGED <<main, stream, exit_code>>
       \/ main = "race" /\ main' = "closing" /\ UNCHANGED <<stream, exit_code>>
       \/ main = "inline" /\ Exit(124) /\ stream' = "cancelled"
       \/ main \notin {"reap", "race", "inline"} /\ Exit(124) /\ UNCHANGED stream
    /\ UNCHANGED <<world, poll, outcome, answer, ready, remaining, delay, historyVars>>

\* listen returns, and asyncio.run cancels what is left.
Closed ==
    /\ main = "closing"
    /\ Exit(124)
    /\ stream' = IF stream = "done" THEN "done" ELSE "cancelled"
    /\ poll' = IF poll = "done" THEN "done" ELSE "cancelled"
    /\ UNCHANGED <<world, outcome, answer, ready, remaining, delay, fired, historyVars>>

-----------------------------------------------------------------------------
Main ==
    \/ \E token \in BOOLEAN : Begin(token)
    \/ \E check \in Checks : Startup(check) \/ Recheck(check)
    \/ InlineEnds \/ BothDone \/ CancelLoser \/ Reaped \/ Reconnect \/ Closed

Stream ==
    \/ \E response \in {"ok", "retryable", "http_error", "refused"} : Connect(response)
    \/ ReadyFrame
    \/ \E d \in Deliveries : EventFrame(d)
    \/ \E result \in {"retry", "garbled"} : StreamEnds(result)

Poll == PollWakes \/ \E check \in Checks : PollAnswer(check)

Done == main = "exit" /\ UNCHANGED vars

Next == Main \/ Stream \/ Poll \/ ReachTarget \/ Reopen \/ DeadlineExpires \/ Done

Spec == Init /\ [][Next]_vars

\* Checks and connects have HTTP timeouts, sleeps end, ready coroutines run and
\* the clock advances.  The server owes the client no frame.
Fairness ==
    /\ WF_vars(Main)
    /\ WF_vars(\E response \in {"ok", "retryable", "http_error", "refused"} : Connect(response))
    /\ WF_vars(Poll)
    /\ WF_vars(DeadlineExpires)

FairSpec == Spec /\ Fairness
-----------------------------------------------------------------------------
(* Properties.                                                             *)

\* What each variable holds.
ListenTypeOK ==
    /\ opt \in CommandLines
    /\ main \in {"begin", "startup", "race", "reap", "inline", "recheck", "backoff", "closing",
                 "exit"}
    /\ stream \in {"none", "connecting", "open", "done", "cancelled"}
    /\ poll \in {"none", "sleeping", "asking", "done", "cancelled"}
    /\ outcome \in {"none", "retry", "exit0", "exit1", "garbled"}
    /\ answer \in {"none", "reached", "http_error", "garbled"}
    /\ ready \in BOOLEAN /\ fired \in BOOLEAN
    /\ IF Count = None THEN remaining = None ELSE remaining \in Int
    /\ delay \in 1..30
    /\ exit_code \in {None, 0, 1, 2, 124}
    /\ target \in {"open", "shown", "unshown"} /\ reached \in BOOLEAN
    /\ printed \in 0..MaxPrinted /\ fruitless \in 0..5
    /\ trouble \subseteq {"no_token", "refused", "garbled", "http_error"}

\* The exit code tells the caller the truth: 0 only after the --until target was
\* in its terminal state or --count events were printed, whatever stream, poll
\* and checks said and in whichever order; 124 only after the deadline; 1 only
\* for want of a token or if the last round or the check around it got an answer
\* that is not retried, never for a failed poll or a broken stream, and never for
\* what an earlier round survived; 2 only for the command line.
ExitJustified ==
    main = "exit" =>
        CASE exit_code = 0 -> \/ Until /\ reached
                              \/ Count # None /\ printed >= Count
          [] exit_code = 1 -> trouble # {}
          [] exit_code = 2 -> ~Usable(opt) /\ printed = 0
          [] exit_code = 124 -> fired
          [] OTHER -> FALSE

\* --count N counts over all the streams of a run, reconnects included: listen
\* never prints more than N events.
CountExact == Usable(opt) /\ Count # None => printed <= Count

\* As CountExact, for the runs in which no poll races the stream.
PlainCountExact == ~Until => CountExact

\* The delay before a reconnect is 1 s doubled once for every reconnect since a
\* stream last became ready, up to 30 s: only a ready frame resets it, and one
\* of an earlier stream does not count twice.
BackoffEarned == main = "backoff" => delay = <<1, 2, 4, 8, 16, 30>>[fruitless + 1]

\* When listen checks, backs off or has returned, neither task of the last round
\* runs on: two streams never print at the same time, and polls do not pile up.
NoTaskOutlivesItsRound ==
    main \in {"startup", "recheck", "backoff", "exit"} =>
        /\ stream \in {"none", "done", "cancelled"}
        /\ poll \in {"none", "done", "cancelled"}

\* The command line that _validated lets pass is one that the server accepts, and
\* the subscription it becomes covers the events that --until waits for.
SubscriptionServesUntil == ServesUntil(opt, Deliveries)

\* Once the target stays in a terminal state that a poll can see, listen exits,
\* even if the event is lost and the stream stays open and silent.
ShownStateExits == <>[](target = "shown") => <>(main = "exit")

\* Once the target stays in its terminal state listen exits.
TerminalStateExits == <>[](target # "open") => <>(main = "exit")

\* With --timeout every run ends.
DeadlineExits == Timeout => <>(main = "exit")

\* With --timeout every run ends in which no poll races the stream.
PlainDeadlineExits == ~Until => DeadlineExits
=============================================================================
