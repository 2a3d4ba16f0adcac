------------------------------- MODULE System -------------------------------
(***************************************************************************)
(* One listen run and the server together: what is published is offered to *)
(* the subscription of the stream the client has open, goes over a         *)
(* connection as SSE lines, is put together again by the client's parser   *)
(* and printed.  Streams break at any line, the server restarts and        *)
(* forgets every subscription, and the client comes back with a new stream *)
(* and the same query.                                                     *)
(*                                                                         *)
(* The client is Listen, and every step of it is one of Listen's actions.  *)
(* The server is LossyFifo, which Gateway implements (FifoProofs.tla); a   *)
(* subscription is named by the number of the stream that opened it.  The  *)
(* client has one connection at a time, and does not wait for the server   *)
(* to notice that an old one is dead: old subscriptions stay open beside   *)
(* the new one, and events are queued for them, for as long as the server  *)
(* likes.  What it still sends to a dead connection reaches nobody and is  *)
(* left out, and so is its answer to a request the client has given up on. *)
(***************************************************************************)
EXTENDS Listen, Sse, FiniteSets, Functions

CONSTANTS
    Capacity,     \* settings.queue_maxsize
    MaxLog,       \* bound on the events published
    MaxFaults,    \* bound on the failures, an expired deadline among them
    MaxWire       \* bound on the lines under way

ASSUME SystemAssumption ==
    /\ Capacity \in Int /\ MaxLog \in Nat /\ MaxFaults \in Nat /\ MaxWire \in Nat
    /\ MaxPrinted >= MaxLog /\ MaxWire >= Len(ServerSentEvent("ready", 0))

VARIABLES
    log, request, open, pending, received, unreported, told,   \* the server, see LossyFifo
    round,        \* the number of the client's present stream, 0 before the first
    wire,         \* the lines sent on it and not yet read
    cut,          \* nothing more will come over it
    parser,       \* of parse_sse
    faults,       \* how many failures there have been
    since,        \* history: Len(log) when its subscription was opened
    seen,         \* history: the events printed, as positions in the log
    warned        \* history: the losses this stream's lag frames told the client of

serverVars == <<log, request, open, pending, received, unreported, told>>
linkVars == <<round, wire, cut, parser>>
countVars == <<since, seen, warned>>
systemVars == <<vars, serverVars, linkVars, faults, countVars>>

Rounds == 1..MaxFaults + 1

Server == INSTANCE LossyFifo WITH
    Subscriptions <- Rounds,
    Events <- Deliveries,
    Requests <- {Query(o) : o \in {c \in CommandLines : Usable(c)}},
    Nothing <- None,
    Matches <- Wants

SystemInit ==
    /\ Init
    /\ Server!FifoInit
    /\ round = 0 /\ wire = <<>> /\ cut = FALSE /\ parser = NewParser
    /\ faults = 0
    /\ since = 0 /\ seen = <<>> /\ warned = 0

-----------------------------------------------------------------------------
(* The client.                                                             *)

\* Each stream has a connection and a parser of its own.  GitHub answers in JSON
\* here: what else it may answer is checked with Listen alone.
MainStep ==
    /\ Main /\ "garbled" \notin trouble'
    /\ IF stream' = "connecting"
       THEN /\ round' = round + 1
            /\ wire' = <<>> /\ cut' = FALSE /\ parser' = NewParser /\ warned' = 0
       ELSE UNCHANGED <<linkVars, warned>>
    /\ UNCHANGED <<serverVars, faults, since, seen>>

Attached == Streaming /\ stream \in {"connecting", "open"}

\* A bug the checks must catch: the stream is opened for every type of event.
AskEveryType ==
    /\ Streaming /\ stream = "connecting" /\ ~cut
    /\ Server!Ask(round, QueryEveryType(opt))
    /\ UNCHANGED <<vars, linkVars, faults, countVars>>

Ask ==
    /\ Streaming /\ stream = "connecting" /\ ~cut
    /\ Server!Ask(round, Query(opt))
    /\ UNCHANGED <<vars, linkVars, faults, countVars>>

Connected ==
    /\ round \in open
    /\ Connect("ok")
    /\ UNCHANGED <<serverVars, linkVars, faults, countVars>>

Denied ==
    /\ Connect("refused")
    /\ round \notin open /\ request[round] # None /\ ~cut
    /\ UNCHANGED <<serverVars, linkVars, faults, countVars>>

ConnectLost ==
    /\ cut
    /\ Connect("http_error")
    /\ UNCHANGED <<serverVars, linkVars, faults, countVars>>

\* A bug the checks must catch: a lag frame goes to the standard output.
HandlePrintingLag(frame) ==
    \/ /\ frame.event = "ready"
       /\ ReadyFrame /\ UNCHANGED <<seen, warned>>
    \/ /\ frame.event # "ready"
       /\ EventFrame(log[frame.data[1]])
       /\ seen' = IF frame.event = "lag" THEN seen ELSE Append(seen, frame.data[1])
       /\ UNCHANGED warned

\* The body of the loop over parse_sse.
Handle(frame) ==
    \/ /\ frame.event = "ready"
       /\ ReadyFrame /\ UNCHANGED <<seen, warned>>
    \/ /\ frame.event = "lag" /\ Len(frame.data) = 1
       /\ warned' = warned + frame.data[1]
       /\ UNCHANGED <<vars, seen>>
    \/ /\ frame.event = "message" /\ Len(frame.data) = 1 /\ frame.data[1] \in DOMAIN log
       /\ EventFrame(log[frame.data[1]])
       /\ seen' = Append(seen, frame.data[1])
       /\ UNCHANGED warned
    \/ /\ frame.event # "ready" /\ Len(frame.data) # 1
       /\ StreamEnds("garbled")
       /\ UNCHANGED <<seen, warned>>

\* The next line, and what is done with the frame it ends, if it ends one.
Read ==
    /\ Streaming /\ stream = "open" /\ wire # <<>>
    /\ parser' = ParseLine(parser, Head(wire))
    /\ wire' = Tail(wire)
    /\ IF parser'.frame = <<>> THEN UNCHANGED <<vars, seen, warned>> ELSE Handle(parser'.frame[1])
    /\ UNCHANGED <<serverVars, round, cut, faults, since>>

\* A bug the checks must catch: the rest of an unfinished frame is waited for.
EndOfStreamBetweenFrames ==
    /\ cut /\ wire = <<>> /\ parser.data = <<>>
    /\ StreamEnds("retry")
    /\ UNCHANGED <<serverVars, linkVars, faults, countVars>>

\* What was read of an unfinished frame is forgotten.  A connection that is dead
\* without a word ends with the read timeout.
EndOfStream ==
    /\ cut /\ wire = <<>>
    /\ StreamEnds("retry")
    /\ UNCHANGED <<serverVars, linkVars, faults, countVars>>

PollStep ==
    /\ PollWakes \/ \E check \in {"reached", "open"} : PollAnswer(check)
    /\ UNCHANGED <<serverVars, linkVars, faults, countVars>>

-----------------------------------------------------------------------------
(* The server.                                                             *)

Send(lines) ==
    /\ round \in open /\ ~cut
    /\ Len(wire) + Len(lines) <= MaxWire
    /\ wire' = wire \o lines
    /\ UNCHANGED <<vars, round, cut, parser, faults, seen, warned>>

\* The registration, the response and the ready frame.
Answer ==
    /\ Attached /\ ~cut
    /\ Server!Open(round)
    /\ since' = Len(log)
    /\ wire' = ServerSentEvent("ready", 0)
    /\ UNCHANGED <<vars, round, cut, parser, faults, seen, warned>>

Push ==
    /\ Server!Receive(round)
    /\ Send(ServerSentEvent("message", Head(pending[round])))
    /\ UNCHANGED since

Warn ==
    /\ Server!Tell(round)
    /\ Send(ServerSentEvent("lag", told'[round] - told[round]))
    /\ UNCHANGED since

Ping ==
    /\ Attached /\ wire = <<>>
    /\ Send(<<Comment, Blank>>)
    /\ UNCHANGED <<serverVars, since>>

\* The server notices that nobody reads a stream any more, if it ever does.
Hangup ==
    /\ \E s \in open : (s # round \/ ~Attached \/ cut) /\ Server!Shut({s})
    /\ UNCHANGED <<vars, linkVars, faults, countVars>>

\* A bug the checks must catch: what a full queue refuses is not counted.
WebhookUncounted(d) ==
    /\ DeliveryStatus(d) = 202
    /\ Len(log) < MaxLog
    /\ Terminal(d) => reached
    /\ log' = Append(log, d)
    /\ pending' = [s \in Rounds |->
                     IF Server!Concerned(s, d) /\ ~Server!AtCapacity(pending[s])
                     THEN Append(pending[s], Len(log) + 1) ELSE pending[s]]
    /\ UNCHANGED <<request, open, received, unreported, told>>
    /\ UNCHANGED <<vars, linkVars, faults, countVars>>

Webhook(d) ==
    /\ DeliveryStatus(d) = 202
    /\ Len(log) < MaxLog
    /\ Terminal(d) => reached
    /\ Server!Publish(d)
    /\ UNCHANGED <<vars, linkVars, faults, countVars>>

-----------------------------------------------------------------------------
(* Failures, which a bound on their number keeps finite.  Each one makes   *)
(* the client reconnect at most once; an expired deadline counts as one.   *)

Fault == faults < MaxFaults /\ faults' = faults + 1

\* --timeout cancels main wherever it is.
Deadline ==
    /\ Fault
    /\ DeadlineExpires
    /\ UNCHANGED <<serverVars, linkVars, countVars>>

\* Of the lines under way only the first ones still arrive.
Cut ==
    /\ Attached /\ ~cut
    /\ cut' = TRUE
    /\ \E n \in 0..Len(wire) : wire' = SubSeq(wire, 1, n)
    /\ UNCHANGED <<vars, round, parser, countVars>>

Break == Fault /\ Cut /\ UNCHANGED serverVars

\* The server ends the stream (the access was denied, or it is shutting down).
ServerEnds == Fault /\ Server!Shut({round}) /\ Cut

\* The server's registry and queues are in memory only.
Restart ==
    /\ Fault
    /\ open' = {}
    /\ IF Attached /\ ~cut THEN Cut ELSE UNCHANGED <<vars, linkVars, countVars>>
    /\ UNCHANGED <<log, request, pending, received, unreported, told>>

\* The server is down, its authenticator or a proxy is unavailable, or it takes
\* too long.
ConnectFails ==
    /\ Fault
    /\ \E response \in {"retryable", "http_error"} : Connect(response)
    /\ UNCHANGED <<serverVars, linkVars, countVars>>

PollFails ==
    /\ Fault
    /\ PollAnswer("http_error")
    /\ UNCHANGED <<serverVars, linkVars, countVars>>

-----------------------------------------------------------------------------
\* The coroutine that serves the stream, and the one that reads it.
Serve == Answer \/ Push \/ Warn
StreamStep == Ask \/ Connected \/ ConnectLost \/ Read \/ EndOfStream

ClientStep == MainStep \/ StreamStep \/ Denied \/ PollStep

ServerStep == Serve \/ Ping \/ Hangup \/ \E d \in Deliveries : Webhook(d)

Failure == Break \/ ServerEnds \/ Restart \/ ConnectFails \/ PollFails \/ Deadline

GitHubStep ==
    /\ ReachTarget \/ Reopen
    /\ UNCHANGED <<serverVars, linkVars, faults, countVars>>

Finished == main = "exit" /\ UNCHANGED systemVars

SystemNext ==
    \/ main # "exit" /\ (ClientStep \/ ServerStep \/ Failure \/ GitHubStep)
    \/ Finished

\* Both event loops run every coroutine that is ready, and HTTP requests have
\* timeouts.  Nothing here rests on a deadline that expires in time, or on a
\* server that notices a dead connection.
SystemFairness ==
    /\ WF_systemVars(MainStep)
    /\ WF_systemVars(StreamStep)
    /\ WF_systemVars(PollStep)
    /\ WF_systemVars(Serve)

SystemSpec == SystemInit /\ [][SystemNext]_systemVars /\ SystemFairness

-----------------------------------------------------------------------------
(* Properties.                                                             *)

\* The client has said "subscribed" and its stream has not failed.
Listening == Streaming /\ stream = "open" /\ ready /\ ~cut

\* What the flags say, read off them and the raw event.
AsksFor(o, d) ==
    /\ d.payload.repo = o.repo
    /\ d.event \in EventsOf(o)
    /\ o.action \in {None, d.payload.action}
    /\ o.number \in {None, extract_number(d.event, d.payload)}

\* The lines that the parser has read of a frame which has not ended.
Begun(p) ==
    (IF p.event = "message" THEN <<>> ELSE <<Line("event", p.event)>>)
        \o [i \in 1..Len(p.data) |-> Line("data", p.data[i])]

\* The lines sent that have not become a frame yet.
UnderWay == Begun(parser) \o wire

DataLines(lines) == {i \in 1..Len(lines) : lines[i].field = "data"}
Named(lines) == {i \in DataLines(lines) : i > 1 /\ lines[i - 1].field = "event"}
Plain(lines) == DataLines(lines) \ Named(lines)

\* The losses that lag frames count; the count of a ready frame is 0.
LagIn(lines) ==
    FoldFunctionOnSet(+, 0, [i \in Named(lines) |-> lines[i].value], Named(lines))

\* What the variables of this module hold.
SystemTypeOK ==
    /\ round \in 0..MaxFaults + 1 /\ faults \in 0..MaxFaults
    /\ open \subseteq 1..round
    /\ Len(wire) <= MaxWire /\ cut \in BOOLEAN
    /\ \A i \in 1..Len(seen) : seen[i] \in 1..Len(log)
    /\ printed = Len(seen)

\* No loss is silent, from the webhook to the terminal: while the client is
\* listening, every event that its flags ask for and that was published since
\* the server registered the stream has been printed, is under way, is in the
\* stream's queue, or is in a count that the client has been or will be warned of.
NothingSilentlyLost ==
    Listening =>
        /\ round \in open
        /\ Cardinality({n \in since + 1..Len(log) : AsksFor(opt, log[n])}) =
               Cardinality({i \in 1..Len(seen) : seen[i] > since})
             + Cardinality(Plain(UnderWay)) + Len(pending[round])
             + unreported[round] + LagIn(UnderWay) + warned

\* Over all the streams of a run, the client prints only events that its flags ask
\* for, in the order they were published and none of them twice.
PrintedInOrder ==
    /\ \A i \in 1..Len(seen) : AsksFor(opt, log[seen[i]])
    /\ \A i, j \in 1..Len(seen) : i < j => seen[i] < seen[j]

\* What Listen takes for granted of a server (the guard of EventFrame) this one
\* gives it: however often the client has come back, every event on the way to it
\* is one that it asked for, is not more than it can print, and does not say that
\* the target is in its terminal state before it has been.
EventsExpected ==
    \A i \in Plain(UnderWay) :
        LET d == log[UnderWay[i].value]
        IN  printed < MaxPrinted /\ Wants(Query(opt), d) /\ (Terminal(d) => reached)

\* Wherever a stream breaks, its lines never become a frame the server did not
\* send: the client does not take one for a protocol error and give up.
FramesIntact == outcome # "garbled"

\* What the client gets of its server, over all its streams, is what LossyFifo
\* promises: a restart loses subscriptions and their queues, and nothing else.
ImplementsFifo == Server!FifoSpec

\* A client that keeps listening while an event it asked for is neither printed nor
\* in a count it has been told gets another event or count, again and again: what
\* is queued is printed in its turn, and a loss is told, unless the stream fails or
\* the run ends.
KeepsUp ==
    LET wanted == {n \in since + 1..Len(log) : AsksFor(opt, log[n])}
        printedSince == {i \in 1..Len(seen) : seen[i] > since}
        outstanding == Cardinality(wanted) # Cardinality(printedSince) + warned
    IN  <>[](Listening /\ outstanding) => []<><<TRUE>>_<<seen, warned>>

\* Streams may break and the server may restart: once that stops, the client is
\* subscribed again, and stays so, or it has exited.
Resubscribes == <>[](main = "exit" \/ (Listening /\ round \in open))
=============================================================================
