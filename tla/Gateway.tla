------------------------------- MODULE Gateway -------------------------------
(***************************************************************************)
(* server/app.py with the Subscriber of server/registry.py: webhooks come  *)
(* in, are matched against the registry and offered to the bounded queue   *)
(* of every matching stream; each stream is a coroutine that drains its    *)
(* queue into an SSE response, reports what its queue had to drop, and     *)
(* rechecks the client's access when a deadline passes.                    *)
(*                                                                         *)
(* The process runs one event loop, so the code between two awaits (or     *)
(* yields) is one atomic step.  pc[r] names the await or yield at which    *)
(* the coroutine serving stream request r is suspended:                    *)
(*                                                                         *)
(*   idle       the request has not been made                              *)
(*   verify     await authenticator.verify(token, repo)                    *)
(*   refused    answered with an HTTP error                                *)
(*   starting   registered; the generator has not got past its first       *)
(*              await, which stands before its try block                   *)
(*   ready      yield of the "ready" frame                                 *)
(*   lagging    await between take_dropped() and the "lag" frame           *)
(*   lag        yield of the "lag" frame                                   *)
(*   lagged     await after the "lag" frame                                *)
(*   waiting    await of the empty queue, with the recheck as its timeout  *)
(*   recheck    await authenticator.verify(..., fresh=True)                *)
(*   data       yield of an event                                          *)
(*   abandoned  the transport will not resume the generator, which is      *)
(*              still suspended at a yield                                 *)
(*   closed     the generator ended and its finally block ran              *)
(*   leaked     the generator ended and its finally block did not run      *)
(***************************************************************************)
EXTENDS Registry, Requests, Sequences, FiniteSets, Functions

CONSTANTS
    Queries,       \* what a client may ask of /events/stream
    Deliveries,    \* what may be posted to /webhook
    QueueMaxsize,  \* settings.queue_maxsize; asyncio takes 0 or less as no limit
    MaxArrivals    \* bound on the webhooks accepted

ASSUME QueueAssumption == QueueMaxsize \in Int /\ MaxArrivals \in Nat

Verdicts == {"ALLOWED", "DENIED", "UNAVAILABLE"}

VARIABLES
    pc, query, status, conn,   \* of a stream request: suspension point, query, HTTP
                               \* status, connection id (0 before it has one)
    queue, dropped,            \* its Subscriber
    lag,                       \* the generator's local "dropped" until it is sent
    due,                       \* next_recheck has passed
    gone,                      \* the transport was told to stop: the client left, or
                               \* the server is shutting down
    arrivals,                  \* history: the deliveries accepted, in order
    since,                     \* history: Len(arrivals) when the stream registered
    yielded,                   \* history: arrivals put into "data" frames, in order
    reported,                  \* history: sum of the counts put into "lag" frames
    acked                      \* history: totals answered to the webhooks' sender

streamVars == <<pc, query, status, conn, queue, dropped, lag, due, gone>>
historyVars == <<arrivals, since, yielded, reported, acked>>
vars == <<registryVars, streamVars, historyVars>>

\* Filters holds the filters of every query that passes the checks.
ASSUME QueriesAssumption ==
    /\ None \notin Queries
    /\ \A q \in Queries : QueryStatus(q) = 200 => FiltersOf(q) \subseteq Filters

-----------------------------------------------------------------------------
Init ==
    /\ RegistryInit
    /\ pc = [r \in Streams |-> "idle"]
    /\ query = [r \in Streams |-> None]
    /\ status = [r \in Streams |-> 0]
    /\ conn = [r \in Streams |-> 0]
    /\ queue = [r \in Streams |-> <<>>]
    /\ dropped = [r \in Streams |-> 0]
    /\ lag = [r \in Streams |-> 0]
    /\ due = [r \in Streams |-> FALSE]
    /\ gone = [r \in Streams |-> FALSE]
    /\ arrivals = <<>>
    /\ since = [r \in Streams |-> 0]
    /\ yielded = [r \in Streams |-> <<>>]
    /\ reported = [r \in Streams |-> 0]
    /\ acked = [delivered |-> 0, dropped |-> 0]

Goto(r, label) == pc' = [pc EXCEPT ![r] = label]

-----------------------------------------------------------------------------
(* POST /webhook.  Everything after the body has been read is one step.    *)
\* A bug the checks must catch: one event too many fits in.
FullOffByOne(q) == QueueMaxsize > 0 /\ Len(q) > QueueMaxsize

Full(q) == QueueMaxsize > 0 /\ Len(q) >= QueueMaxsize

matched(norm) == {connections[id].subscriber : id \in match(norm)}

Accept(d) ==
    LET to == matched(normalize(d.event, d.payload))
        lost == {r \in to : Full(queue[r])}
        n == Len(arrivals) + 1
    IN  /\ n <= MaxArrivals
        /\ arrivals' = Append(arrivals, d)
        /\ queue' = [r \in Streams |->
                       IF r \in to \ lost THEN Append(queue[r], n) ELSE queue[r]]
        /\ dropped' = [r \in Streams |->
                         IF r \in lost THEN dropped[r] + 1 ELSE dropped[r]]
        /\ acked' = [delivered |-> acked.delivered + Cardinality(to \ lost),
                     dropped |-> acked.dropped + Cardinality(lost)]
        /\ UNCHANGED <<registryVars, pc, query, status, conn, lag, due, gone,
                       since, yielded, reported>>

Webhook(d) ==
    IF DeliveryStatus(d) = 202 THEN Accept(d) ELSE UNCHANGED vars

-----------------------------------------------------------------------------
(* GET /events/stream, up to the response object.                          *)
Request(r, q) ==
    /\ pc[r] = "idle"
    /\ query' = [query EXCEPT ![r] = q]
    /\ IF QueryStatus(q) = 200
       THEN Goto(r, "verify") /\ UNCHANGED status
       ELSE Goto(r, "refused") /\ status' = [status EXCEPT ![r] = QueryStatus(q)]
    /\ UNCHANGED <<registryVars, conn, queue, dropped, lag, due, gone, historyVars>>

\* A bug the checks must catch: a refusal is an internal error.
RefuseRaising(r, code) ==
    /\ Goto(r, "refused")
    /\ status' = [status EXCEPT ![r] = 500]
    /\ UNCHANGED <<registryVars, conn, since>>

Refuse(r, code) ==
    /\ Goto(r, "refused")
    /\ status' = [status EXCEPT ![r] = code]
    /\ UNCHANGED <<registryVars, conn, since>>

Admit(r) ==
    /\ Register(FiltersOf(query[r]), r)
    /\ conn' = [conn EXCEPT ![r] = next_id]
    /\ since' = [since EXCEPT ![r] = Len(arrivals)]
    /\ status' = [status EXCEPT ![r] = 200]
    /\ Goto(r, "starting")

Authorized(r, verdict) ==
    /\ pc[r] = "verify"
    /\ \/ verdict = "ALLOWED" /\ Admit(r)
       \/ verdict = "DENIED" /\ Refuse(r, 403)
       \/ verdict = "UNAVAILABLE" /\ Refuse(r, 503)
    /\ UNCHANGED <<query, queue, dropped, lag, due, gone,
                   arrivals, yielded, reported, acked>>

-----------------------------------------------------------------------------
(* The event generator.  The bodies below run between two suspensions, so  *)
(* they are shared by the actions that resume it.                          *)

\* A bug the checks must catch: the newest event is taken first.
TakeNewest(r) ==
    /\ yielded' = [yielded EXCEPT ![r] = Append(@, queue[r][Len(queue[r])])]
    /\ queue' = [queue EXCEPT ![r] = SubSeq(@, 1, Len(@) - 1)]
    /\ Goto(r, "data")

\* get_nowait inside the generator's queue.get(), and the "data" frame.
Take(r) ==
    /\ yielded' = [yielded EXCEPT ![r] = Append(@, Head(queue[r]))]
    /\ queue' = [queue EXCEPT ![r] = Tail(@)]
    /\ Goto(r, "data")

\* A bug the checks must catch: an overdue recheck waits until the queue is
\* empty.
AwaitQueuePreferringEvents(r, overdue) ==
    \/ /\ queue[r] # <<>>
       /\ Take(r)
    \/ /\ queue[r] = <<>>
       /\ Goto(r, IF overdue THEN "recheck" ELSE "waiting")
       /\ UNCHANGED <<queue, yielded>>

\* wait_for(queue.get(), timeout): a timeout of 0 cancels get() before it
\* runs, so an overdue recheck goes first whatever the queue holds.
AwaitQueue(r, overdue) ==
    \/ /\ ~overdue /\ queue[r] # <<>>
       /\ Take(r)
    \/ /\ overdue \/ queue[r] = <<>>
       /\ Goto(r, IF overdue THEN "recheck" ELSE "waiting")
       /\ UNCHANGED <<queue, yielded>>

\* Bugs the checks must catch: the generator does not look at the count.
IterateUnawareOfLoss(r, overdue) == AwaitQueue(r, overdue) /\ UNCHANGED <<dropped, lag>>

\* take_dropped() is called in the test and again for the frame.
IterateTakingTwice(r, overdue) ==
    IF dropped[r] > 0
    THEN /\ dropped' = [dropped EXCEPT ![r] = 0]
         /\ Goto(r, "lagging")
         /\ UNCHANGED <<lag, queue, yielded>>
    ELSE AwaitQueue(r, overdue) /\ UNCHANGED <<dropped, lag>>

\* A count of nothing is reported too, and after each recheck there is a frame
\* during which the next one can fall due.
IterateReportingZero(r, overdue) ==
    /\ lag' = [lag EXCEPT ![r] = dropped[r]]
    /\ dropped' = [dropped EXCEPT ![r] = 0]
    /\ Goto(r, "lagging")
    /\ UNCHANGED <<queue, yielded>>

\* The top of the loop: a pending loss is taken and reported before the
\* queue is looked at.
Iterate(r, overdue) ==
    IF dropped[r] > 0
    THEN /\ lag' = [lag EXCEPT ![r] = dropped[r]]
         /\ dropped' = [dropped EXCEPT ![r] = 0]
         /\ Goto(r, "lagging")
         /\ UNCHANGED <<queue, yielded>>
    ELSE AwaitQueue(r, overdue) /\ UNCHANGED <<dropped, lag>>

\* The first await returns: the recheck is armed and "ready" is yielded.
Start(r) ==
    /\ pc[r] = "starting"
    /\ Goto(r, "ready")
    /\ due' = [due EXCEPT ![r] = FALSE]
    /\ UNCHANGED <<registryVars, query, status, conn, queue, dropped, lag, gone, historyVars>>

\* The transport has sent the frame and asks for the next one.
Resume(r) ==
    /\ pc[r] \in {"ready", "data"}
    /\ Iterate(r, due[r])
    /\ UNCHANGED <<registryVars, query, status, conn, due, gone,
                   arrivals, since, reported, acked>>

\* A bug the checks must catch: the count is reset when the frame is sent, and
\* what was lost during the await is forgotten.
SendLagResetting(r) ==
    /\ pc[r] = "lagging"
    /\ Goto(r, "lag")
    /\ reported' = [reported EXCEPT ![r] = @ + lag[r]]
    /\ lag' = [lag EXCEPT ![r] = 0]
    /\ dropped' = [dropped EXCEPT ![r] = 0]
    /\ UNCHANGED <<registryVars, query, status, conn, queue, due, gone,
                   arrivals, since, yielded, acked>>

SendLag(r) ==
    /\ pc[r] = "lagging"
    /\ Goto(r, "lag")
    /\ reported' = [reported EXCEPT ![r] = @ + lag[r]]
    /\ lag' = [lag EXCEPT ![r] = 0]
    /\ UNCHANGED <<registryVars, query, status, conn, queue, dropped, due, gone,
                   arrivals, since, yielded, acked>>

LagSent(r) ==
    /\ pc[r] = "lag"
    /\ Goto(r, "lagged")
    /\ UNCHANGED <<registryVars, query, status, conn, queue, dropped, lag, due, gone, historyVars>>


AfterLag(r) ==
    /\ pc[r] = "lagged"
    /\ AwaitQueue(r, due[r])
    /\ UNCHANGED <<registryVars, query, status, conn, dropped, lag, due, gone,
                   arrivals, since, reported, acked>>

\* An event put in the queue wakes get().  It may still win against a
\* deadline that has just passed.
Wake(r) ==
    /\ pc[r] = "waiting"
    /\ queue[r] # <<>>
    /\ Take(r)
    /\ UNCHANGED <<registryVars, query, status, conn, dropped, lag, due, gone,
                   arrivals, since, reported, acked>>

\* A bug the checks must catch: the deadline is moved on without a recheck.
TimeOutRearming(r) ==
    /\ pc[r] = "waiting"
    /\ due[r]
    /\ due' = [due EXCEPT ![r] = FALSE]
    /\ UNCHANGED <<registryVars, pc, query, status, conn, queue, dropped, lag, gone, historyVars>>

\* wait_for raises TimeoutError.  An event put in the same turn of the event
\* loop stays in the queue.
TimeOut(r) ==
    /\ pc[r] = "waiting"
    /\ due[r]
    /\ Goto(r, "recheck")
    /\ UNCHANGED <<registryVars, query, status, conn, queue, dropped, lag, due, gone, historyVars>>

Armed == {"ready", "lagging", "lag", "lagged", "waiting", "data"}

\* The clock reaches next_recheck.  The delay (recheck_interval, or at most
\* 30 s after UNAVAILABLE) is any time greater than 0.
DeadlinePasses(r) ==
    /\ pc[r] \in Armed
    /\ ~due[r]
    /\ due' = [due EXCEPT ![r] = TRUE]
    /\ UNCHANGED <<registryVars, pc, query, status, conn, queue, dropped, lag, gone, historyVars>>

\* A bug the checks must catch: there is no finally clause.
CloseWithoutFinally(r) == Goto(r, "closed") /\ UNCHANGED registryVars

\* The generator leaves its try block by return or by an exception.
Close(r) ==
    /\ Unregister(conn[r])
    /\ Goto(r, "closed")


\* The answer of verify(fresh=True): only a denial ends the stream.
Recheck(r, verdict) ==
    /\ pc[r] = "recheck"
    /\ \/ /\ verdict = "DENIED"
          /\ Close(r)
          /\ UNCHANGED <<due, queue, dropped, lag, yielded>>
       \/ /\ verdict # "DENIED"
          /\ due' = [due EXCEPT ![r] = FALSE]
          /\ Iterate(r, FALSE)
          /\ UNCHANGED registryVars
    /\ UNCHANGED <<query, status, conn, gone, arrivals, since, reported, acked>>

-----------------------------------------------------------------------------
(* The end of a stream by the transport: EventSourceResponse cancels the   *)
(* task that iterates the generator when the client disconnects or the     *)
(* server shuts down.                                                      *)
AtYield == {"ready", "lag", "data"}
InTry == {"lagging", "lagged", "waiting", "recheck"}
Live == {"verify", "starting"} \cup AtYield \cup InTry

Stop(r) ==
    /\ pc[r] \in Live
    /\ ~gone[r]
    /\ gone' = [gone EXCEPT ![r] = TRUE]
    /\ UNCHANGED <<registryVars, pc, query, status, conn, queue, dropped, lag, due, historyVars>>

\* The cancellation is delivered.  At an await it is raised inside the
\* generator: in the try block the finally clause unregisters, while the first
\* await, which precedes the try block, has nothing to undo the registration.
\* At a yield it is raised in the iterating task, and the generator is left
\* suspended until it is finalized.
Cancel(r) ==
    /\ gone[r]
    /\ \/ /\ pc[r] = "starting"
          /\ Goto(r, "leaked")
          /\ UNCHANGED registryVars
       \/ /\ pc[r] \in AtYield
          /\ Goto(r, "abandoned")
          /\ UNCHANGED registryVars
       \/ /\ pc[r] \in InTry
          /\ Close(r)
    /\ UNCHANGED <<query, status, conn, queue, dropped, lag, due, gone, historyVars>>

\* The event loop closes an abandoned generator (aclose raises GeneratorExit
\* at the yield) and its finally clause runs.
Finalize(r) ==
    /\ pc[r] = "abandoned"
    /\ Close(r)
    /\ UNCHANGED <<query, status, conn, queue, dropped, lag, due, gone, historyVars>>

-----------------------------------------------------------------------------
Stream(r) ==
    \/ \E q \in Queries : Request(r, q)
    \/ \E verdict \in Verdicts : Authorized(r, verdict)
    \/ Start(r)
    \/ Resume(r)
    \/ SendLag(r)
    \/ LagSent(r)
    \/ AfterLag(r)
    \/ Wake(r)
    \/ TimeOut(r)
    \/ DeadlinePasses(r)
    \/ \E verdict \in Verdicts : Recheck(r, verdict)
    \/ Stop(r)
    \/ Cancel(r)
    \/ Finalize(r)

Next ==
    \/ \E d \in Deliveries : Webhook(d)
    \/ \E r \in Streams : Stream(r)

Spec == Init /\ [][Next]_vars

\* The event loop runs every ready coroutine, verify ends (the HTTP client has
\* timeouts), the clock advances, and the transport is either able to send or
\* told to stop.  Nobody has to call: no fairness for Webhook, Request, Stop.
Fairness(r) ==
    /\ WF_vars(\E verdict \in Verdicts : Authorized(r, verdict))
    /\ WF_vars(Start(r))
    /\ WF_vars(Resume(r))
    /\ WF_vars(SendLag(r))
    /\ WF_vars(LagSent(r))
    /\ WF_vars(AfterLag(r))
    /\ WF_vars(Wake(r))
    /\ WF_vars(TimeOut(r))
    /\ WF_vars(DeadlinePasses(r))
    /\ WF_vars(\E verdict \in Verdicts : Recheck(r, verdict))
    /\ WF_vars(Cancel(r))
    /\ WF_vars(Finalize(r))

FairSpec == Spec /\ \A r \in Streams : Fairness(r)

-----------------------------------------------------------------------------
(* What the properties are about.                                          *)
Ended == {"closed", "leaked"}
Held == {"starting", "abandoned", "leaked"} \cup AtYield \cup InTry

Registered(r) == conn[r] \in DOMAIN connections

Wanted(r) == {n \in since[r] + 1 .. Len(arrivals) : Wants(query[r], arrivals[n])}

\* Every event the stream was offered and has not lost, oldest first.
Kept(r) == yielded[r] \o queue[r]

Lost(r) == dropped[r] + lag[r] + reported[r]

-----------------------------------------------------------------------------
(* Types, and the registry's own invariants in the composed system.        *)
GatewayTypeOK ==
    /\ RegistryTypeOK
    /\ pc \in [Streams -> {"idle", "verify", "refused", "closed"} \cup Held]
    /\ query \in [Streams -> Queries \cup {None}]
    /\ status \in [Streams -> {0, 200, 401, 403, 422, 503}]
    /\ conn \in [Streams -> Nat]
    /\ queue \in [Streams -> Seq(Nat)]
    /\ dropped \in [Streams -> Nat]
    /\ lag \in [Streams -> Nat]
    /\ due \in [Streams -> BOOLEAN]
    /\ gone \in [Streams -> BOOLEAN]
    /\ arrivals \in Seq(Deliveries)
    /\ since \in [Streams -> Nat]
    /\ yielded \in [Streams -> Seq(Nat)]
    /\ reported \in [Streams -> Nat]
    /\ acked \in [delivered : Nat, dropped : Nat]

\* A stream is in the registry, once and with its own filters and its own
\* subscriber, exactly from its admission until its finally block has run;
\* nothing else is in the registry, and nothing is registered for a caller
\* that was refused.
RegisteredWhileOpen ==
    /\ \A r \in Streams : Registered(r) <=> pc[r] \in Held
    /\ \A id \in DOMAIN connections :
         LET r == connections[id].subscriber
         IN  conn[r] = id /\ status[r] = 200 /\ connections[id].filters = FiltersOf(query[r])

\* No loss is silent: of all the events its client asked for since a stream
\* was registered, each one has been yielded, or is in its queue, or is in a
\* count that has been or still has to be reported.
ExactAccounting ==
    \A r \in Streams : Registered(r) => Cardinality(Wanted(r)) = Len(Kept(r)) + Lost(r)

\* A client sees only events it asked for, of the time since it was
\* registered, in the order they came in and none of them twice.
WantedInOrder ==
    \A r \in Streams :
        /\ \A i \in 1..Len(Kept(r)) :
             /\ Kept(r)[i] \in since[r] + 1 .. Len(arrivals)
             /\ Wants(query[r], arrivals[Kept(r)[i]])
        /\ \A i, j \in 1..Len(Kept(r)) : i < j => Kept(r)[i] < Kept(r)[j]

\* A stream never sleeps on an unreported loss: while it waits for events, a
\* count it has still to report comes with a queued event, which will wake it,
\* so no "lag" frame is put off until the next webhook or recheck.
NoSleepingOnLoss ==
    \A r \in Streams :
        pc[r] = "waiting" => lag[r] = 0 /\ (dropped[r] > 0 => queue[r] # <<>>)

\* The sender of the webhooks and the streams agree: the totals of the
\* "delivered" and "dropped" answers are those of all the streams, the ended
\* ones included.
TotalOf(f) == FoldFunction(+, 0, f)

SenderAgrees ==
    /\ acked.delivered = TotalOf([r \in Streams |-> Len(Kept(r))])
    /\ acked.dropped = TotalOf([r \in Streams |-> Lost(r)])

\* Traffic cannot put off a recheck: once the deadline has passed no event is
\* yielded before the recheck has been answered, except the one that was just
\* waking the stream.
RecheckNotStarved ==
    [][\A r \in Streams : due[r] /\ yielded'[r] # yielded[r] => pc[r] \in {"waiting", "recheck"}]_vars

\* A registration lasts no longer than its stream: a stream that has ended is
\* not in the registry (docs/specs/01-architecture.md and 02-delivery.md).
ClosedMeansUnregistered == \A r \in Streams : pc[r] \in Ended => ~Registered(r)

-----------------------------------------------------------------------------
(* Liveness, under FairSpec.                                               *)

\* Every loss that has been counted is reported to the client, unless its stream
\* ends first, however many more come in the meantime.
LossReported ==
    \A r \in Streams, n \in 1..MaxArrivals :
        Registered(r) /\ Lost(r) >= n ~> reported[r] >= n \/ pc[r] \in Ended

\* Every event that has been queued is yielded, unless its stream ends or loses
\* yet another event first: neither rechecks, one after the other, nor later
\* events nor the losses there have been starve it.  A further loss can put it
\* off, and losses that never end can do so for ever: a loss is reported before
\* the queue is looked at, during that frame the recheck falls due, it goes
\* first, and by its end there is a new loss to report.
QueuedIsYielded ==
    \A r \in Streams, n \in 1..MaxArrivals, k \in 0..MaxArrivals :
        Registered(r) /\ n \in Range(queue[r]) /\ Lost(r) = k
            ~> n \in Range(yielded[r]) \/ Lost(r) > k \/ pc[r] \in Ended

\* A deadline that passes leads to a recheck, whatever the traffic.
RecheckHappens ==
    \A r \in Streams : pc[r] \in Armed /\ due[r] ~> pc[r] \in {"recheck"} \cup Ended

\* A disconnected stream that had got as far as "ready" leaves the registry.
DisconnectUnregisters ==
    \A r \in Streams : pc[r] \in AtYield \cup InTry /\ gone[r] ~> ~Registered(r)

-----------------------------------------------------------------------------
(* The gateway implements LossyFifo: through the index, the queues and the *)
(* generators, each stream gets what its client asked for and nothing else.*)
Fifo == INSTANCE LossyFifo WITH
    Subscriptions <- Streams,
    Events <- Deliveries,
    Requests <- Queries,
    Nothing <- None,
    Matches <- Wants,
    Capacity <- QueueMaxsize,
    log <- arrivals,
    request <- query,
    open <- {r \in Streams : Registered(r)},
    pending <- queue,
    received <- yielded,
    unreported <- [r \in Streams |-> dropped[r] + lag[r]],
    told <- reported

\* Every step of the gateway is a step of LossyFifo or changes nothing that it
\* speaks of.
ImplementsLossyFifo == Fifo!FifoSpec
=============================================================================
