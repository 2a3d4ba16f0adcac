----------------------------- MODULE FifoProofs -----------------------------
(***************************************************************************)
(* The gateway implements LossyFifo, for every set of streams, queries,    *)
(* deliveries and every queue size: each stream is offered exactly the     *)
(* events its client asked for while it is registered, gets them in order, *)
(* and counts every one it loses.                                          *)
(***************************************************************************)
EXTENDS GatewayProofs, SequenceTheorems, Sums

\* The gateway's filters, normalization and matching rule together select what
\* the query says, read off the raw delivery.
LEMMA SelectsWhatIsWanted ==
    ASSUME NEW q, NEW d, d.payload.repo # None
    PROVE  (\E f \in FiltersOf(q) : Selects(f, normalize(d.event, d.payload))) <=> Wants(q, d)
  <1> DEFINE norm == normalize(d.event, d.payload)
  <1>1. norm = [repo |-> d.payload.repo, event |-> d.event, action |-> d.payload.action,
                number |-> extract_number(d.event, d.payload)]
    BY DEF normalize
  <1>2. \A f \in FiltersOf(q) : f.repo = q.repo /\ f.action = q.action /\ f.number = q.number
    BY DEF FiltersOf
  <1>3. (\E f \in FiltersOf(q) : f.event = d.event) <=> d.event \in q.events
    <2>1. ASSUME NEW f \in FiltersOf(q), f.event = d.event PROVE d.event \in q.events
      BY <2>1 DEF FiltersOf
    <2>2. ASSUME d.event \in q.events PROVE \E f \in FiltersOf(q) : f.event = d.event
      <3> DEFINE g == [repo |-> q.repo, event |-> d.event, action |-> q.action,
                       number |-> q.number]
      <3>1. g \in FiltersOf(q)
        BY <2>2 DEF FiltersOf
      <3>2. g.event = d.event
        OBVIOUS
      <3> QED BY <3>1, <3>2
    <2> QED BY <2>1, <2>2
  <1>4. q.number = None \/ q.number = extract_number(d.event, d.payload)
          <=> \/ q.number = None
              \/ d.event \in {"issues", "issue_comment"} /\ q.number = d.payload.issue
              \/ d.event \in {"pull_request", "pull_request_review"}
                   /\ q.number = d.payload.pull_request
    BY DEF extract_number
  <1>5. (\E f \in FiltersOf(q) : Selects(f, norm))
          <=> /\ \E f \in FiltersOf(q) : f.event = d.event
              /\ q.repo = d.payload.repo
              /\ q.action = None \/ q.action = d.payload.action
              /\ q.number = None \/ q.number = extract_number(d.event, d.payload)
    BY <1>1, <1>2 DEF Selects
  <1> QED BY <1>3, <1>4, <1>5 DEF Wants

\* An accepted webhook goes to the registered streams that asked for it.
LEMMA MatchedAreWanting ==
    ASSUME GatewayInv, NEW d \in Deliveries, DeliveryStatus(d) = 202
    PROVE  matched(normalize(d.event, d.payload))
             = {r \in Streams : Registered(r) /\ Wants(query[r], d)}
  <1> DEFINE norm == normalize(d.event, d.payload)
  <1>1. d.payload.repo # None
    BY DEF DeliveryStatus, normalize
  <1>2. match(norm) = {i \in DOMAIN connections :
                         \E f \in connections[i].filters : Selects(f, norm)}
    BY MatchThroughIndex DEF GatewayInv
  <1>3. \A i \in DOMAIN connections :
          connections[i].filters = FiltersOf(query[connections[i].subscriber])
    BY DEF GatewayInv, RegisteredWhileOpen
  <1>4. match(norm) = {i \in DOMAIN connections : Wants(query[connections[i].subscriber], d)}
    BY <1>1, <1>2, <1>3, SelectsWhatIsWanted
  <1>5. ASSUME NEW r \in Streams, Registered(r), Wants(query[r], d)
        PROVE  r \in matched(norm)
    BY <1>4, <1>5 DEF matched, GatewayInv, Ownership, Registered
  <1>6. ASSUME NEW r \in matched(norm)
        PROVE  r \in Streams /\ Registered(r) /\ Wants(query[r], d)
    BY <1>4, SubscriberHeld DEF matched
  <1> QED BY <1>5, <1>6

LEMMA FifoInitRefined == Init => Fifo!FifoInit
  <1> SUFFICES ASSUME Init PROVE Fifo!FifoInit
    OBVIOUS
  <1>1. DOMAIN connections = {}
    <2>1. connections = [id \in {} |-> None]
      BY DEF Init, RegistryInit
    <2> QED BY <2>1
  <1>2. {r \in Streams : Registered(r)} = {}
    BY <1>1 DEF Registered
  <1>3. [r \in Streams |-> dropped[r] + lag[r]] = [r \in Streams |-> 0]
    <2>1. \A r \in Streams : dropped[r] + lag[r] = 0
      BY DEF Init
    <2> QED BY <2>1
  <1> QED BY <1>2, <1>3 DEF Init, Fifo!FifoInit

-----------------------------------------------------------------------------
(* What LossyFifo sees of a stream besides the variables it shares.        *)
isOpen == {r \in Streams : Registered(r)}
owed == [r \in Streams |-> dropped[r] + lag[r]]

FifoStep == [Fifo!FifoNext]_(Fifo!fifoVars)

LEMMA FifoTypes ==
    ASSUME GatewayInv
    PROVE  /\ query \in [Streams -> Queries \cup {None}]
           /\ queue \in [Streams -> Seq(Nat)] /\ yielded \in [Streams -> Seq(Nat)]
           /\ dropped \in [Streams -> Nat] /\ lag \in [Streams -> Nat]
           /\ reported \in [Streams -> Nat] /\ due \in [Streams -> BOOLEAN]
           /\ conn \in [Streams -> Nat] /\ Len(arrivals) \in Nat
  BY DEF GatewayInv, GatewayTypeOK

\* Steps that LossyFifo does not see.
LEMMA Unseen ==
    ASSUME UNCHANGED <<arrivals, query, isOpen, queue, yielded, owed, reported>>
    PROVE  FifoStep
  BY DEF FifoStep, Fifo!fifoVars, isOpen, owed

LEMMA SameOpen ==
    ASSUME UNCHANGED <<connections, conn>>
    PROVE  isOpen' = isOpen
  BY DEF isOpen, Registered

LEMMA SameOwed ==
    ASSUME UNCHANGED <<dropped, lag>>
    PROVE  owed' = owed
  BY DEF owed

\* A webhook is published to every open subscription that asks for it.
LEMMA AcceptPublishes ==
    ASSUME GatewayInv, NEW d \in Deliveries, DeliveryStatus(d) = 202, Accept(d)
    PROVE  FifoStep
  <1> DEFINE to == {r \in Streams : Registered(r) /\ Wants(query[r], d)}
             lost == {r \in to : Full(queue[r])}
  <1>1. to = matched(normalize(d.event, d.payload))
    BY MatchedAreWanting
  <1>2. /\ arrivals' = Append(arrivals, d)
        /\ queue' = [r \in Streams |->
                       IF r \in to \ lost THEN Append(queue[r], Len(arrivals) + 1) ELSE queue[r]]
        /\ dropped' = [r \in Streams |-> IF r \in lost THEN dropped[r] + 1 ELSE dropped[r]]
        /\ UNCHANGED <<query, yielded, reported, lag, connections, conn>>
    BY <1>1 DEF Accept, registryVars
  <1>3. isOpen' = isOpen
    BY <1>2, SameOpen
  <1>4. \A r \in Streams : r \in to <=> Fifo!Concerned(r, d)
    BY DEF Fifo!Concerned
  <1>5. \A r \in Streams : Full(queue[r]) <=> Fifo!AtCapacity(queue[r])
    BY DEF Full, Fifo!AtCapacity
  <1>6. queue' = [r \in Streams |-> IF Fifo!Concerned(r, d) /\ ~Fifo!AtCapacity(queue[r])
                                    THEN Append(queue[r], Len(arrivals) + 1) ELSE queue[r]]
    BY <1>2, <1>4, <1>5
  <1>7. owed' = [r \in Streams |-> IF Fifo!Concerned(r, d) /\ Fifo!AtCapacity(queue[r])
                                   THEN owed[r] + 1 ELSE owed[r]]
    <2>1. \A r \in Streams : dropped'[r] + lag'[r] =
            IF Fifo!Concerned(r, d) /\ Fifo!AtCapacity(queue[r])
            THEN (dropped[r] + lag[r]) + 1 ELSE dropped[r] + lag[r]
      BY <1>2, <1>4, <1>5, FifoTypes
    <2> QED BY <2>1 DEF owed
  <1>8. Fifo!Publish(d)
    BY <1>2, <1>3, <1>6, <1>7 DEF Fifo!Publish, isOpen, owed
  <1> QED BY <1>8 DEF FifoStep, Fifo!FifoNext

\* Taking an event from the queue is receiving it; nothing else moves.
LEMMA AwaitQueueReceives ==
    ASSUME GatewayInv, NEW r \in Streams, Registered(r), NEW overdue \in BOOLEAN,
           AwaitQueue(r, overdue),
           UNCHANGED <<arrivals, query, isOpen, owed, reported>>
    PROVE  FifoStep
  <1>1. CASE Take(r) /\ queue[r] # <<>>
    <2>1. Fifo!Receive(r)
      BY <1>1 DEF Take, Fifo!Receive, isOpen, owed
    <2> QED BY <2>1 DEF FifoStep, Fifo!FifoNext
  <1>2. CASE UNCHANGED <<queue, yielded>>
    BY <1>2, Unseen
  <1> QED BY <1>1, <1>2 DEF AwaitQueue

LEMMA IterateReceives ==
    ASSUME GatewayInv, NEW r \in Streams, Registered(r), NEW overdue \in BOOLEAN,
           Iterate(r, overdue), lag[r] = 0,
           UNCHANGED <<arrivals, query, isOpen, reported>>
    PROVE  FifoStep
  <1>1. CASE dropped[r] > 0
    <2>1. /\ lag' = [lag EXCEPT ![r] = dropped[r]] /\ dropped' = [dropped EXCEPT ![r] = 0]
          /\ UNCHANGED <<queue, yielded>>
      BY <1>1 DEF Iterate
    <2>2. \A s \in Streams : dropped'[s] + lag'[s] = dropped[s] + lag[s]
      BY <2>1, FifoTypes
    <2>3. owed' = owed
      BY <2>2 DEF owed
    <2> QED BY <2>1, <2>3, Unseen
  <1>2. CASE ~(dropped[r] > 0)
    <2>1. AwaitQueue(r, overdue) /\ UNCHANGED <<dropped, lag>>
      BY <1>2 DEF Iterate
    <2>2. owed' = owed
      BY <2>1, SameOwed
    <2> QED BY <2>1, <2>2, AwaitQueueReceives
  <1> QED BY <1>1, <1>2

LEMMA CloseShuts ==
    ASSUME GatewayInv, NEW r \in Streams, Registered(r), Close(r),
           UNCHANGED <<conn, arrivals, query, queue, yielded, dropped, lag, reported>>
    PROVE  FifoStep
  <1>1. DOMAIN connections' = DOMAIN connections \ {conn[r]}
    BY UnregisterOK DEF Close, GatewayInv, GatewayTypeOK
  <1>2. \A s \in Streams : Registered(s)' <=> Registered(s) /\ s # r
    <2>1. \A s \in Streams : Registered(s) /\ s # r => conn[s] # conn[r]
      BY DEF GatewayInv, Ownership
    <2> QED BY <1>1, <2>1 DEF Registered
  <1>3. isOpen' = isOpen \ {r}
    BY <1>2 DEF isOpen
  <1>4. owed' = owed
    BY SameOwed
  <1>5. r \in isOpen
    BY DEF isOpen
  <1>6. {r} \in SUBSET Streams /\ Fifo!Shut({r})
    BY <1>3, <1>4, <1>5 DEF Fifo!Shut, isOpen, owed
  <1> QED BY <1>6 DEF FifoStep, Fifo!FifoNext

LEMMA AdmitOpens ==
    ASSUME GatewayInv, NEW r \in Streams, pc[r] = "verify", Admit(r),
           UNCHANGED <<arrivals, query, queue, yielded, dropped, lag, reported>>
    PROVE  FifoStep
  <1>1. /\ DOMAIN connections' = DOMAIN connections \cup {next_id}
        /\ conn' = [conn EXCEPT ![r] = next_id]
    BY DEF Admit, Register
  <1>2. conn \in [Streams -> Nat] /\ \A s \in Streams : conn[s] < next_id
    BY DEF GatewayInv, GatewayTypeOK, Ownership
  <1>3. \A s \in Streams : Registered(s)' <=> Registered(s) \/ s = r
    BY <1>1, <1>2 DEF Registered
  <1>4. isOpen' = isOpen \cup {r}
    BY <1>3 DEF isOpen
  <1>5. ~Registered(r) /\ queue[r] = <<>> /\ yielded[r] = <<>> /\ query[r] # None
    BY QueriesAssumption DEF GatewayInv, RegisteredWhileOpen, Admission, Early, Held, AtYield, InTry
  <1>6. owed' = owed
    BY SameOwed
  <1>7. Fifo!Open(r)
    BY <1>4, <1>5, <1>6 DEF Fifo!Open, isOpen, owed
  <1> QED BY <1>7 DEF FifoStep, Fifo!FifoNext

LEMMA RequestAsks ==
    ASSUME GatewayInv, NEW r \in Streams, NEW q \in Queries, Request(r, q)
    PROVE  FifoStep
  <1>1. /\ pc[r] = "idle" /\ query' = [query EXCEPT ![r] = q]
        /\ UNCHANGED <<arrivals, connections, conn, queue, yielded, dropped, lag, reported>>
    BY DEF Request, registryVars, historyVars
  <1>2. ~Registered(r) /\ query[r] = None
    BY <1>1 DEF GatewayInv, RegisteredWhileOpen, Admission, Held, AtYield, InTry
  <1>3. isOpen' = isOpen /\ owed' = owed
    BY <1>1, SameOpen, SameOwed
  <1>4. Fifo!Ask(r, q)
    BY <1>1, <1>2, <1>3 DEF Fifo!Ask, isOpen, owed
  <1> QED BY <1>4 DEF FifoStep, Fifo!FifoNext

LEMMA SendLagTells ==
    ASSUME GatewayInv, NEW r \in Streams, SendLag(r)
    PROVE  FifoStep
  <1>1. /\ reported' = [reported EXCEPT ![r] = @ + lag[r]] /\ lag' = [lag EXCEPT ![r] = 0]
        /\ UNCHANGED <<arrivals, query, connections, conn, queue, yielded, dropped>>
        /\ pc[r] = "lagging"
    BY DEF SendLag, registryVars
  <1>2. isOpen' = isOpen
    BY <1>1, SameOpen
  <1>3. Registered(r)
    BY <1>1 DEF GatewayInv, RegisteredWhileOpen, Held, InTry
  <1>4. owed' = [owed EXCEPT ![r] = @ - lag[r]]
    <2>1. \A s \in Streams : dropped'[s] + lag'[s] =
            IF s = r THEN (dropped[s] + lag[s]) - lag[r] ELSE dropped[s] + lag[s]
      BY <1>1, FifoTypes
    <2> QED BY <2>1 DEF owed
  <1>5. CASE lag[r] = 0
    <2>1. reported' = reported /\ owed' = owed
      BY <1>1, <1>4, <1>5, FifoTypes DEF owed
    <2> QED BY <1>1, <1>2, <2>1, Unseen
  <1>6. CASE lag[r] # 0
    <2>1. lag[r] \in 1..owed[r]
      BY <1>6, FifoTypes DEF owed
    <2>2. Fifo!Tell(r)
      BY <1>1, <1>2, <1>3, <1>4, <2>1 DEF Fifo!Tell, isOpen, owed
    <2> QED BY <2>2 DEF FifoStep, Fifo!FifoNext
  <1> QED BY <1>5, <1>6

\* Every step of the gateway is a step of LossyFifo or is not seen by it.
LEMMA StepRefined == GatewayInv /\ LossInv /\ [Next]_vars => FifoStep
  <1> SUFFICES ASSUME GatewayInv, LossInv, [Next]_vars PROVE FifoStep
    OBVIOUS
  <1> USE DEF historyVars
  <1>1. ASSUME UNCHANGED <<arrivals, query, connections, conn, queue, yielded, dropped, lag, reported>>
        PROVE  FifoStep
    BY <1>1, SameOpen, SameOwed, Unseen
  <1>2. \A r \in Streams : pc[r] \in Held => Registered(r)
    BY DEF GatewayInv, RegisteredWhileOpen
  <1>3. ASSUME NEW d \in Deliveries, Webhook(d) PROVE FifoStep
    <2>1. CASE DeliveryStatus(d) = 202
      BY <1>3, <2>1, AcceptPublishes DEF Webhook
    <2>2. CASE DeliveryStatus(d) # 202
      BY <1>1, <1>3, <2>2 DEF Webhook, vars, streamVars, registryVars
    <2> QED BY <2>1, <2>2
  <1>4. ASSUME NEW r \in Streams, NEW verdict \in Verdicts, Authorized(r, verdict) PROVE FifoStep
    <2>1. CASE Admit(r)
      BY <1>4, <2>1, AdmitOpens DEF Authorized
    <2>2. ASSUME NEW code, Refuse(r, code) PROVE FifoStep
      BY <1>1, <1>4, <2>2 DEF Authorized, Refuse, registryVars
    <2> QED BY <1>4, <2>1, <2>2 DEF Authorized
  <1>5. ASSUME NEW r \in Streams, Resume(r) PROVE FifoStep
    <2>1. /\ Iterate(r, due[r]) /\ due[r] \in BOOLEAN /\ Registered(r) /\ lag[r] = 0
          /\ UNCHANGED <<arrivals, query, connections, conn, reported>>
      BY <1>2, <1>5, FifoTypes DEF Resume, Held, AtYield, LossInv, registryVars
    <2> QED BY <2>1, SameOpen, IterateReceives
  <1>6. ASSUME NEW r \in Streams, AfterLag(r) PROVE FifoStep
    <2>1. /\ AwaitQueue(r, due[r]) /\ due[r] \in BOOLEAN /\ Registered(r)
          /\ UNCHANGED <<arrivals, query, connections, conn, dropped, lag, reported>>
      BY <1>2, <1>6, FifoTypes DEF AfterLag, Held, InTry, registryVars
    <2> QED BY <2>1, SameOpen, SameOwed, AwaitQueueReceives
  <1>7. ASSUME NEW r \in Streams, Wake(r) PROVE FifoStep
    <2>1. /\ AwaitQueue(r, FALSE) /\ Registered(r)
          /\ UNCHANGED <<arrivals, query, connections, conn, dropped, lag, reported>>
      BY <1>2, <1>7 DEF Wake, AwaitQueue, Held, InTry, registryVars
    <2> QED BY <2>1, SameOpen, SameOwed, AwaitQueueReceives
  <1>8. ASSUME NEW r \in Streams, NEW verdict \in Verdicts, Recheck(r, verdict) PROVE FifoStep
    <2>1. Registered(r) /\ lag[r] = 0 /\ UNCHANGED <<arrivals, query, conn, reported>>
      BY <1>2, <1>8 DEF Recheck, Held, InTry, LossInv
    <2>2. CASE Close(r) /\ UNCHANGED <<due, queue, dropped, lag, yielded>>
      BY <2>1, <2>2, CloseShuts
    <2>3. CASE Iterate(r, FALSE) /\ UNCHANGED registryVars
      <3>1. isOpen' = isOpen
        BY <2>1, <2>3, SameOpen DEF registryVars
      <3> QED BY <2>1, <2>3, <3>1, IterateReceives
    <2> QED BY <1>8, <2>2, <2>3 DEF Recheck
  <1>9. ASSUME NEW r \in Streams, Cancel(r) PROVE FifoStep
    <2>1. UNCHANGED <<conn, arrivals, query, queue, yielded, dropped, lag, reported>>
      BY <1>9 DEF Cancel
    <2>2. CASE pc[r] \in InTry /\ Close(r)
      BY <1>2, <2>1, <2>2, CloseShuts DEF Held
    <2>3. CASE UNCHANGED registryVars
      BY <1>1, <2>1, <2>3 DEF registryVars
    <2> QED BY <1>9, <2>2, <2>3 DEF Cancel
  <1>10. ASSUME NEW r \in Streams, Finalize(r) PROVE FifoStep
    BY <1>2, <1>10, CloseShuts DEF Finalize, Held
  <1>11. ASSUME NEW r \in Streams,
                Start(r) \/ LagSent(r) \/ TimeOut(r) \/ DeadlinePasses(r) \/ Stop(r)
         PROVE  FifoStep
    BY <1>1, <1>11 DEF Start, LagSent, TimeOut, DeadlinePasses, Stop, registryVars
  <1>12. CASE UNCHANGED vars
    BY <1>1, <1>12 DEF vars, streamVars, registryVars
  <1> QED
    BY <1>3, <1>4, <1>5, <1>6, <1>7, <1>8, <1>9, <1>10, <1>11, <1>12, RequestAsks, SendLagTells
    DEF Next, Stream

\* The gateway delivers to each of its streams as a lossy FIFO that counts its
\* losses.
THEOREM GatewayImplementsLossyFifo == Spec => ImplementsLossyFifo
  <1>1. GatewayInv /\ LossInv /\ [Next]_vars => [Fifo!FifoNext]_(Fifo!fifoVars)
    BY StepRefined DEF FifoStep
  <1> QED
    BY <1>1, FifoInitRefined, GatewayInit, GatewayStep, LossInit, LossStep, PTL
    DEF Spec, ImplementsLossyFifo, Fifo!FifoSpec

-----------------------------------------------------------------------------
(* What a client gets: the events it asked for, in order, and a count of   *)
(* the ones it lost.  What a step does to one stream is read off the step  *)
(* of LossyFifo that it refines.                                           *)

\* The two properties, of one stream.
InOrder(r) ==
    /\ since[r] <= Len(arrivals)
    /\ \A i \in 1..Len(Kept(r)) :
         /\ Kept(r)[i] \in since[r] + 1 .. Len(arrivals)
         /\ Wants(query[r], arrivals[Kept(r)[i]])
    /\ \A i, j \in 1..Len(Kept(r)) : i < j => Kept(r)[i] < Kept(r)[j]

Counted(r) == Registered(r) => Cardinality(Wanted(r)) = Len(Kept(r)) + Lost(r)

OrderInv == \A r \in Streams : InOrder(r) /\ Counted(r)

LEMMA OrderTypes ==
    ASSUME GatewayInv, NEW r \in Streams
    PROVE  /\ queue[r] \in Seq(Nat) /\ yielded[r] \in Seq(Nat) /\ Kept(r) \in Seq(Nat)
           /\ dropped[r] \in Nat /\ lag[r] \in Nat /\ reported[r] \in Nat /\ since[r] \in Nat
           /\ arrivals \in Seq(Deliveries) /\ Len(arrivals) \in Nat
  BY DEF GatewayInv, GatewayTypeOK, Kept

\* Before it has been admitted nothing was kept for a stream, and nothing lost.
LEMMA NothingEarly ==
    ASSUME GatewayInv, NEW r \in Streams, pc[r] \in Early
    PROVE  Kept(r) = <<>> /\ Lost(r) = 0 /\ ~Registered(r)
  <1>1. /\ queue[r] = <<>> /\ yielded[r] = <<>>
        /\ dropped[r] = 0 /\ lag[r] = 0 /\ reported[r] = 0
    BY DEF GatewayInv, Admission
  <1>2. pc[r] \notin Held
    BY DEF Early, Held, AtYield, InTry
  <1> QED BY <1>1, <1>2 DEF Kept, Lost, GatewayInv, RegisteredWhileOpen

\* A stream registers once, when nothing has been kept for it; since says when.
LEMMA Registering ==
    ASSUME GatewayInv, [Next]_vars, NEW r \in Streams
    PROVE  \/ since'[r] = since[r] /\ (Registered(r)' => Registered(r))
           \/ /\ pc[r] = "verify" /\ since'[r] = Len(arrivals)
              /\ UNCHANGED <<arrivals, query, queue, yielded, dropped, lag, reported>>
  <1> DEFINE Same == since'[r] = since[r] /\ (Registered(r)' => Registered(r))
  <1> USE DEF historyVars
  <1>1. ASSUME UNCHANGED <<since, conn>>, DOMAIN connections' \subseteq DOMAIN connections
        PROVE  Same
    BY <1>1 DEF Registered
  <1>2. ASSUME UNCHANGED <<since, conn, registryVars>> PROVE Same
    BY <1>1, <1>2 DEF registryVars
  <1>3. ASSUME UNCHANGED <<since, conn>>, NEW s \in Streams, Close(s) PROVE Same
    <2>1. DOMAIN connections' \subseteq DOMAIN connections
      <3>1. DOMAIN connections' = DOMAIN connections \ {conn[s]}
        BY <1>3, UnregisterOK DEF Close, GatewayInv, GatewayTypeOK
      <3> QED BY <3>1
    <2> QED BY <1>1, <1>3, <2>1
  <1>4. ASSUME NEW s \in Streams, NEW verdict \in Verdicts, Authorized(s, verdict)
        PROVE  Same \/ /\ pc[r] = "verify" /\ since'[r] = Len(arrivals)
                       /\ UNCHANGED <<arrivals, query, queue, yielded, dropped, lag, reported>>
    <2>1. ASSUME NEW code, Refuse(s, code) PROVE Same
      BY <1>2, <2>1 DEF Refuse
    <2>2. CASE Admit(s)
      <3>1. /\ DOMAIN connections' = DOMAIN connections \cup {next_id}
            /\ conn' = [conn EXCEPT ![s] = next_id]
            /\ since' = [since EXCEPT ![s] = Len(arrivals)]
        BY <2>2 DEF Admit, Register
      <3>2. /\ conn \in [Streams -> Nat] /\ since \in [Streams -> Nat]
            /\ \A q \in Streams : conn[q] < next_id
        BY DEF GatewayInv, GatewayTypeOK, Ownership
      <3>3. CASE s # r
        BY <3>1, <3>2, <3>3 DEF Registered
      <3>4. CASE s = r
        BY <1>4, <3>1, <3>2, <3>4 DEF Authorized
      <3> QED BY <3>3, <3>4
    <2> QED BY <1>4, <2>1, <2>2 DEF Authorized
  <1>5. ASSUME NEW d \in Deliveries, Webhook(d) PROVE Same
    BY <1>2, <1>5 DEF Webhook, Accept, vars, streamVars
  <1>6. ASSUME NEW s \in Streams,
               \/ \E q \in Queries : Request(s, q)
               \/ Start(s) \/ Resume(s) \/ SendLag(s) \/ LagSent(s) \/ AfterLag(s) \/ Wake(s)
               \/ TimeOut(s) \/ DeadlinePasses(s) \/ Stop(s)
        PROVE  Same
    BY <1>2, <1>6 DEF Request, Start, Resume, SendLag, LagSent, AfterLag, Wake, TimeOut,
                      DeadlinePasses, Stop
  <1>7. ASSUME NEW s \in Streams,
               (\E verdict \in Verdicts : Recheck(s, verdict)) \/ Cancel(s) \/ Finalize(s)
        PROVE  Same
    BY <1>2, <1>3, <1>7 DEF Recheck, Cancel, Finalize
  <1>8. CASE UNCHANGED vars
    BY <1>2, <1>8 DEF vars, streamVars
  <1>9. ASSUME NEW s \in Streams, Stream(s)
        PROVE  Same \/ /\ pc[r] = "verify" /\ since'[r] = Len(arrivals)
                       /\ UNCHANGED <<arrivals, query, queue, yielded, dropped, lag, reported>>
    BY <1>4, <1>6, <1>7, <1>9 DEF Stream
  <1> QED BY <1>5, <1>8, <1>9 DEF Next

-----------------------------------------------------------------------------
\* Putting an event into the queue appends it to what is kept;
LEMMA AppendToSecond ==
    ASSUME NEW s \in Seq(Nat), NEW t \in Seq(Nat), NEW n \in Nat
    PROVE  s \o Append(t, n) = Append(s \o t, n)
  <1>1. s \o t \in Seq(Nat) /\ <<n>> \in Seq(Nat)
    BY ConcatProperties
  <1>2. Append(t, n) = t \o <<n>> /\ Append(s \o t, n) = (s \o t) \o <<n>>
    BY <1>1, AppendIsConcat
  <1>3. (s \o t) \o <<n>> = s \o (t \o <<n>>)
    BY <1>1, ConcatAssociative
  <1> QED BY <1>2, <1>3

LEMMA PutIsKept ==
    ASSUME GatewayInv, NEW r \in Streams
    PROVE  yielded[r] \o Append(queue[r], Len(arrivals) + 1) = Append(Kept(r), Len(arrivals) + 1)
  <1>1. queue[r] \in Seq(Nat) /\ yielded[r] \in Seq(Nat)
    BY OrderTypes
  <1>2. Len(arrivals) + 1 \in Nat
    <2>1. Len(arrivals) \in Nat
      BY OrderTypes
    <2> QED BY <2>1
  <1>3. yielded[r] \o Append(queue[r], Len(arrivals) + 1)
          = Append(yielded[r] \o queue[r], Len(arrivals) + 1)
    BY <1>1, <1>2, AppendToSecond
  <1> QED BY <1>3 DEF Kept

\* taking it from the queue leaves what is kept as it is.
LEMMA HeadToFirst ==
    ASSUME NEW s \in Seq(Nat), NEW t \in Seq(Nat), t # <<>>
    PROVE  Append(s, Head(t)) \o Tail(t) = s \o t
  <1>1. Head(t) \in Nat /\ Tail(t) \in Seq(Nat) /\ <<Head(t)>> \in Seq(Nat)
    BY HeadTailProperties
  <1>2. Append(s, Head(t)) = s \o <<Head(t)>>
    BY <1>1, AppendIsConcat
  <1>3. (s \o <<Head(t)>>) \o Tail(t) = s \o (<<Head(t)>> \o Tail(t))
    BY <1>1, ConcatAssociative
  <1>4. <<Head(t)>> \o Tail(t) = t
    <2> DEFINE u == <<Head(t)>> \o Tail(t)
    <2>1. u \in Seq(Nat) /\ Len(u) = Len(t) /\ \A i \in 1..Len(u) : u[i] = t[i]
      BY <1>1
    <2> QED BY <2>1, SeqEqual
  <1> QED BY <1>2, <1>3, <1>4

\* Nothing happens to a stream: at most, an event comes that it does not get.
LEMMA Untouched ==
    ASSUME GatewayInv, GatewayInv', NEW r \in Streams, InOrder(r), Counted(r),
           Kept(r)' = Kept(r), Lost(r)' = Lost(r), query'[r] = query[r], since'[r] = since[r],
           Registered(r)' => Registered(r),
           \/ UNCHANGED arrivals
           \/ \E d \in Deliveries : /\ arrivals' = Append(arrivals, d)
                                    /\ ~(Registered(r) /\ Wants(query[r], d))
    PROVE  InOrder(r)' /\ Counted(r)'
  <1>t. arrivals \in Seq(Deliveries) /\ Len(arrivals) \in Nat /\ since[r] \in Nat
    BY OrderTypes
  <1>1. CASE UNCHANGED arrivals
    <2>1. Wanted(r)' = Wanted(r)
      BY <1>1 DEF Wanted
    <2> QED BY <1>1, <2>1 DEF InOrder, Counted
  <1>2. ASSUME NEW d \in Deliveries, arrivals' = Append(arrivals, d),
               ~(Registered(r) /\ Wants(query[r], d))
        PROVE  InOrder(r)' /\ Counted(r)'
    <2>1. Len(arrivals') = Len(arrivals) + 1 /\ arrivals'[Len(arrivals) + 1] = d
          /\ \A n \in 1..Len(arrivals) : arrivals'[n] = arrivals[n]
      BY <1>t, <1>2
    <2>2. InOrder(r)'
      BY <1>t, <2>1 DEF InOrder
    <2>3. Registered(r) => Wanted(r)' = Wanted(r)
      <3> SUFFICES ASSUME Registered(r) PROVE Wanted(r)' = Wanted(r)
        OBVIOUS
      <3>1. ASSUME NEW n \in since[r] + 1 .. Len(arrivals) + 1
            PROVE  n \in Wanted(r)' <=> n \in Wanted(r)
        <4>1. CASE n = Len(arrivals) + 1
          BY <1>2, <1>t, <2>1, <4>1 DEF Wanted
        <4>2. CASE n # Len(arrivals) + 1
          BY <1>t, <2>1, <4>2 DEF Wanted
        <4> QED BY <4>1, <4>2
      <3>2. /\ Wanted(r)' \subseteq since[r] + 1 .. Len(arrivals) + 1
            /\ Wanted(r) \subseteq since[r] + 1 .. Len(arrivals) + 1
        BY <1>t, <2>1 DEF Wanted
      <3> QED BY <3>1, <3>2
    <2> QED BY <2>2, <2>3 DEF Counted
  <1> QED BY <1>1, <1>2

\* A stream is offered an event it asked for: it keeps the event or counts it.
LEMMA Offered ==
    ASSUME GatewayInv, GatewayInv', NEW r \in Streams, InOrder(r), Counted(r),
           NEW d \in Deliveries, arrivals' = Append(arrivals, d),
           Registered(r), Wants(query[r], d),
           query'[r] = query[r], since'[r] = since[r],
           \/ Kept(r)' = Append(Kept(r), Len(arrivals) + 1) /\ Lost(r)' = Lost(r)
           \/ Kept(r)' = Kept(r) /\ Lost(r)' = Lost(r) + 1
    PROVE  InOrder(r)' /\ Counted(r)'
  <1> DEFINE n == Len(arrivals)
             k == Kept(r)
             w == Wanted(r)
  <1>t. arrivals \in Seq(Deliveries) /\ n \in Nat /\ since[r] \in Nat /\ k \in Seq(Nat)
        /\ Len(k) \in Nat /\ Lost(r) \in Nat
    BY OrderTypes DEF Lost
  <1>s. since[r] <= n
    BY DEF InOrder
  <1>1. Len(arrivals') = n + 1 /\ arrivals'[n + 1] = d
        /\ \A i \in 1..n : arrivals'[i] = arrivals[i]
    BY <1>t
  <1>2. InOrder(r)'
    <2>1. CASE Kept(r)' = k
      BY <1>t, <1>1, <2>1 DEF InOrder
    <2>2. CASE Kept(r)' = Append(k, n + 1)
      <3>1. Len(Kept(r)') = Len(k) + 1 /\ Kept(r)'[Len(k) + 1] = n + 1
            /\ \A i \in 1..Len(k) : Kept(r)'[i] = k[i]
        BY <1>t, <2>2
      <3>2. ASSUME NEW i \in 1..Len(k)
            PROVE  /\ k[i] \in since[r] + 1 .. n + 1 /\ k[i] < n + 1
                   /\ Wants(query[r], arrivals'[k[i]])
        BY <1>t, <1>1 DEF InOrder
      <3>3. ASSUME NEW i \in 1..Len(k) + 1
            PROVE  /\ Kept(r)'[i] \in since'[r] + 1 .. Len(arrivals')
                   /\ Wants(query'[r], arrivals'[Kept(r)'[i]])
        <4>1. CASE i \in 1..Len(k)
          BY <1>1, <3>1, <3>2, <4>1
        <4>2. CASE i = Len(k) + 1
          BY <1>t, <1>s, <1>1, <3>1, <4>2
        <4> QED BY <1>t, <4>1, <4>2
      <3>4. ASSUME NEW i \in 1..Len(k) + 1, NEW j \in 1..Len(k) + 1, i < j
            PROVE  Kept(r)'[i] < Kept(r)'[j]
        <4>1. i \in 1..Len(k)
          BY <1>t, <3>4
        <4>2. CASE j \in 1..Len(k)
          BY <3>1, <3>4, <4>1, <4>2 DEF InOrder
        <4>3. CASE j = Len(k) + 1
          BY <3>1, <3>2, <4>1, <4>3
        <4> QED BY <1>t, <4>2, <4>3
      <3>5. since'[r] <= Len(arrivals')
        BY <1>t, <1>s, <1>1
      <3> QED BY <3>1, <3>3, <3>4, <3>5 DEF InOrder
    <2> QED BY <2>1, <2>2
  <1>3. Wanted(r)' = w \cup {n + 1} /\ n + 1 \notin w
    <2>1. ASSUME NEW i \in since[r] + 1 .. n + 1
          PROVE  i \in Wanted(r)' <=> i \in w \/ i = n + 1
      <3>1. CASE i = n + 1
        BY <1>t, <1>s, <1>1, <3>1 DEF Wanted
      <3>2. CASE i # n + 1
        BY <1>t, <1>1, <3>2 DEF Wanted
      <3> QED BY <3>1, <3>2
    <2>2. Wanted(r)' \subseteq since[r] + 1 .. n + 1 /\ w \subseteq since[r] + 1 .. n
      BY <1>1 DEF Wanted
    <2> QED BY <1>t, <1>s, <2>1, <2>2
  <1>4. IsFiniteSet(w)
    <2>1. IsFiniteSet(since[r] + 1 .. n)
      <3>1. since[r] + 1 \in Int /\ n \in Int
        BY <1>t
      <3> QED BY <3>1, FS_Interval
    <2> QED BY <2>1, FS_Subset DEF Wanted
  <1>5. Cardinality(Wanted(r)') = Cardinality(w) + 1
    BY <1>3, <1>4, FS_AddElement
  <1>6. Len(Kept(r)') + Lost(r)' = Len(k) + Lost(r) + 1
    BY <1>t
  <1> QED BY <1>2, <1>5, <1>6, <1>t DEF Counted

-----------------------------------------------------------------------------
LEMMA OrderInit == Init => OrderInv
  <1> SUFFICES ASSUME Init, NEW r \in Streams PROVE InOrder(r) /\ Counted(r)
    BY DEF OrderInv
  <1>1. GatewayInv /\ pc[r] \in Early
    BY GatewayInit DEF Init, Early
  <1>2. Kept(r) = <<>> /\ ~Registered(r)
    BY <1>1, NothingEarly
  <1>3. since[r] <= Len(arrivals)
    BY DEF Init
  <1> QED BY <1>2, <1>3 DEF InOrder, Counted

\* Without a webhook nothing is kept for a stream and nothing lost: an event taken
\* from the queue is still kept, and a loss that is told is still lost.
LEMMA StillKept ==
    ASSUME GatewayInv, GatewayInv', FifoStep, UNCHANGED arrivals, NEW r \in Streams
    PROVE  Kept(r)' = Kept(r) /\ Lost(r)' = Lost(r)
  <1>u. /\ queue[r] \in Seq(Nat) /\ yielded[r] \in Seq(Nat)
        /\ dropped[r] \in Nat /\ lag[r] \in Nat /\ reported[r] \in Nat
        /\ arrivals \in Seq(Deliveries) /\ Len(arrivals) \in Nat
    BY OrderTypes
  <1>v. /\ queue \in [Streams -> Seq(Nat)] /\ yielded \in [Streams -> Seq(Nat)]
        /\ dropped \in [Streams -> Nat] /\ lag \in [Streams -> Nat]
        /\ reported \in [Streams -> Nat]
    BY DEF GatewayInv, GatewayTypeOK
  <1>w. dropped'[r] \in Nat /\ lag'[r] \in Nat /\ reported'[r] \in Nat
    <2>1. /\ dropped' \in [Streams -> Nat] /\ lag' \in [Streams -> Nat]
          /\ reported' \in [Streams -> Nat]
      BY DEF GatewayInv, GatewayTypeOK
    <2> QED BY <2>1
  <1>t. owed \in [Streams -> Nat] /\ owed'[r] \in Nat
    <2>1. \A s \in Streams : dropped[s] + lag[s] \in Nat
      BY <1>v
    <2> QED BY <1>w, <2>1 DEF owed
  <1>o. /\ \A s \in Streams : owed[s] = dropped[s] + lag[s]
        /\ Lost(r) = owed[r] + reported[r] /\ Lost(r)' = owed'[r] + reported'[r]
    BY DEF owed, Lost
  <1>1. ASSUME UNCHANGED <<queue, yielded, owed, reported>>
        PROVE  Kept(r)' = Kept(r) /\ Lost(r)' = Lost(r)
    BY <1>1, <1>o DEF Kept
  <1>2. ASSUME NEW d \in Deliveries, Fifo!Publish(d) PROVE FALSE
    <2>1. Len(arrivals') = Len(arrivals) + 1
      BY <1>2, <1>u DEF Fifo!Publish
    <2> QED BY <1>u, <2>1
  <1>3. ASSUME NEW s \in Streams, Fifo!Receive(s)
        PROVE  Kept(r)' = Kept(r) /\ Lost(r)' = Lost(r)
    <2>1. /\ queue[s] # <<>> /\ UNCHANGED <<owed, reported>>
          /\ yielded' = [yielded EXCEPT ![s] = Append(@, Head(queue[s]))]
          /\ queue' = [queue EXCEPT ![s] = Tail(@)]
      BY <1>3 DEF Fifo!Receive, owed
    <2>2. Kept(r)' = Kept(r)
      <3>1. CASE s = r
        <4>1. Append(yielded[r], Head(queue[r])) \o Tail(queue[r]) = yielded[r] \o queue[r]
          BY <1>u, <2>1, <3>1, HeadToFirst
        <4> QED BY <1>v, <2>1, <3>1, <4>1 DEF Kept
      <3>2. CASE s # r
        BY <1>v, <2>1, <3>2 DEF Kept
      <3> QED BY <3>1, <3>2
    <2> QED BY <1>o, <2>1, <2>2
  <1>4. ASSUME NEW s \in Streams, Fifo!Tell(s)
        PROVE  Kept(r)' = Kept(r) /\ Lost(r)' = Lost(r)
    <2>1. PICK n \in 1..owed[s] :
            /\ reported' = [reported EXCEPT ![s] = @ + n] /\ owed' = [owed EXCEPT ![s] = @ - n]
      BY <1>4 DEF Fifo!Tell, owed
    <2>2. UNCHANGED <<queue, yielded>>
      BY <1>4 DEF Fifo!Tell
    <2>3. n \in Int /\ owed[s] \in Nat
      BY <1>t
    <2>4. /\ reported'[r] = IF s = r THEN reported[r] + n ELSE reported[r]
          /\ owed'[r] = IF s = r THEN owed[r] - n ELSE owed[r]
      BY <1>t, <1>v, <2>1
    <2>5. Lost(r)' = Lost(r)
      BY <1>t, <1>u, <1>o, <2>3, <2>4
    <2> QED BY <2>2, <2>5 DEF Kept
  <1>5. ASSUME NEW s \in Streams, (\E q \in Queries : Fifo!Ask(s, q)) \/ Fifo!Open(s)
        PROVE  Kept(r)' = Kept(r) /\ Lost(r)' = Lost(r)
    BY <1>1, <1>5 DEF Fifo!Ask, Fifo!Open, owed
  <1>6. ASSUME NEW ended, Fifo!Shut(ended)
        PROVE  Kept(r)' = Kept(r) /\ Lost(r)' = Lost(r)
    BY <1>1, <1>6 DEF Fifo!Shut, owed
  <1>7. CASE UNCHANGED Fifo!fifoVars
    BY <1>1, <1>7 DEF Fifo!fifoVars, owed
  <1> QED BY <1>2, <1>3, <1>4, <1>5, <1>6, <1>7 DEF FifoStep, Fifo!FifoNext

LEMMA OrderStep ==
    GatewayInv /\ GatewayInv' /\ LossInv /\ OrderInv /\ [Next]_vars => OrderInv'
  <1> SUFFICES ASSUME GatewayInv, GatewayInv', LossInv, OrderInv, [Next]_vars, NEW r \in Streams
               PROVE  InOrder(r)' /\ Counted(r)'
    BY DEF OrderInv
  <1>i. InOrder(r) /\ Counted(r)
    BY DEF OrderInv
  <1>u. /\ queue[r] \in Seq(Nat) /\ yielded[r] \in Seq(Nat) /\ Kept(r) \in Seq(Nat)
        /\ dropped[r] \in Nat /\ lag[r] \in Nat /\ reported[r] \in Nat
        /\ since[r] \in Nat /\ arrivals \in Seq(Deliveries) /\ Len(arrivals) \in Nat
    BY OrderTypes
  <1>v. /\ queue \in [Streams -> Seq(Nat)] /\ yielded \in [Streams -> Seq(Nat)]
        /\ dropped \in [Streams -> Nat] /\ lag \in [Streams -> Nat]
        /\ reported \in [Streams -> Nat]
    BY DEF GatewayInv, GatewayTypeOK
  <1>w. dropped'[r] \in Nat /\ lag'[r] \in Nat /\ reported'[r] \in Nat
    <2>1. /\ dropped' \in [Streams -> Nat] /\ lag' \in [Streams -> Nat]
          /\ reported' \in [Streams -> Nat]
      BY DEF GatewayInv, GatewayTypeOK
    <2> QED BY <2>1
  <1>t. owed \in [Streams -> Nat] /\ owed'[r] \in Nat
    <2>1. \A s \in Streams : dropped[s] + lag[s] \in Nat
      BY <1>v
    <2> QED BY <1>w, <2>1 DEF owed
  <1>1. CASE /\ pc[r] = "verify" /\ since'[r] = Len(arrivals)
             /\ UNCHANGED <<arrivals, query, queue, yielded, dropped, lag, reported>>
    <2>1. Kept(r) = <<>> /\ Lost(r) = 0
      BY <1>1, NothingEarly DEF Early
    <2>2. Kept(r)' = <<>> /\ Lost(r)' = 0
      BY <1>1, <2>1 DEF Kept, Lost
    <2>3. InOrder(r)'
      BY <1>1, <1>u, <2>2 DEF InOrder
    <2>4. Wanted(r)' = {}
      BY <1>1, <1>u DEF Wanted
    <2> QED BY <2>2, <2>3, <2>4, FS_EmptySet DEF Counted
  <1>2. CASE since'[r] = since[r] /\ (Registered(r)' => Registered(r))
    <2> DEFINE Still == Kept(r)' = Kept(r) /\ Lost(r)' = Lost(r)
    <2>1. FifoStep
      BY StepRefined
    <2>o. /\ isOpen = {s \in Streams : Registered(s)}
          /\ \A s \in Streams : owed[s] = dropped[s] + lag[s]
          /\ Lost(r) = owed[r] + reported[r] /\ Lost(r)' = owed'[r] + reported'[r]
      BY DEF isOpen, owed, Lost
    <2>3. ASSUME NEW d \in Deliveries, Fifo!Publish(d) PROVE InOrder(r)' /\ Counted(r)'
      <3>1. /\ arrivals' = Append(arrivals, d) /\ UNCHANGED <<query, yielded, reported>>
            /\ queue'[r] = IF Fifo!Concerned(r, d) /\ ~Fifo!AtCapacity(queue[r])
                           THEN Append(queue[r], Len(arrivals) + 1) ELSE queue[r]
            /\ owed'[r] = IF Fifo!Concerned(r, d) /\ Fifo!AtCapacity(queue[r])
                          THEN owed[r] + 1 ELSE owed[r]
        BY <2>3 DEF Fifo!Publish, owed
      <3>2. Fifo!Concerned(r, d) <=> Registered(r) /\ Wants(query[r], d)
        BY DEF Fifo!Concerned
      <3>3. CASE ~(Registered(r) /\ Wants(query[r], d))
        <4>1. Still
          BY <2>o, <3>1, <3>2, <3>3 DEF Kept
        <4> QED BY <1>i, <1>2, <3>1, <3>3, <4>1, Untouched
      <3>4. CASE Registered(r) /\ Wants(query[r], d)
        <4>1. CASE ~Fifo!AtCapacity(queue[r])
          <5>1. queue'[r] = Append(queue[r], Len(arrivals) + 1) /\ owed'[r] = owed[r]
            BY <3>1, <3>2, <3>4, <4>1
          <5>2. Kept(r)' = Append(Kept(r), Len(arrivals) + 1)
            BY <3>1, <5>1, PutIsKept DEF Kept
          <5>3. Lost(r)' = Lost(r)
            BY <2>o, <3>1, <5>1
          <5> QED BY <1>i, <1>2, <3>1, <3>4, <5>2, <5>3, Offered
        <4>2. CASE Fifo!AtCapacity(queue[r])
          <5>1. queue'[r] = queue[r] /\ owed'[r] = owed[r] + 1
            BY <3>1, <3>2, <3>4, <4>2
          <5>2. Kept(r)' = Kept(r)
            BY <3>1, <5>1 DEF Kept
          <5>3. Lost(r)' = Lost(r) + 1
            BY <1>u, <1>t, <2>o, <3>1, <5>1
          <5> QED BY <1>i, <1>2, <3>1, <3>4, <5>2, <5>3, Offered
        <4> QED BY <4>1, <4>2
      <3> QED BY <3>3, <3>4
    <2>4. ASSUME UNCHANGED <<arrivals, query>> PROVE InOrder(r)' /\ Counted(r)'
      BY <1>i, <1>2, <2>1, <2>4, StillKept, Untouched
    <2>5. ASSUME NEW s \in Streams, Fifo!Receive(s) \/ Fifo!Tell(s) \/ Fifo!Open(s)
          PROVE  InOrder(r)' /\ Counted(r)'
      BY <2>4, <2>5 DEF Fifo!Receive, Fifo!Tell, Fifo!Open
    <2>6. ASSUME NEW ended, Fifo!Shut(ended)
          PROVE  InOrder(r)' /\ Counted(r)'
      BY <2>4, <2>6 DEF Fifo!Shut
    <2>7. ASSUME NEW s \in Streams, NEW q \in Queries, Fifo!Ask(s, q)
          PROVE  InOrder(r)' /\ Counted(r)'
      <3>1. /\ query[s] = None /\ query' = [query EXCEPT ![s] = q]
            /\ UNCHANGED <<arrivals, queue, yielded, owed, reported>>
        BY <2>7 DEF Fifo!Ask, owed
      <3>2. CASE s # r
        <4>1. query'[r] = query[r]
          BY <3>1, <3>2 DEF GatewayInv, GatewayTypeOK
        <4> QED BY <1>i, <1>2, <2>1, <3>1, <4>1, StillKept, Untouched
      <3>3. CASE s = r
        <4>1. pc[r] \in Early
          BY <3>1, <3>3, QueriesAssumption DEF GatewayInv, Admission, Early
        <4>2. Kept(r) = <<>> /\ ~Registered(r)
          BY <4>1, NothingEarly
        <4>3. Kept(r)' = <<>> /\ ~Registered(r)'
          BY <1>2, <3>1, <4>2 DEF Kept
        <4> QED BY <1>i, <1>2, <3>1, <4>3 DEF InOrder, Counted
      <3> QED BY <3>2, <3>3
    <2>8. CASE UNCHANGED Fifo!fifoVars
      BY <2>4, <2>8 DEF Fifo!fifoVars
    <2> QED BY <2>1, <2>3, <2>5, <2>6, <2>7, <2>8 DEF FifoStep, Fifo!FifoNext
  <1> QED BY <1>1, <1>2, Registering

-----------------------------------------------------------------------------
LEMMA OrderInvariant == Spec => []OrderInv
  BY GatewayInit, GatewayStep, LossInit, LossStep, OrderInit, OrderStep, PTL DEF Spec

\* Clients see the events they asked for, in order, none twice and none from before
\* they were registered.
THEOREM WantedInOrderHolds == Spec => []WantedInOrder
  <1>1. OrderInv => WantedInOrder
    BY DEF OrderInv, InOrder, WantedInOrder
  <1> QED BY <1>1, OrderInvariant, PTL

\* No loss is silent, whatever the size of the queues and however the deliveries,
\* the frames and the rechecks interleave.
THEOREM ExactAccountingHolds == Spec => []ExactAccounting
  <1>1. OrderInv => ExactAccounting
    BY DEF OrderInv, Counted, ExactAccounting
  <1> QED BY <1>1, OrderInvariant, PTL

-----------------------------------------------------------------------------
(* The totals that the sender of the webhooks is told.                     *)
KeptBy == [r \in Streams |-> Len(Kept(r))]
LostBy == [r \in Streams |-> Lost(r)]

LEMMA TotalIsSum == \A f : TotalOf(f) = Sum(f, DOMAIN f)
  BY DEF TotalOf, FoldFunction, Sum

\* The property speaks of these two sums.
LEMMA AgreesOnSums ==
    SenderAgrees <=> acked.delivered = Sum(KeptBy, Streams) /\ acked.dropped = Sum(LostBy, Streams)
  <1>1. DOMAIN KeptBy = Streams /\ DOMAIN LostBy = Streams
    BY DEF KeptBy, LostBy
  <1> QED BY <1>1, TotalIsSum DEF SenderAgrees, KeptBy, LostBy

LEMMA AgreesOnSumsNext ==
    SenderAgrees' <=> acked'.delivered = Sum(KeptBy', Streams) /\ acked'.dropped = Sum(LostBy', Streams)
  <1>1. DOMAIN KeptBy' = Streams /\ DOMAIN LostBy' = Streams
    BY DEF KeptBy, LostBy
  <1> QED BY <1>1, TotalIsSum DEF SenderAgrees, KeptBy, LostBy

LEMMA KeptAndLost ==
    ASSUME GatewayInv, NEW r \in Streams
    PROVE  KeptBy[r] \in Nat /\ LostBy[r] \in Nat
  <1>1. Len(Kept(r)) \in Nat /\ Lost(r) \in Nat
    <2>1. /\ Kept(r) \in Seq(Nat)
          /\ dropped[r] \in Nat /\ lag[r] \in Nat /\ reported[r] \in Nat
      BY OrderTypes
    <2> QED BY <2>1 DEF Lost
  <1> QED BY <1>1 DEF KeptBy, LostBy

\* A webhook adds to the totals what it adds to the streams.
LEMMA AcceptTotals ==
    ASSUME IsFiniteSet(Streams), GatewayInv, SenderAgrees,
           NEW d \in Deliveries, DeliveryStatus(d) = 202, Accept(d)
    PROVE  SenderAgrees'
  <1> DEFINE to == matched(normalize(d.event, d.payload))
             lost == {r \in to : Full(queue[r])}
  <1>1. /\ queue' = [r \in Streams |->
                       IF r \in to \ lost THEN Append(queue[r], Len(arrivals) + 1) ELSE queue[r]]
        /\ dropped' = [r \in Streams |-> IF r \in lost THEN dropped[r] + 1 ELSE dropped[r]]
        /\ acked' = [delivered |-> acked.delivered + Cardinality(to \ lost),
                     dropped |-> acked.dropped + Cardinality(lost)]
        /\ UNCHANGED <<yielded, lag, reported>>
    BY DEF Accept
  <1>2. to \subseteq Streams
    BY MatchedAreWanting
  <1> HIDE DEF to, lost
  <1>3. \A r \in Streams : KeptBy'[r] = IF r \in to \ lost THEN KeptBy[r] + 1 ELSE KeptBy[r]
    <2> TAKE r \in Streams
    <2>1. /\ queue[r] \in Seq(Nat) /\ yielded[r] \in Seq(Nat) /\ Kept(r) \in Seq(Nat)
          /\ Len(arrivals) + 1 \in Nat
      BY OrderTypes
    <2>2. CASE r \in to \ lost
      <3>1. Kept(r)' = Append(Kept(r), Len(arrivals) + 1)
        <4>1. queue'[r] = Append(queue[r], Len(arrivals) + 1) /\ yielded'[r] = yielded[r]
          BY <1>1, <2>2
        <4>2. Kept(r)' = yielded'[r] \o queue'[r]
          BY DEF Kept
        <4>3. Kept(r)' = yielded[r] \o Append(queue[r], Len(arrivals) + 1)
          BY <4>1, <4>2
        <4> QED BY <4>3, PutIsKept
      <3>2. Len(Append(Kept(r), Len(arrivals) + 1)) = Len(Kept(r)) + 1
        BY <2>1, AppendProperties
      <3> QED BY <2>2, <3>1, <3>2 DEF KeptBy
    <2>3. CASE r \notin to \ lost
      <3>1. Kept(r)' = Kept(r)
        BY <1>1, <2>3 DEF Kept
      <3> QED BY <2>3, <3>1 DEF KeptBy
    <2> QED BY <2>2, <2>3
  <1>4. \A r \in Streams : LostBy'[r] = IF r \in lost THEN LostBy[r] + 1 ELSE LostBy[r]
    BY <1>1, OrderTypes DEF LostBy, Lost
  <1>5. Streams \cap (to \ lost) = to \ lost /\ Streams \cap lost = lost
    BY <1>2 DEF lost
  <1>6. Sum(KeptBy', Streams) = Sum(KeptBy, Streams) + Cardinality(to \ lost)
    BY <1>3, <1>5, KeptAndLost, SumAddOne
  <1>7. Sum(LostBy', Streams) = Sum(LostBy, Streams) + Cardinality(lost)
    BY <1>4, <1>5, KeptAndLost, SumAddOne
  <1>8. acked'.delivered = acked.delivered + Cardinality(to \ lost)
        /\ acked'.dropped = acked.dropped + Cardinality(lost)
    BY <1>1
  <1> QED BY <1>6, <1>7, <1>8, AgreesOnSums, AgreesOnSumsNext

\* No other step changes how many events a stream has kept or lost.
LEMMA AckedStep ==
    ASSUME IsFiniteSet(Streams), GatewayInv, GatewayInv', LossInv, SenderAgrees, [Next]_vars
    PROVE  SenderAgrees'
  <1>1. ASSUME UNCHANGED <<arrivals, acked>> PROVE SenderAgrees'
    <2>1. FifoStep
      BY StepRefined
    <2>2. \A r \in Streams : Kept(r)' = Kept(r) /\ Lost(r)' = Lost(r)
      BY <1>1, <2>1, StillKept
    <2>3. KeptBy' = KeptBy /\ LostBy' = LostBy
      BY <2>2 DEF KeptBy, LostBy
    <2> QED BY <1>1, <2>3, AgreesOnSums, AgreesOnSumsNext
  <1>2. ASSUME NEW d \in Deliveries, Webhook(d) PROVE SenderAgrees'
    <2>1. CASE DeliveryStatus(d) = 202
      BY <1>2, <2>1, AcceptTotals DEF Webhook
    <2>2. CASE DeliveryStatus(d) # 202
      BY <1>1, <1>2, <2>2 DEF Webhook, vars, historyVars
    <2> QED BY <2>1, <2>2
  <1>3. ASSUME NEW r \in Streams, Stream(r) PROVE SenderAgrees'
    <2>1. UNCHANGED <<arrivals, acked>>
      BY <1>3 DEF Stream, Request, Authorized, Start, Resume, SendLag, LagSent, AfterLag, Wake, TimeOut,
                  DeadlinePasses, Recheck, Stop, Cancel, Finalize, historyVars
    <2> QED BY <1>1, <2>1
  <1>4. CASE UNCHANGED vars
    BY <1>1, <1>4 DEF vars, historyVars
  <1> QED BY <1>2, <1>3, <1>4 DEF Next

LEMMA AckedInit == ASSUME IsFiniteSet(Streams), Init PROVE SenderAgrees
  <1>1. \A r \in Streams : KeptBy[r] = 0 /\ LostBy[r] = 0
    BY DEF Init, KeptBy, LostBy, Kept, Lost
  <1>2. Sum(KeptBy, Streams) = 0 /\ Sum(LostBy, Streams) = 0
    BY <1>1, SumZero
  <1> QED BY <1>2, AgreesOnSums DEF Init

\* The totals answered to the webhooks' sender are those of all the streams, the
\* ended ones included, for any finite number of streams.
THEOREM SenderAgreesHolds == IsFiniteSet(Streams) /\ Spec => []SenderAgrees
  <1> SUFFICES ASSUME IsFiniteSet(Streams) PROVE Spec => []SenderAgrees
    OBVIOUS
  <1>1. Init => SenderAgrees
    BY AckedInit
  <1>2. GatewayInv /\ GatewayInv' /\ LossInv /\ SenderAgrees /\ [Next]_vars => SenderAgrees'
    BY AckedStep
  <1> QED BY <1>1, <1>2, GatewayInit, GatewayStep, LossInit, LossStep, PTL DEF Spec
=============================================================================
