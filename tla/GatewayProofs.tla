--------------------------- MODULE GatewayProofs ----------------------------
(***************************************************************************)
(* Proofs about the gateway for every set of streams, queries, deliveries  *)
(* and every queue size.                                                   *)
(***************************************************************************)
EXTENDS Gateway, RegistryProofs, FiniteSetTheorems

Early == {"idle", "verify", "refused"}

\* What the admission of a stream establishes, in the order of its awaits.
Admission ==
    \A r \in Streams :
        /\ pc[r] = "idle" => query[r] = None
        /\ pc[r] # "idle" => query[r] \in Queries
        /\ pc[r] \notin {"idle", "refused"} => QueryStatus(query[r]) = 200
        /\ pc[r] \in Early => /\ conn[r] = 0
                              /\ queue[r] = <<>> /\ yielded[r] = <<>>
                              /\ dropped[r] = 0 /\ lag[r] = 0 /\ reported[r] = 0

\* A connection id belongs to one stream, and the next one is fresh.
Ownership ==
    \A r \in Streams :
        /\ conn[r] < next_id
        /\ Registered(r) => connections[conn[r]].subscriber = r

GatewayInv ==
    GatewayTypeOK /\ IndexExact /\ Admission /\ Ownership /\ RegisteredWhileOpen

-----------------------------------------------------------------------------
LEMMA GatewayInit == Init => GatewayInv
  <1> SUFFICES ASSUME Init PROVE GatewayInv
    OBVIOUS
  <1>1. RegistryTypeOK /\ IndexExact
    BY RegistryInitOK DEF Init
  <1>2. DOMAIN connections = {} /\ next_id = 1
    BY DEF Init, RegistryInit
  <1>3. GatewayTypeOK
    BY <1>1 DEF GatewayTypeOK, Init
  <1>4. Admission /\ Ownership /\ RegisteredWhileOpen
    BY <1>2 DEF Init, Admission, Ownership, RegisteredWhileOpen, Registered, Held, AtYield, InTry
  <1> QED BY <1>1, <1>3, <1>4 DEF GatewayInv

\* A step of one stream that leaves the registry alone and does not cross the
\* boundary between registered and not.
LEMMA QuietMove ==
    ASSUME GatewayInv, NEW r \in Streams, NEW label \in Held, pc[r] \in Held,
           pc' = [pc EXCEPT ![r] = label], UNCHANGED <<registryVars, query, status, conn>>
    PROVE  /\ RegistryTypeOK' /\ IndexExact' /\ Ownership' /\ RegisteredWhileOpen'
           /\ \A s \in Streams : pc'[s] \in Early => pc'[s] = pc[s] /\ s # r
           /\ \A s \in Streams : pc'[s] = pc[s] \/ (pc[s] \in Held /\ pc'[s] \in Held)
           /\ pc' \in [Streams -> {"idle", "verify", "refused", "closed"} \cup Held]
  <1>1. UNCHANGED <<connections, index, next_id, conn, status, query>>
    BY DEF registryVars
  <1>2. RegistryTypeOK' /\ IndexExact'
    BY RegistryStutter DEF GatewayInv, GatewayTypeOK
  <1>3. \A s \in Streams : pc'[s] = IF s = r THEN label ELSE pc[s]
    BY DEF GatewayInv, GatewayTypeOK
  <1>4. Ownership' /\ RegisteredWhileOpen'
    BY <1>1, <1>3 DEF GatewayInv, Ownership, RegisteredWhileOpen, Registered
  <1>5. Held \cap Early = {}
    BY DEF Held, Early, AtYield, InTry
  <1> QED BY <1>2, <1>3, <1>4, <1>5 DEF GatewayInv, GatewayTypeOK

\* Whatever is in the registry belongs to a stream that is being served.
LEMMA SubscriberHeld ==
    ASSUME GatewayInv, NEW i \in DOMAIN connections
    PROVE  /\ connections[i].subscriber \in Streams
           /\ conn[connections[i].subscriber] = i
           /\ Registered(connections[i].subscriber)
           /\ pc[connections[i].subscriber] \in Held
  <1>1. connections[i].subscriber \in Streams
    BY DEF GatewayInv, GatewayTypeOK, RegistryTypeOK, Connection
  <1>2. conn[connections[i].subscriber] = i
    BY DEF GatewayInv, RegisteredWhileOpen
  <1> QED BY <1>1, <1>2 DEF GatewayInv, RegisteredWhileOpen, Registered

\* Webhooks reach registered streams only.
LEMMA MatchedRegistered ==
    ASSUME GatewayInv, NEW norm
    PROVE  \A r \in matched(norm) : r \in Streams /\ Registered(r) /\ pc[r] \in Held
  <1> SUFFICES ASSUME NEW r \in matched(norm)
               PROVE  r \in Streams /\ Registered(r) /\ pc[r] \in Held
    OBVIOUS
  <1>1. PICK id \in match(norm) : r = connections[id].subscriber
    BY DEF matched
  <1>2. id \in DOMAIN connections
    BY <1>1, MatchThroughIndex DEF GatewayInv
  <1> QED BY <1>1, <1>2, SubscriberHeld

\* Finitely many of them, whatever the set of streams is.
LEMMA MatchedFinite ==
    ASSUME GatewayInv, NEW norm
    PROVE  IsFiniteSet(matched(norm))
  <1> DEFINE subscriberOf == [id \in match(norm) |-> connections[id].subscriber]
  <1>1. match(norm) \subseteq 1..(next_id - 1)
    <2>1. match(norm) \subseteq DOMAIN connections
      BY MatchThroughIndex DEF GatewayInv
    <2> QED BY <2>1 DEF GatewayInv, GatewayTypeOK, RegistryTypeOK
  <1>2. IsFiniteSet(match(norm))
    <2>1. next_id - 1 \in Int
      BY DEF GatewayInv, GatewayTypeOK, RegistryTypeOK
    <2>2. IsFiniteSet(1..(next_id - 1))
      BY <2>1, FS_Interval
    <2> QED BY <1>1, <2>2, FS_Subset
  <1>3. subscriberOf \in Surjection(match(norm), matched(norm))
    BY DEF Surjection, matched
  <1> QED BY <1>2, <1>3, FS_Surjection

LEMMA AcceptInv ==
    ASSUME GatewayInv, NEW d \in Deliveries, Accept(d)
    PROVE  GatewayInv'
  <1> DEFINE to == matched(normalize(d.event, d.payload))
             lost == {r \in to : Full(queue[r])}
             n == Len(arrivals) + 1
  <1>1. \A r \in to : r \in Streams /\ pc[r] \in Held
    BY MatchedRegistered
  <1>2. UNCHANGED <<connections, index, next_id, pc, query, status, conn, lag, due, gone,
                    since, yielded, reported>>
    BY DEF Accept, registryVars
  <1>3. n \in Nat /\ arrivals' = Append(arrivals, d)
    BY DEF Accept, GatewayInv, GatewayTypeOK
  <1>4. /\ queue' = [r \in Streams |-> IF r \in to \ lost THEN Append(queue[r], n) ELSE queue[r]]
        /\ dropped' = [r \in Streams |-> IF r \in lost THEN dropped[r] + 1 ELSE dropped[r]]
    BY DEF Accept
  <1>5. acked' \in [delivered : Nat, dropped : Nat]
    <2>1. IsFiniteSet(to)
      BY MatchedFinite
    <2>2. IsFiniteSet(lost) /\ IsFiniteSet(to \ lost)
      BY <2>1, FS_Subset
    <2>3. Cardinality(lost) \in Nat /\ Cardinality(to \ lost) \in Nat
      BY <2>2, FS_CardinalityType
    <2> QED BY <2>3 DEF Accept, GatewayInv, GatewayTypeOK
  <1>6. RegistryTypeOK' /\ IndexExact'
    BY <1>2, RegistryStutter DEF registryVars, GatewayInv, GatewayTypeOK
  <1>7. GatewayTypeOK'
    <2>1. queue' \in [Streams -> Seq(Nat)] /\ dropped' \in [Streams -> Nat]
      BY <1>3, <1>4 DEF GatewayInv, GatewayTypeOK
    <2>2. arrivals' \in Seq(Deliveries)
      BY <1>3 DEF GatewayInv, GatewayTypeOK
    <2> QED BY <1>2, <1>5, <1>6, <2>1, <2>2 DEF GatewayInv, GatewayTypeOK
  <1>8. Ownership' /\ RegisteredWhileOpen'
    BY <1>2 DEF GatewayInv, Ownership, RegisteredWhileOpen, Registered
  <1>9. Admission'
    BY <1>1, <1>2, <1>4 DEF GatewayInv, Admission, Early, Held, AtYield, InTry
  <1> QED BY <1>6, <1>7, <1>8, <1>9 DEF GatewayInv

-----------------------------------------------------------------------------
\* The generator's moves: what they may touch, and that they preserve GatewayInv.
LEMMA AwaitQueueEffect ==
    ASSUME GatewayInv, NEW r \in Streams, NEW overdue \in BOOLEAN, AwaitQueue(r, overdue)
    PROVE  /\ \E label \in {"data", "recheck", "waiting"} : pc' = [pc EXCEPT ![r] = label]
           /\ queue' \in [Streams -> Seq(Nat)] /\ yielded' \in [Streams -> Seq(Nat)]
           /\ \A s \in Streams \ {r} : queue'[s] = queue[s] /\ yielded'[s] = yielded[s]
  <1>1. queue \in [Streams -> Seq(Nat)] /\ yielded \in [Streams -> Seq(Nat)]
    BY DEF GatewayInv, GatewayTypeOK
  <1>2. CASE Take(r) /\ queue[r] # <<>>
    <2>1. Head(queue[r]) \in Nat /\ Tail(queue[r]) \in Seq(Nat)
      BY <1>1, <1>2
    <2>2. Append(yielded[r], Head(queue[r])) \in Seq(Nat)
      BY <1>1, <2>1
    <2> QED BY <1>1, <1>2, <2>1, <2>2 DEF Take, Goto
  <1>3. CASE /\ Goto(r, IF overdue THEN "recheck" ELSE "waiting")
             /\ UNCHANGED <<queue, yielded>>
    BY <1>1, <1>3 DEF Goto
  <1> QED BY <1>2, <1>3 DEF AwaitQueue

LEMMA IterateEffect ==
    ASSUME GatewayInv, NEW r \in Streams, NEW overdue \in BOOLEAN, Iterate(r, overdue)
    PROVE  /\ \E label \in {"data", "recheck", "waiting", "lagging"} :
                pc' = [pc EXCEPT ![r] = label]
           /\ queue' \in [Streams -> Seq(Nat)] /\ yielded' \in [Streams -> Seq(Nat)]
           /\ dropped' \in [Streams -> Nat] /\ lag' \in [Streams -> Nat]
           /\ \A s \in Streams \ {r} : /\ queue'[s] = queue[s] /\ yielded'[s] = yielded[s]
                                       /\ dropped'[s] = dropped[s] /\ lag'[s] = lag[s]
  <1>1. /\ queue \in [Streams -> Seq(Nat)] /\ yielded \in [Streams -> Seq(Nat)]
        /\ dropped \in [Streams -> Nat] /\ lag \in [Streams -> Nat]
    BY DEF GatewayInv, GatewayTypeOK
  <1>2. CASE dropped[r] > 0
    <2>1. /\ lag' = [lag EXCEPT ![r] = dropped[r]] /\ dropped' = [dropped EXCEPT ![r] = 0]
          /\ pc' = [pc EXCEPT ![r] = "lagging"] /\ UNCHANGED <<queue, yielded>>
      BY <1>2 DEF Iterate, Goto
    <2>2. \E label \in {"data", "recheck", "waiting", "lagging"} : pc' = [pc EXCEPT ![r] = label]
      BY <2>1
    <2> QED BY <1>1, <2>1, <2>2
  <1>3. CASE ~(dropped[r] > 0)
    <2>1. AwaitQueue(r, overdue) /\ UNCHANGED <<dropped, lag>>
      BY <1>3 DEF Iterate
    <2> QED BY <1>1, <2>1, AwaitQueueEffect
  <1> QED BY <1>2, <1>3

LEMMA QuietInv ==
    ASSUME GatewayInv, NEW r \in Streams, NEW label \in Held, pc[r] \in Held,
           pc' = [pc EXCEPT ![r] = label], UNCHANGED <<registryVars, query, status, conn>>,
           queue' \in [Streams -> Seq(Nat)], yielded' \in [Streams -> Seq(Nat)],
           dropped' \in [Streams -> Nat], lag' \in [Streams -> Nat],
           reported' \in [Streams -> Nat],
           due' \in [Streams -> BOOLEAN], gone' \in [Streams -> BOOLEAN],
           UNCHANGED <<arrivals, since, acked>>,
           \A s \in Streams \ {r} : /\ queue'[s] = queue[s] /\ yielded'[s] = yielded[s]
                                    /\ dropped'[s] = dropped[s] /\ lag'[s] = lag[s]
                                    /\ reported'[s] = reported[s]
    PROVE  GatewayInv'
  <1>1. /\ RegistryTypeOK' /\ IndexExact' /\ Ownership' /\ RegisteredWhileOpen'
        /\ \A s \in Streams : pc'[s] \in Early => pc'[s] = pc[s] /\ s # r
        /\ \A s \in Streams : pc'[s] = pc[s] \/ (pc[s] \in Held /\ pc'[s] \in Held)
        /\ pc' \in [Streams -> {"idle", "verify", "refused", "closed"} \cup Held]
    BY QuietMove
  <1>2. GatewayTypeOK'
    BY <1>1 DEF GatewayInv, GatewayTypeOK
  <1>3. Admission'
    <2> SUFFICES ASSUME NEW s \in Streams
                 PROVE  /\ pc'[s] = "idle" => query'[s] = None
                        /\ pc'[s] # "idle" => query'[s] \in Queries
                        /\ pc'[s] \notin {"idle", "refused"} => QueryStatus(query'[s]) = 200
                        /\ pc'[s] \in Early =>
                             /\ conn'[s] = 0 /\ queue'[s] = <<>> /\ yielded'[s] = <<>>
                             /\ dropped'[s] = 0 /\ lag'[s] = 0 /\ reported'[s] = 0
      BY DEF Admission
    <2>1. CASE pc'[s] \in Early
      <3>1. pc'[s] = pc[s] /\ pc[s] \in Early /\ s \in Streams \ {r}
        BY <1>1, <2>1
      <3>2. /\ query'[s] = query[s] /\ conn'[s] = conn[s] /\ queue'[s] = queue[s]
            /\ yielded'[s] = yielded[s] /\ dropped'[s] = dropped[s]
            /\ lag'[s] = lag[s] /\ reported'[s] = reported[s]
        BY <3>1
      <3> QED BY <3>1, <3>2 DEF GatewayInv, Admission
    <2>2. CASE pc'[s] \notin Early
      <3>1. pc[s] \notin {"idle", "refused"}
        BY <1>1, <2>2 DEF Early, Held, AtYield, InTry
      <3> QED BY <2>2, <3>1 DEF GatewayInv, Admission, Early
    <2> QED BY <2>1, <2>2
  <1> QED BY <1>1, <1>2, <1>3 DEF GatewayInv

\* Close removes the stream's own registration and nobody else's.
LEMMA CloseInv ==
    ASSUME GatewayInv, NEW r \in Streams, pc[r] \in Held, Close(r),
           UNCHANGED <<query, status, conn, queue, dropped, lag, gone, due,
                       arrivals, since, yielded, reported, acked>>
    PROVE  GatewayInv'
  <1>1. /\ RegistryTypeOK' /\ IndexExact'
        /\ DOMAIN connections' = DOMAIN connections \ {conn[r]}
        /\ \A i \in DOMAIN connections' : connections'[i] = connections[i]
    BY UnregisterOK DEF Close, GatewayInv, GatewayTypeOK
  <1>2. pc' = [pc EXCEPT ![r] = "closed"] /\ next_id' = next_id
    BY DEF Close, Goto, Unregister, registryVars
  <1>3. pc' \in [Streams -> {"idle", "verify", "refused", "closed"} \cup Held]
    BY <1>2 DEF GatewayInv, GatewayTypeOK
  <1>4. \A s \in Streams : pc'[s] = IF s = r THEN "closed" ELSE pc[s]
    BY <1>2 DEF GatewayInv, GatewayTypeOK
  <1>5. GatewayTypeOK'
    BY <1>1, <1>3 DEF GatewayInv, GatewayTypeOK
  <1>6. Registered(r) /\ connections[conn[r]].subscriber = r
    BY DEF GatewayInv, RegisteredWhileOpen, Ownership
  <1>7. \A s \in Streams : Registered(s)' <=> Registered(s) /\ s # r
    <2>1. \A s \in Streams : Registered(s) /\ s # r => conn[s] # conn[r]
      BY <1>6 DEF GatewayInv, Ownership
    <2> QED BY <1>1, <2>1 DEF Registered
  <1>8. Ownership'
    BY <1>1, <1>2, <1>7 DEF GatewayInv, Ownership, Registered
  <1>9. RegisteredWhileOpen'
    <2>1. \A s \in Streams : Registered(s)' <=> pc'[s] \in Held
      BY <1>4, <1>7 DEF GatewayInv, RegisteredWhileOpen, Held, AtYield, InTry
    <2> QED BY <1>1, <2>1 DEF GatewayInv, RegisteredWhileOpen
  <1>10. Admission'
    BY <1>4 DEF GatewayInv, Admission, Early, Held, AtYield, InTry
  <1> QED BY <1>1, <1>5, <1>8, <1>9, <1>10 DEF GatewayInv

\* Admit registers the stream under a fresh id, with its own filters.
LEMMA AdmitInv ==
    ASSUME GatewayInv, NEW r \in Streams, pc[r] = "verify", Admit(r),
           UNCHANGED <<query, queue, dropped, lag, due, gone, arrivals, yielded, reported, acked>>
    PROVE  GatewayInv'
  <1>1. query[r] \in Queries /\ FiltersOf(query[r]) \in SUBSET Filters
    BY QueriesAssumption DEF GatewayInv, Admission
  <1>2. Register(FiltersOf(query[r]), r)
    BY DEF Admit
  <1>3. RegistryTypeOK' /\ IndexExact'
    BY <1>1, <1>2, RegisterOK DEF GatewayInv, GatewayTypeOK
  <1>4. /\ DOMAIN connections' = DOMAIN connections \cup {next_id}
        /\ connections'[next_id] = [filters |-> FiltersOf(query[r]), subscriber |-> r]
        /\ \A i \in DOMAIN connections \ {next_id} : connections'[i] = connections[i]
        /\ next_id' = next_id + 1
    BY <1>2 DEF Register
  <1>5. next_id \in Nat /\ next_id > 0 /\ next_id \notin DOMAIN connections
    BY DEF GatewayInv, GatewayTypeOK, RegistryTypeOK
  <1>6. \A s \in Streams :
          /\ pc'[s] = IF s = r THEN "starting" ELSE pc[s]
          /\ conn'[s] = IF s = r THEN next_id ELSE conn[s]
          /\ status'[s] = IF s = r THEN 200 ELSE status[s]
    BY DEF Admit, Goto, GatewayInv, GatewayTypeOK
  <1>7. GatewayTypeOK'
    <2>1. pc' \in [Streams -> {"idle", "verify", "refused", "closed"} \cup Held]
      BY DEF Admit, Goto, GatewayInv, GatewayTypeOK, Held
    <2>2. /\ conn' \in [Streams -> Nat] /\ status' \in [Streams -> {0, 200, 401, 403, 422, 503}]
          /\ since' \in [Streams -> Nat]
      BY <1>5 DEF Admit, GatewayInv, GatewayTypeOK
    <2> QED BY <1>3, <2>1, <2>2 DEF GatewayInv, GatewayTypeOK
  <1>8. conn \in [Streams -> Nat] /\ \A s \in Streams : conn[s] < next_id
    BY DEF GatewayInv, GatewayTypeOK, Ownership
  <1>9. \A s \in Streams : Registered(s)' <=> Registered(s) \/ s = r
    BY <1>4, <1>6, <1>8 DEF Registered
  <1>10. Ownership'
    <2>1. \A s \in Streams : conn'[s] < next_id'
      BY <1>4, <1>5, <1>6, <1>8
    <2>2. ASSUME NEW s \in Streams, Registered(s)'
          PROVE  connections'[conn'[s]].subscriber = s
      <3>1. CASE s = r
        BY <1>4, <1>6, <3>1
      <3>2. CASE s # r
        BY <1>4, <1>6, <1>8, <1>9, <2>2, <3>2 DEF GatewayInv, Ownership, Registered
      <3> QED BY <3>1, <3>2
    <2> QED BY <2>1, <2>2 DEF Ownership, Registered
  <1>11. RegisteredWhileOpen'
    <2>1. \A s \in Streams : Registered(s)' <=> pc'[s] \in Held
      BY <1>6, <1>9 DEF GatewayInv, RegisteredWhileOpen, Held
    <2>2. ASSUME NEW i \in DOMAIN connections'
          PROVE  LET s == connections'[i].subscriber
                 IN  conn'[s] = i /\ status'[s] = 200 /\ connections'[i].filters = FiltersOf(query[s])
      <3>1. CASE i = next_id
        BY <1>4, <1>6, <3>1
      <3>2. CASE i # next_id
        <4> DEFINE s == connections[i].subscriber
        <4>1. i \in DOMAIN connections /\ connections'[i] = connections[i]
          BY <1>4, <2>2, <3>2
        <4>2. s \in Streams /\ conn[s] = i /\ status[s] = 200 /\ connections[i].filters = FiltersOf(query[s])
          BY <4>1 DEF GatewayInv, GatewayTypeOK, RegistryTypeOK, Connection, RegisteredWhileOpen
        <4>3. s # r
          BY <1>5, <4>1, <4>2 DEF GatewayInv, Admission, Early, RegistryTypeOK, GatewayTypeOK
        <4> QED BY <1>6, <4>1, <4>2, <4>3
      <3> QED BY <3>1, <3>2
    <2> QED BY <2>1, <2>2 DEF RegisteredWhileOpen
  <1>12. Admission'
    BY <1>6 DEF GatewayInv, Admission, Early
  <1> QED BY <1>3, <1>7, <1>10, <1>11, <1>12 DEF GatewayInv

-----------------------------------------------------------------------------
\* Every step preserves GatewayInv.
LEMMA GatewayStep == GatewayInv /\ [Next]_vars => GatewayInv'
  <1> SUFFICES ASSUME GatewayInv, [Next]_vars PROVE GatewayInv'
    OBVIOUS
  <1> USE DEF historyVars
  <1>t. /\ queue \in [Streams -> Seq(Nat)] /\ yielded \in [Streams -> Seq(Nat)]
        /\ dropped \in [Streams -> Nat] /\ lag \in [Streams -> Nat]
        /\ reported \in [Streams -> Nat]
        /\ due \in [Streams -> BOOLEAN] /\ gone \in [Streams -> BOOLEAN]
    BY DEF GatewayInv, GatewayTypeOK
  <1>1. CASE UNCHANGED vars
    <2>1. RegistryTypeOK' /\ IndexExact'
      BY <1>1, RegistryStutter DEF vars, GatewayInv, GatewayTypeOK
    <2>2. GatewayTypeOK'
      BY <1>1, <2>1 DEF vars, streamVars, GatewayInv, GatewayTypeOK
    <2>3. Admission' /\ Ownership' /\ RegisteredWhileOpen'
      BY <1>1 DEF vars, streamVars, registryVars, GatewayInv, Admission, Ownership,
                  RegisteredWhileOpen, Registered
    <2> QED BY <2>1, <2>2, <2>3 DEF GatewayInv
  <1>2. ASSUME NEW d \in Deliveries, Webhook(d) PROVE GatewayInv'
    BY <1>1, <1>2, AcceptInv DEF Webhook
  <1>3. ASSUME NEW r \in Streams, NEW q \in Queries, Request(r, q) PROVE GatewayInv'
    <2>1. RegistryTypeOK' /\ IndexExact'
      BY <1>3, RegistryStutter DEF Request, GatewayInv, GatewayTypeOK
    <2>a. /\ pc[r] = "idle" /\ query' = [query EXCEPT ![r] = q]
          /\ \/ /\ QueryStatus(q) = 200 /\ pc' = [pc EXCEPT ![r] = "verify"]
                /\ status' = status
             \/ /\ pc' = [pc EXCEPT ![r] = "refused"]
                /\ status' = [status EXCEPT ![r] = QueryStatus(q)]
      BY <1>3 DEF Request, Goto
    <2>b. /\ pc \in [Streams -> {"idle", "verify", "refused", "closed"} \cup Held]
          /\ query \in [Streams -> Queries \cup {None}]
          /\ status \in [Streams -> {0, 200, 401, 403, 422, 503}]
      BY DEF GatewayInv, GatewayTypeOK
    <2>2. /\ pc[r] = "idle"
          /\ \A s \in Streams : /\ pc'[s] = IF s = r THEN pc'[r] ELSE pc[s]
                                /\ query'[s] = IF s = r THEN q ELSE query[s]
                                /\ s # r => status'[s] = status[s]
          /\ \/ pc'[r] = "verify" /\ QueryStatus(q) = 200
             \/ pc'[r] = "refused"
      BY <2>a, <2>b
    <2>3. /\ pc' \in [Streams -> {"idle", "verify", "refused", "closed"} \cup Held]
          /\ query' \in [Streams -> Queries \cup {None}]
      BY <2>a, <2>b
    <2>4. status' \in [Streams -> {0, 200, 401, 403, 422, 503}]
      <3>1. QueryStatus(q) \in {200, 401, 422}
        BY DEF QueryStatus
      <3> QED BY <2>a, <2>b, <3>1
    <2>5. GatewayTypeOK'
      BY <1>3, <2>1, <2>3, <2>4 DEF Request, GatewayInv, GatewayTypeOK
    <2>6. Admission'
      BY <1>3, <2>2 DEF Request, GatewayInv, Admission, Early
    <2>7. UNCHANGED <<connections, next_id, conn>>
      BY <1>3 DEF Request, registryVars
    <2>8. Ownership'
      BY <2>7 DEF GatewayInv, Ownership, Registered
    <2>9. RegisteredWhileOpen'
      <3>1. \A s \in Streams : Registered(s)' <=> pc'[s] \in Held
        BY <2>2, <2>7 DEF GatewayInv, RegisteredWhileOpen, Registered, Held, AtYield, InTry
      <3>2. \A i \in DOMAIN connections : connections[i].subscriber \in Streams \ {r}
        BY <2>2, SubscriberHeld DEF Held, AtYield, InTry
      <3> QED BY <2>2, <2>7, <3>1, <3>2 DEF GatewayInv, RegisteredWhileOpen
    <2> QED BY <2>1, <2>5, <2>6, <2>8, <2>9 DEF GatewayInv
  <1>4. ASSUME NEW r \in Streams, NEW verdict \in Verdicts, Authorized(r, verdict)
        PROVE  GatewayInv'
    <2>1. CASE Admit(r)
      BY <1>4, <2>1, AdmitInv DEF Authorized
    <2>2. ASSUME NEW code \in {403, 503}, Refuse(r, code) PROVE GatewayInv'
      <3>1. /\ pc[r] = "verify" /\ \A s \in Streams : pc'[s] = IF s = r THEN "refused" ELSE pc[s]
            /\ \A s \in Streams : s # r => status'[s] = status[s]
        BY <1>4, <2>2 DEF Authorized, Refuse, Goto, GatewayInv, GatewayTypeOK
      <3>2. RegistryTypeOK' /\ IndexExact'
        BY <2>2, RegistryStutter DEF Refuse, GatewayInv, GatewayTypeOK
      <3>3. /\ pc' \in [Streams -> {"idle", "verify", "refused", "closed"} \cup Held]
            /\ status' \in [Streams -> {0, 200, 401, 403, 422, 503}]
        BY <2>2 DEF Refuse, Goto, GatewayInv, GatewayTypeOK
      <3>4. GatewayTypeOK'
        BY <1>4, <2>2, <3>2, <3>3 DEF Authorized, Refuse, GatewayInv, GatewayTypeOK
      <3>5. UNCHANGED <<connections, next_id, conn, query>>
        BY <1>4, <2>2 DEF Authorized, Refuse, registryVars
      <3>6. Admission'
        BY <1>4, <2>2, <3>1 DEF Authorized, Refuse, GatewayInv, Admission, Early
      <3>7. Ownership'
        BY <3>5 DEF GatewayInv, Ownership, Registered
      <3>8. RegisteredWhileOpen'
        <4>1. \A s \in Streams : Registered(s)' <=> pc'[s] \in Held
          BY <3>1, <3>5 DEF GatewayInv, RegisteredWhileOpen, Registered, Held, AtYield, InTry
        <4>2. \A i \in DOMAIN connections : connections[i].subscriber \in Streams \ {r}
          BY <3>1, SubscriberHeld DEF Held, AtYield, InTry
        <4> QED BY <3>1, <3>5, <4>1, <4>2 DEF GatewayInv, RegisteredWhileOpen
      <3> QED BY <3>2, <3>4, <3>6, <3>7, <3>8 DEF GatewayInv
    <2> QED BY <1>4, <2>1, <2>2 DEF Authorized
  <1>5. ASSUME NEW r \in Streams, Start(r) PROVE GatewayInv'
    <2>1. pc[r] \in Held /\ "ready" \in Held /\ due' \in [Streams -> BOOLEAN]
      BY <1>5, <1>t DEF Start, Held, AtYield
    <2> QED BY <1>5, <1>t, <2>1, QuietInv DEF Start, Goto
  <1>6. ASSUME NEW r \in Streams, Resume(r) PROVE GatewayInv'
    <2>1. pc[r] \in Held /\ {"data", "recheck", "waiting", "lagging"} \subseteq Held
      BY <1>6 DEF Resume, Held, AtYield, InTry
    <2>2. Iterate(r, due[r]) /\ due[r] \in BOOLEAN
      BY <1>6, <1>t DEF Resume
    <2>3. /\ \E label \in Held : pc' = [pc EXCEPT ![r] = label]
          /\ queue' \in [Streams -> Seq(Nat)] /\ yielded' \in [Streams -> Seq(Nat)]
          /\ dropped' \in [Streams -> Nat] /\ lag' \in [Streams -> Nat]
          /\ \A s \in Streams \ {r} : /\ queue'[s] = queue[s] /\ yielded'[s] = yielded[s]
                                      /\ dropped'[s] = dropped[s] /\ lag'[s] = lag[s]
      BY <2>1, <2>2, IterateEffect
    <2> QED BY <1>6, <1>t, <2>1, <2>3, QuietInv DEF Resume
  <1>7. ASSUME NEW r \in Streams, SendLag(r) PROVE GatewayInv'
    <2>1. pc[r] \in Held /\ "lag" \in Held
      BY <1>7 DEF SendLag, Held, AtYield, InTry
    <2>2. /\ reported' \in [Streams -> Nat] /\ lag' \in [Streams -> Nat]
          /\ \A s \in Streams \ {r} : reported'[s] = reported[s] /\ lag'[s] = lag[s]
      BY <1>7, <1>t DEF SendLag
    <2> QED BY <1>7, <1>t, <2>1, <2>2, QuietInv DEF SendLag, Goto
  <1>8. ASSUME NEW r \in Streams, LagSent(r) PROVE GatewayInv'
    <2>1. pc[r] \in Held /\ "lagged" \in Held
      BY <1>8 DEF LagSent, Held, AtYield, InTry
    <2> QED BY <1>8, <1>t, <2>1, QuietInv DEF LagSent, Goto
  <1>9. ASSUME NEW r \in Streams, AfterLag(r) PROVE GatewayInv'
    <2>1. pc[r] \in Held /\ {"data", "recheck", "waiting"} \subseteq Held
      BY <1>9 DEF AfterLag, Held, AtYield, InTry
    <2>2. AwaitQueue(r, due[r]) /\ due[r] \in BOOLEAN
      BY <1>9, <1>t DEF AfterLag
    <2>3. /\ \E label \in Held : pc' = [pc EXCEPT ![r] = label]
          /\ queue' \in [Streams -> Seq(Nat)] /\ yielded' \in [Streams -> Seq(Nat)]
          /\ \A s \in Streams \ {r} : queue'[s] = queue[s] /\ yielded'[s] = yielded[s]
      BY <2>1, <2>2, AwaitQueueEffect
    <2> QED BY <1>9, <1>t, <2>1, <2>3, QuietInv DEF AfterLag
  <1>10. ASSUME NEW r \in Streams, Wake(r) PROVE GatewayInv'
    <2>1. pc[r] \in Held /\ {"data", "recheck", "waiting"} \subseteq Held
      BY <1>10 DEF Wake, Held, AtYield, InTry
    <2>2. AwaitQueue(r, FALSE)
      BY <1>10 DEF Wake, AwaitQueue
    <2>3. /\ \E label \in Held : pc' = [pc EXCEPT ![r] = label]
          /\ queue' \in [Streams -> Seq(Nat)] /\ yielded' \in [Streams -> Seq(Nat)]
          /\ \A s \in Streams \ {r} : queue'[s] = queue[s] /\ yielded'[s] = yielded[s]
      BY <2>1, <2>2, AwaitQueueEffect
    <2> QED BY <1>10, <1>t, <2>1, <2>3, QuietInv DEF Wake
  <1>11. ASSUME NEW r \in Streams, TimeOut(r) PROVE GatewayInv'
    <2>1. pc[r] \in Held /\ "recheck" \in Held
      BY <1>11 DEF TimeOut, Held, AtYield, InTry
    <2> QED BY <1>11, <1>t, <2>1, QuietInv DEF TimeOut, Goto
  <1>12. ASSUME NEW r \in Streams, DeadlinePasses(r) \/ Stop(r) PROVE GatewayInv'
    <2>1. /\ due' \in [Streams -> BOOLEAN] /\ gone' \in [Streams -> BOOLEAN]
          /\ UNCHANGED <<registryVars, pc, query, status, conn, queue, dropped, lag, historyVars>>
      BY <1>12, <1>t DEF DeadlinePasses, Stop
    <2>2. RegistryTypeOK' /\ IndexExact'
      BY <2>1, RegistryStutter DEF GatewayInv, GatewayTypeOK
    <2>3. GatewayTypeOK'
      BY <2>1, <2>2 DEF GatewayInv, GatewayTypeOK
    <2>4. Admission' /\ Ownership' /\ RegisteredWhileOpen'
      BY <2>1 DEF registryVars, GatewayInv, Admission, Ownership, RegisteredWhileOpen, Registered
    <2> QED BY <2>2, <2>3, <2>4 DEF GatewayInv
  <1>13. ASSUME NEW r \in Streams, NEW verdict \in Verdicts, Recheck(r, verdict) PROVE GatewayInv'
    <2>1. pc[r] \in Held /\ {"data", "recheck", "waiting", "lagging"} \subseteq Held
      BY <1>13 DEF Recheck, Held, AtYield, InTry
    <2>2. CASE Close(r) /\ UNCHANGED <<due, queue, dropped, lag, yielded>>
      BY <1>13, <2>1, <2>2, CloseInv DEF Recheck
    <2>3. CASE due' = [due EXCEPT ![r] = FALSE] /\ Iterate(r, FALSE) /\ UNCHANGED registryVars
      <3>1. /\ \E label \in Held : pc' = [pc EXCEPT ![r] = label]
            /\ queue' \in [Streams -> Seq(Nat)] /\ yielded' \in [Streams -> Seq(Nat)]
            /\ dropped' \in [Streams -> Nat] /\ lag' \in [Streams -> Nat]
            /\ \A s \in Streams \ {r} : /\ queue'[s] = queue[s] /\ yielded'[s] = yielded[s]
                                        /\ dropped'[s] = dropped[s] /\ lag'[s] = lag[s]
        BY <2>1, <2>3, IterateEffect
      <3>2. due' \in [Streams -> BOOLEAN]
        BY <1>t, <2>3
      <3> QED BY <1>13, <1>t, <2>1, <2>3, <3>1, <3>2, QuietInv DEF Recheck
    <2> QED BY <1>13, <2>2, <2>3 DEF Recheck
  <1>14. ASSUME NEW r \in Streams, Cancel(r) PROVE GatewayInv'
    <2>1. CASE Close(r) /\ pc[r] \in InTry
      <3>1. pc[r] \in Held
        BY <2>1 DEF Held
      <3> QED BY <1>14, <2>1, <3>1, CloseInv DEF Cancel
    <2>2. ASSUME NEW label \in {"leaked", "abandoned"}, Goto(r, label), UNCHANGED registryVars,
                 pc[r] \in {"starting"} \cup AtYield
          PROVE  GatewayInv'
      <3>1. pc[r] \in Held /\ label \in Held
        BY <2>2 DEF Held
      <3> QED BY <1>14, <1>t, <2>2, <3>1, QuietInv DEF Cancel, Goto
    <2> QED BY <1>14, <2>1, <2>2 DEF Cancel
  <1>15. ASSUME NEW r \in Streams, Finalize(r) PROVE GatewayInv'
    <2>1. pc[r] \in Held
      BY <1>15 DEF Finalize, Held
    <2> QED BY <1>15, <2>1, CloseInv DEF Finalize
  <1> QED
    BY <1>1, <1>2, <1>3, <1>4, <1>5, <1>6, <1>7, <1>8, <1>9, <1>10, <1>11, <1>12, <1>13,
       <1>14, <1>15 DEF Next, Stream

\* Every stream is in the registry, once and with its own filters, from its
\* admission until its finally block has run, and the registry and its index
\* stay well formed, for any number of streams.
THEOREM RegistrationCorrect == Spec => [](GatewayTypeOK /\ IndexExact /\ RegisteredWhileOpen)
  <1>1. GatewayInv => GatewayTypeOK /\ IndexExact /\ RegisteredWhileOpen
    BY DEF GatewayInv
  <1> QED BY <1>1, GatewayInit, GatewayStep, PTL DEF Spec

\* The types of the gateway's variables by themselves.
THEOREM GatewayTypesCorrect == Spec => []GatewayTypeOK
  BY RegistrationCorrect, PTL

-----------------------------------------------------------------------------
(* A stream's losses and its rechecks.                                     *)

\* A count taken off the subscriber is on its way to the client; a count still
\* on it comes with a queued event, except just after one has been taken.
LossInv ==
    \A r \in Streams :
        /\ lag[r] # 0 => pc[r] \in {"lagging", "closed"}
        /\ dropped[r] > 0 /\ pc[r] \notin {"data", "abandoned", "closed"} => queue[r] # <<>>

LEMMA LossInit == Init => LossInv
  BY DEF Init, LossInv

\* What a step of stream r may do to r.
LEMMA LossLocal ==
    ASSUME GatewayInv, LossInv, NEW r \in Streams,
           \A s \in Streams \ {r} : /\ pc'[s] = pc[s] /\ queue'[s] = queue[s]
                                    /\ dropped'[s] = dropped[s] /\ lag'[s] = lag[s],
           lag'[r] # 0 => pc'[r] \in {"lagging", "closed"},
           dropped'[r] > 0 /\ pc'[r] \notin {"data", "abandoned", "closed"} => queue'[r] # <<>>
    PROVE  LossInv'
  BY DEF LossInv

LEMMA LossStep == GatewayInv /\ LossInv /\ [Next]_vars => LossInv'
  <1> SUFFICES ASSUME GatewayInv, LossInv, [Next]_vars PROVE LossInv'
    OBVIOUS
  <1> USE DEF historyVars
  <1>t. /\ queue \in [Streams -> Seq(Nat)] /\ dropped \in [Streams -> Nat]
        /\ lag \in [Streams -> Nat]
        /\ pc \in [Streams -> {"idle", "verify", "refused", "closed"} \cup Held]
    BY DEF GatewayInv, GatewayTypeOK
  <1>1. CASE UNCHANGED <<pc, queue, dropped, lag>>
    BY <1>1 DEF LossInv
  <1>2. ASSUME NEW d \in Deliveries, Accept(d) PROVE LossInv'
    <2> DEFINE to == matched(normalize(d.event, d.payload))
               lost == {r \in to : Full(queue[r])}
    <2> SUFFICES ASSUME NEW r \in Streams
                 PROVE  /\ lag'[r] # 0 => pc'[r] \in {"lagging", "closed"}
                        /\ dropped'[r] > 0 /\ pc'[r] \notin {"data", "abandoned", "closed"}
                             => queue'[r] # <<>>
      BY DEF LossInv
    <2>1. /\ queue'[r] = IF r \in to \ lost THEN Append(queue[r], Len(arrivals) + 1) ELSE queue[r]
          /\ dropped'[r] = IF r \in lost THEN dropped[r] + 1 ELSE dropped[r]
          /\ pc' = pc /\ lag' = lag
      BY <1>2 DEF Accept
    <2>2. CASE r \in lost
      <3>1. queue'[r] = queue[r] /\ queue[r] \in Seq(Nat) /\ Len(queue[r]) > 0
        BY <1>t, <2>1, <2>2, QueueAssumption DEF Full
      <3>2. queue'[r] # <<>>
        BY <3>1
      <3> QED BY <2>1, <3>2 DEF LossInv
    <2>3. CASE r \notin lost
      <3>1. dropped'[r] = dropped[r] /\ (queue[r] # <<>> => queue'[r] # <<>>)
        <4>1. Len(arrivals) + 1 \in Nat
          BY DEF GatewayInv, GatewayTypeOK
        <4>2. Append(queue[r], Len(arrivals) + 1) # <<>>
          <5>1. queue[r] \in Seq(Nat)
            BY <1>t
          <5>2. Len(Append(queue[r], Len(arrivals) + 1)) = Len(queue[r]) + 1
            BY <4>1, <5>1
          <5> QED BY <5>1, <5>2
        <4> QED BY <2>1, <2>3, <4>2
      <3> QED BY <2>1, <3>1 DEF LossInv
    <2> QED BY <2>2, <2>3
  <1>3. ASSUME NEW r \in Streams, NEW overdue \in BOOLEAN, Iterate(r, overdue), lag[r] = 0
        PROVE  LossInv'
    <2>1. CASE dropped[r] > 0
      <3>1. /\ lag' = [lag EXCEPT ![r] = dropped[r]] /\ dropped' = [dropped EXCEPT ![r] = 0]
            /\ pc' = [pc EXCEPT ![r] = "lagging"] /\ queue' = queue
        BY <1>3, <2>1 DEF Iterate, Goto
      <3> QED BY <1>t, <3>1, LossLocal
    <2>2. CASE ~(dropped[r] > 0)
      <3>1. AwaitQueue(r, overdue) /\ UNCHANGED <<dropped, lag>>
        BY <1>3, <2>2 DEF Iterate
      <3>2. \A s \in Streams \ {r} : pc'[s] = pc[s] /\ queue'[s] = queue[s]
        BY <1>t, <3>1, AwaitQueueEffect
      <3> QED BY <1>3, <2>2, <3>1, <3>2, LossLocal
    <2> QED BY <2>1, <2>2
  <1>4. ASSUME NEW r \in Streams, NEW overdue \in BOOLEAN, AwaitQueue(r, overdue),
               UNCHANGED <<dropped, lag>>, lag[r] = 0, dropped[r] > 0 => queue[r] # <<>>
        PROVE  LossInv'
    <2>1. CASE Take(r)
      <3>1. pc' = [pc EXCEPT ![r] = "data"] /\ \A s \in Streams \ {r} : queue'[s] = queue[s]
        BY <1>t, <2>1 DEF Take, Goto
      <3> QED BY <1>t, <1>4, <3>1, LossLocal
    <2>2. CASE /\ Goto(r, IF overdue THEN "recheck" ELSE "waiting")
               /\ UNCHANGED <<queue, yielded>>
      <3>1. \A s \in Streams \ {r} : pc'[s] = pc[s]
        BY <1>t, <2>2 DEF Goto
      <3> QED BY <1>4, <2>2, <3>1, LossLocal
    <2> QED BY <1>4, <2>1, <2>2 DEF AwaitQueue
  \* Moves between labels that put r under no new obligation.
  <1>5. ASSUME NEW r \in Streams, NEW label, pc' = [pc EXCEPT ![r] = label],
               UNCHANGED <<queue, dropped, lag>>,
               lag[r] # 0 => label = "closed",
               \/ label \in {"abandoned", "closed"}
               \/ dropped[r] > 0 => queue[r] # <<>>
        PROVE  LossInv'
    BY <1>t, <1>5, LossLocal
  <1>6. ASSUME NEW r \in Streams, \E q \in Queries : Request(r, q) PROVE LossInv'
    <2>1. PICK label : pc' = [pc EXCEPT ![r] = label]
      BY <1>6 DEF Request, Goto
    <2>2. pc[r] = "idle" /\ UNCHANGED <<queue, dropped, lag>>
      BY <1>6 DEF Request
    <2>3. lag[r] = 0 /\ ~(dropped[r] > 0)
      BY <2>2 DEF GatewayInv, Admission, Early
    <2> QED BY <1>5, <2>1, <2>2, <2>3
  <1>7. ASSUME NEW r \in Streams, \E verdict \in Verdicts : Authorized(r, verdict) PROVE LossInv'
    <2>1. PICK label : pc' = [pc EXCEPT ![r] = label]
      BY <1>7 DEF Authorized, Admit, Refuse, Goto
    <2>2. pc[r] = "verify" /\ UNCHANGED <<queue, dropped, lag>>
      BY <1>7 DEF Authorized
    <2>3. lag[r] = 0 /\ ~(dropped[r] > 0)
      BY <2>2 DEF GatewayInv, Admission, Early
    <2> QED BY <1>5, <2>1, <2>2, <2>3
  <1>8. ASSUME NEW r \in Streams, Start(r) PROVE LossInv'
    <2>1. pc[r] = "starting" /\ pc' = [pc EXCEPT ![r] = "ready"] /\ UNCHANGED <<queue, dropped, lag>>
      BY <1>8 DEF Start, Goto
    <2> QED BY <1>5, <2>1 DEF LossInv
  <1>9. ASSUME NEW r \in Streams, Resume(r) PROVE LossInv'
    <2>1. Iterate(r, due[r]) /\ lag[r] = 0 /\ due[r] \in BOOLEAN
      BY <1>9 DEF Resume, LossInv, GatewayInv, GatewayTypeOK
    <2> QED BY <1>3, <2>1
  <1>10. ASSUME NEW r \in Streams, SendLag(r) PROVE LossInv'
    <2>1. /\ pc[r] = "lagging" /\ pc' = [pc EXCEPT ![r] = "lag"]
          /\ UNCHANGED <<queue, dropped>> /\ lag' = [lag EXCEPT ![r] = 0]
      BY <1>10 DEF SendLag, Goto
    <2> QED BY <1>t, <2>1, LossLocal DEF LossInv
  <1>11. ASSUME NEW r \in Streams, LagSent(r) PROVE LossInv'
    <2>1. pc[r] = "lag" /\ pc' = [pc EXCEPT ![r] = "lagged"] /\ UNCHANGED <<queue, dropped, lag>>
      BY <1>11 DEF LagSent, Goto
    <2> QED BY <1>5, <2>1 DEF LossInv
  <1>12. ASSUME NEW r \in Streams, AfterLag(r) PROVE LossInv'
    <2>1. /\ AwaitQueue(r, due[r]) /\ UNCHANGED <<dropped, lag>> /\ due[r] \in BOOLEAN
          /\ pc[r] = "lagged"
      BY <1>12 DEF AfterLag, GatewayInv, GatewayTypeOK
    <2> QED BY <1>4, <2>1 DEF LossInv
  <1>13. ASSUME NEW r \in Streams, Wake(r) PROVE LossInv'
    <2>1. AwaitQueue(r, FALSE) /\ UNCHANGED <<dropped, lag>> /\ pc[r] = "waiting"
      BY <1>13 DEF Wake, AwaitQueue
    <2> QED BY <1>4, <2>1 DEF LossInv
  <1>14. ASSUME NEW r \in Streams, TimeOut(r) PROVE LossInv'
    <2>1. pc[r] = "waiting" /\ pc' = [pc EXCEPT ![r] = "recheck"] /\ UNCHANGED <<queue, dropped, lag>>
      BY <1>14 DEF TimeOut, Goto
    <2> QED BY <1>5, <2>1 DEF LossInv
  <1>15. ASSUME NEW r \in Streams, NEW verdict \in Verdicts, Recheck(r, verdict) PROVE LossInv'
    <2>1. CASE Close(r) /\ UNCHANGED <<queue, dropped, lag>>
      <3>1. pc' = [pc EXCEPT ![r] = "closed"]
        BY <2>1 DEF Close, Goto
      <3> QED BY <1>5, <2>1, <3>1
    <2>2. CASE Iterate(r, FALSE)
      <3>1. lag[r] = 0
        BY <1>15 DEF Recheck, LossInv
      <3> QED BY <1>3, <2>2, <3>1
    <2> QED BY <1>15, <2>1, <2>2 DEF Recheck
  <1>16. ASSUME NEW r \in Streams, Cancel(r) PROVE LossInv'
    <2>1. /\ UNCHANGED <<queue, dropped, lag>>
          /\ \/ pc[r] = "starting" /\ pc' = [pc EXCEPT ![r] = "leaked"]
             \/ pc[r] \in AtYield /\ pc' = [pc EXCEPT ![r] = "abandoned"]
             \/ pc' = [pc EXCEPT ![r] = "closed"]
      BY <1>16 DEF Cancel, Close, Goto
    <2>2. pc[r] \in {"starting"} \cup AtYield => lag[r] = 0
      BY DEF LossInv, AtYield
    <2> QED BY <1>5, <2>1, <2>2 DEF LossInv
  <1>17. ASSUME NEW r \in Streams, Finalize(r) PROVE LossInv'
    <2>1. pc' = [pc EXCEPT ![r] = "closed"] /\ UNCHANGED <<queue, dropped, lag>>
      BY <1>17 DEF Finalize, Close, Goto
    <2> QED BY <1>5, <2>1
  <1>18. ASSUME NEW r \in Streams, DeadlinePasses(r) \/ Stop(r) PROVE LossInv'
    BY <1>1, <1>18 DEF DeadlinePasses, Stop
  <1>19. ASSUME NEW d \in Deliveries, Webhook(d) PROVE LossInv'
    BY <1>1, <1>2, <1>19 DEF Webhook, vars, streamVars
  <1>20. CASE UNCHANGED vars
    BY <1>1, <1>20 DEF vars, streamVars
  <1> QED
    BY <1>6, <1>7, <1>8, <1>9, <1>10, <1>11, <1>12, <1>13, <1>14, <1>15, <1>16, <1>17,
       <1>18, <1>19, <1>20 DEF Next, Stream

\* No stream waits for events while it owes its client a loss that no queued
\* event would bring out.
THEOREM NoSleepingOnLossHolds == Spec => []NoSleepingOnLoss
  <1>1. GatewayInv /\ LossInv => NoSleepingOnLoss
    BY DEF LossInv, NoSleepingOnLoss
  <1> QED BY <1>1, GatewayInit, GatewayStep, LossInit, LossStep, PTL DEF Spec

\* An overdue recheck is not put off by traffic.
THEOREM RecheckNotStarvedHolds == Spec => RecheckNotStarved
  <1> DEFINE Prompt == \A r \in Streams :
                          due[r] /\ yielded'[r] # yielded[r] => pc[r] \in {"waiting", "recheck"}
  <1>1. GatewayInv /\ [Next]_vars => [Prompt]_vars
    <2> SUFFICES ASSUME GatewayInv, Next, NEW r \in Streams, due[r], yielded'[r] # yielded[r]
                 PROVE  pc[r] \in {"waiting", "recheck"}
      OBVIOUS
    <2> USE DEF historyVars
    <2>t. yielded \in [Streams -> Seq(Nat)] /\ due \in [Streams -> BOOLEAN]
      BY DEF GatewayInv, GatewayTypeOK
    \* An overdue stream that looks at its queue yields nothing.
    <2>1. ASSUME NEW s \in Streams, AwaitQueue(s, due[s]) PROVE FALSE
      <3>1. CASE s = r
        BY <2>1, <3>1 DEF AwaitQueue
      <3>2. CASE s # r
        BY <2>t, <2>1, <3>2, AwaitQueueEffect
      <3> QED BY <3>1, <3>2
    <2>2. ASSUME NEW s \in Streams, Iterate(s, due[s]) PROVE FALSE
      BY <2>1, <2>2 DEF Iterate
    <2>3. ASSUME NEW s \in Streams, Resume(s) \/ AfterLag(s) PROVE FALSE
      BY <2>1, <2>2, <2>3 DEF Resume, AfterLag
    <2>4. ASSUME NEW s \in Streams, s # r, Wake(s) PROVE FALSE
      BY <2>t, <2>4 DEF Wake, Take
    <2>5. ASSUME NEW s \in Streams, s # r, NEW verdict \in Verdicts, Recheck(s, verdict)
          PROVE  FALSE
      BY <2>t, <2>5, IterateEffect DEF Recheck
    <2>6. ASSUME NEW d \in Deliveries, Webhook(d) PROVE FALSE
      BY <2>6 DEF Webhook, Accept, vars
    <2>7. ASSUME NEW s \in Streams,
                 \/ \E q \in Queries : Request(s, q)
                 \/ \E verdict \in Verdicts : Authorized(s, verdict)
                 \/ Start(s) \/ SendLag(s) \/ LagSent(s) \/ TimeOut(s) \/ DeadlinePasses(s)
                 \/ Stop(s) \/ Cancel(s) \/ Finalize(s)
          PROVE  FALSE
      BY <2>7 DEF Request, Authorized, Start, SendLag, LagSent, TimeOut, DeadlinePasses, Stop,
                  Cancel, Finalize
    <2>8. ASSUME NEW s \in Streams, Stream(s) PROVE pc[r] \in {"waiting", "recheck"}
      BY <2>3, <2>4, <2>5, <2>7, <2>8 DEF Stream, Wake, Recheck
    <2> QED BY <2>6, <2>8 DEF Next
  <1> QED BY <1>1, GatewayInit, GatewayStep, PTL DEF Spec, RecheckNotStarved
=============================================================================
