--------------------------- MODULE RegistryProofs ---------------------------
(***************************************************************************)
(* Proofs about the registry for every set of filters, streams and events: *)
(* the index stays the exact inverse of the connections, so matching       *)
(* through it selects the open connections that ask for an event.  The     *)
(* lemmas on Register and Unregister are what GatewayProofs rests on.      *)
(***************************************************************************)
EXTENDS Registry, TLAPS

\* A connection's filters index it under filter keys only.
LEMMA KeysOfFilters ==
    ASSUME NEW filters \in SUBSET Filters
    PROVE  KeysOf(filters) \subseteq AllKeys
  BY DEF KeysOf, AllKeys

\* The empty registry is well formed.
LEMMA RegistryInitOK ==
    RegistryInit => RegistryTypeOK /\ IndexExact
  <1> SUFFICES ASSUME RegistryInit PROVE RegistryTypeOK /\ IndexExact
    OBVIOUS
  <1>1. DOMAIN connections = {} /\ DOMAIN index = {} /\ next_id = 1
    BY DEF RegistryInit
  <1>2. next_id \in 1..(MaxId + 1)
    BY <1>1, MaxIdAssumption
  <1>3. RegistryTypeOK
    BY <1>1, <1>2 DEF RegistryTypeOK, RegistryInit
  <1>4. IndexExact
    BY <1>1 DEF IndexExact
  <1> QED BY <1>3, <1>4

\* Steps that leave the registry alone keep it well formed.
LEMMA RegistryStutter ==
    ASSUME RegistryTypeOK, IndexExact, UNCHANGED registryVars
    PROVE  RegistryTypeOK' /\ IndexExact'
  BY DEF registryVars, RegistryTypeOK, IndexExact, AllKeys, Connection

\* register keeps the registry well formed: the new id is fresh, and it is
\* indexed under every key of its filters and under no other.
LEMMA RegisterOK ==
    ASSUME NEW filters \in SUBSET Filters, NEW s \in Streams,
           RegistryTypeOK, IndexExact, Register(filters, s)
    PROVE  RegistryTypeOK' /\ IndexExact'
  <1> DEFINE id == next_id
  <1>1. /\ id \in Nat /\ id >= 1 /\ id <= MaxId /\ next_id' = id + 1
        /\ id \notin DOMAIN connections
    BY MaxIdAssumption DEF RegistryTypeOK, Register
  <1>2. /\ DOMAIN connections' = DOMAIN connections \cup {id}
        /\ connections'[id] = [filters |-> filters, subscriber |-> s]
        /\ \A i \in DOMAIN connections : connections'[i] = connections[i]
        /\ connections' = [i \in DOMAIN connections' |-> connections'[i]]
    BY <1>1 DEF Register
  <1>3. /\ DOMAIN index' = DOMAIN index \cup KeysOf(filters)
        /\ \A key \in KeysOf(filters) : index'[key] = Lookup(key) \cup {id}
        /\ \A key \in DOMAIN index \ KeysOf(filters) : index'[key] = index[key]
        /\ index' = [key \in DOMAIN index' |-> index'[key]]
    BY DEF Register
  <1>4. \A key : Lookup(key) = {i \in DOMAIN connections : key \in KeysOf(connections[i].filters)}
    BY DEF Lookup, IndexExact
  <1>5. RegistryTypeOK'
    <2>1. DOMAIN connections' \subseteq 1..(next_id' - 1)
      BY <1>1, <1>2 DEF RegistryTypeOK
    <2>2. \A i \in DOMAIN connections' : connections'[i] \in Connection
      BY <1>2 DEF RegistryTypeOK, Connection
    <2>3. DOMAIN index' \subseteq AllKeys
      BY <1>3, KeysOfFilters DEF RegistryTypeOK
    <2>4. \A key \in DOMAIN index' : index'[key] \in SUBSET Nat
      BY <1>1, <1>3 DEF RegistryTypeOK, Lookup
    <2>5. next_id' \in 1..(MaxId + 1)
      BY <1>1, MaxIdAssumption
    <2> QED BY <1>2, <1>3, <2>1, <2>2, <2>3, <2>4, <2>5 DEF RegistryTypeOK
  <1>6. ASSUME NEW key \in DOMAIN index'
        PROVE  /\ index'[key] # {}
               /\ index'[key] = {i \in DOMAIN connections' :
                                   key \in KeysOf(connections'[i].filters)}
    <2>1. CASE key \in KeysOf(filters)
      BY <1>1, <1>2, <1>3, <1>4, <2>1
    <2>2. CASE key \notin KeysOf(filters)
      <3>1. key \in DOMAIN index /\ index'[key] = index[key]
        BY <1>3, <1>6, <2>2
      <3>2. index[key] # {} /\ index[key] = Lookup(key)
        BY <3>1 DEF IndexExact, Lookup
      <3> QED BY <1>1, <1>2, <1>4, <2>2, <3>1, <3>2
    <2> QED BY <2>1, <2>2
  <1>7. ASSUME NEW i \in DOMAIN connections'
        PROVE  KeysOf(connections'[i].filters) \subseteq DOMAIN index'
    <2>1. CASE i = id
      BY <1>2, <1>3, <2>1
    <2>2. CASE i # id
      BY <1>2, <1>3, <1>7, <2>2 DEF IndexExact
    <2> QED BY <2>1, <2>2
  <1>8. IndexExact'
    BY <1>6, <1>7 DEF IndexExact
  <1> QED BY <1>5, <1>8

\* unregister keeps the registry well formed, and removes the id from every
\* entry it is in and no other id from anywhere.
LEMMA UnregisterOK ==
    ASSUME NEW id, RegistryTypeOK, IndexExact, Unregister(id)
    PROVE  /\ RegistryTypeOK' /\ IndexExact'
           /\ DOMAIN connections' = DOMAIN connections \ {id}
           /\ \A i \in DOMAIN connections' : connections'[i] = connections[i]
  <1>1. CASE id \notin DOMAIN connections
    <2>1. UNCHANGED registryVars
      BY <1>1 DEF Unregister
    <2> QED BY <1>1, <2>1, RegistryStutter DEF registryVars
  <1>2. CASE id \in DOMAIN connections
    <2> DEFINE keys == KeysOf(connections[id].filters)
               emptied == {k \in DOMAIN index : k \in keys /\ index[k] \subseteq {id}}
    <2>1. /\ DOMAIN connections' = DOMAIN connections \ {id}
          /\ \A i \in DOMAIN connections' : connections'[i] = connections[i]
          /\ connections' = [i \in DOMAIN connections' |-> connections'[i]]
          /\ next_id' = next_id
      BY <1>2 DEF Unregister
    <2>2. /\ DOMAIN index' = DOMAIN index \ emptied
          /\ \A key \in DOMAIN index' :
               index'[key] = IF key \in keys THEN index[key] \ {id} ELSE index[key]
          /\ index' = [key \in DOMAIN index' |-> index'[key]]
      BY <1>2 DEF Unregister
    <2>3. RegistryTypeOK'
      BY <2>1, <2>2 DEF RegistryTypeOK
    <2>4. ASSUME NEW key \in DOMAIN index'
          PROVE  /\ index'[key] # {}
                 /\ index'[key] = {i \in DOMAIN connections' :
                                     key \in KeysOf(connections'[i].filters)}
      <3>1. key \in DOMAIN index /\ key \notin emptied
        BY <2>2, <2>4
      <3>2. /\ index[key] # {}
            /\ index[key] = {i \in DOMAIN connections : key \in KeysOf(connections[i].filters)}
        BY <3>1 DEF IndexExact
      <3>3. index'[key] = index[key] \ {id}
        BY <2>2, <2>4, <3>2
      <3>4. index'[key] # {}
        BY <2>2, <2>4, <3>1, <3>2, <3>3
      <3> QED BY <2>1, <3>2, <3>3, <3>4
    <2>5. ASSUME NEW i \in DOMAIN connections', NEW key \in KeysOf(connections'[i].filters)
          PROVE  key \in DOMAIN index'
      <3>1. i \in DOMAIN connections /\ i # id /\ key \in KeysOf(connections[i].filters)
        BY <2>1, <2>5
      <3>2. key \in DOMAIN index /\ i \in index[key]
        BY <3>1 DEF IndexExact
      <3> QED BY <2>2, <3>1, <3>2
    <2>6. IndexExact'
      BY <2>4, <2>5 DEF IndexExact
    <2> QED BY <2>1, <2>3, <2>6
  <1> QED BY <1>1, <1>2

\* Where the index is exact, matching through it is.
LEMMA MatchThroughIndex ==
    ASSUME IndexExact, NEW norm
    PROVE  match(norm) = {id \in DOMAIN connections :
                            \E f \in connections[id].filters : Selects(f, norm)}
  <1> DEFINE key == <<norm.repo, norm.event>>
  <1>1. Lookup(key) = {id \in DOMAIN connections : key \in KeysOf(connections[id].filters)}
    BY DEF Lookup, IndexExact
  <1>2. ASSUME NEW id \in DOMAIN connections, NEW f \in connections[id].filters, Selects(f, norm)
        PROVE  key \in KeysOf(connections[id].filters)
    BY <1>2 DEF Selects, KeysOf, Key
  <1> QED BY <1>1, <1>2 DEF match

LEMMA MatchExactFromIndex == IndexExact => MatchExact
  <1> SUFFICES ASSUME IndexExact, NEW norm \in Norms
               PROVE  match(norm) = {id \in DOMAIN connections :
                                      \E f \in connections[id].filters :
                                          /\ f.repo = norm.repo /\ f.event = norm.event
                                          /\ f.action \in {None, norm.action}
                                          /\ f.number \in {None, norm.number}}
    BY DEF MatchExact
  <1>1. match(norm) = {id \in DOMAIN connections :
                         \E f \in connections[id].filters : Selects(f, norm)}
    BY MatchThroughIndex
  <1> QED BY <1>1 DEF Selects

-----------------------------------------------------------------------------
\* The registry's variables are well typed, its index is the exact inverse of
\* its connections, and matching selects exactly the connections that ask for
\* an event, after any sequence of register and unregister calls.
THEOREM RegistryCorrect == RegistrySpec => [](RegistryTypeOK /\ IndexExact /\ MatchExact)
  <1> DEFINE Inv == RegistryTypeOK /\ IndexExact
  <1>1. RegistryInit => Inv
    BY RegistryInitOK
  <1>2. Inv /\ [RegistryNext]_registryVars => Inv'
    <2> SUFFICES ASSUME Inv, [RegistryNext]_registryVars PROVE Inv'
      OBVIOUS
    <2>1. ASSUME NEW filters \in SUBSET Filters \ {{}}, NEW s \in Streams, Register(filters, s)
          PROVE  Inv'
      BY <2>1, RegisterOK
    <2>2. ASSUME NEW id \in 1..MaxId, Unregister(id)
          PROVE  Inv'
      BY <2>2, UnregisterOK
    <2>3. CASE UNCHANGED registryVars
      BY <2>3, RegistryStutter
    <2> QED BY <2>1, <2>2, <2>3 DEF RegistryNext
  <1>3. Inv => MatchExact
    BY MatchExactFromIndex
  <1> QED BY <1>1, <1>2, <1>3, PTL DEF RegistrySpec

\* Two of the three parts by themselves: the types of the registry's variables,
THEOREM RegistryTypesCorrect == RegistrySpec => []RegistryTypeOK
  BY RegistryCorrect, PTL

\* and what a webhook is matched to: nobody who asked is missed, nobody else told.
THEOREM MatchingCorrect == RegistrySpec => []MatchExact
  BY RegistryCorrect, PTL
=============================================================================
