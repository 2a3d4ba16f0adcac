------------------------------ MODULE Registry ------------------------------
(***************************************************************************)
(* server/registry.py: the in-memory registry of open SSE connections and  *)
(* its inverted index (repo, event) -> ids, which is what a webhook is     *)
(* matched against.                                                        *)
(*                                                                         *)
(* Registry methods contain no await, so each of them is one atomic step   *)
(* of the single-threaded event loop.  The names carry the prefix          *)
(* "Registry" where Gateway.tla, which extends this module, has its own.   *)
(***************************************************************************)
EXTENDS Events, Integers

CONSTANTS
    Filters,      \* the filters a client may declare
    Norms,        \* the tuples webhooks are normalized to
    Streams,      \* stream requests; each one owns at most one Subscriber
    MaxId         \* bound on the ids handed out

ASSUME MaxIdAssumption == MaxId \in Nat

VARIABLES
    connections,  \* id -> [filters, subscriber]; the login is never read back
    index,        \* (repo, event) -> non-empty set of ids
    next_id       \* self._next_id

registryVars == <<connections, index, next_id>>

Connection == [filters: SUBSET Filters, subscriber: Streams]

Key(filter) == <<filter.repo, filter.event>>

KeysOf(filters) == {Key(f) : f \in filters}

AllKeys == KeysOf(Filters)

-----------------------------------------------------------------------------
RegistryInit ==
    /\ connections = [id \in {} |-> None]
    /\ index = [key \in {} |-> {}]
    /\ next_id = 1

\* self.index.get(key, ()): the ids under a key, none when it is absent.
Lookup(key) == IF key \in DOMAIN index THEN index[key] ELSE {}

Register(filters, subscriber) ==
    LET id == next_id
    IN  /\ id <= MaxId
        /\ next_id' = id + 1
        /\ connections' =
             [i \in DOMAIN connections \cup {id} |->
                IF i = id THEN [filters |-> filters, subscriber |-> subscriber]
                          ELSE connections[i]]
        /\ index' =
             [key \in DOMAIN index \cup KeysOf(filters) |->
                IF key \in KeysOf(filters) THEN Lookup(key) \cup {id} ELSE index[key]]

\* Bugs the checks must catch: the whole index entry is deleted when one of
\* its connections goes away.
UnregisterDroppingKeys(id) ==
    IF id \notin DOMAIN connections
    THEN UNCHANGED registryVars
    ELSE LET keys == KeysOf(connections[id].filters)
         IN  /\ connections' = [i \in DOMAIN connections \ {id} |-> connections[i]]
             /\ index' = [key \in DOMAIN index \ keys |-> index[key]]
             /\ UNCHANGED next_id

\* The freed id is handed out next.
UnregisterReusingId(id) ==
    IF id \notin DOMAIN connections
    THEN UNCHANGED registryVars
    ELSE /\ connections' = [i \in DOMAIN connections \ {id} |-> connections[i]]
         /\ index' = [key \in {k \in DOMAIN index : index[k] # {id}} |-> index[key] \ {id}]
         /\ next_id' = id

\* Idempotent: an unknown id is ignored.  An index entry that becomes empty
\* is deleted.  self.index[key] would raise KeyError if one of the
\* connection's keys were missing: IndexExact excludes it.
Unregister(id) ==
    IF id \notin DOMAIN connections
    THEN UNCHANGED registryVars
    ELSE LET keys == KeysOf(connections[id].filters)
             Emptied(key) == key \in keys /\ index[key] \subseteq {id}
         IN  /\ connections' = [i \in DOMAIN connections \ {id} |-> connections[i]]
             /\ index' = [key \in {k \in DOMAIN index : ~Emptied(k)} |->
                            IF key \in keys THEN index[key] \ {id} ELSE index[key]]
             /\ UNCHANGED next_id

\* The ids of the connections an event goes to, found through the index.  The
\* order in which the code lists them cannot be observed: every subscriber
\* has a queue of its own.
match(norm) ==
    {id \in Lookup(<<norm.repo, norm.event>>) :
        \E f \in connections[id].filters : Selects(f, norm)}

RegistryNext ==
    \/ \E filters \in SUBSET Filters \ {{}}, s \in Streams : Register(filters, s)
    \/ \E id \in 1..MaxId : Unregister(id)

RegistrySpec == RegistryInit /\ [][RegistryNext]_registryVars

-----------------------------------------------------------------------------
(* Types: partial functions are described by their domain and values.      *)
RegistryTypeOK ==
    /\ DOMAIN connections \subseteq 1..(next_id - 1)
    /\ connections = [id \in DOMAIN connections |-> connections[id]]
    /\ \A id \in DOMAIN connections : connections[id] \in Connection
    /\ DOMAIN index \subseteq AllKeys
    /\ index = [key \in DOMAIN index |-> index[key]]
    /\ \A key \in DOMAIN index : index[key] \in SUBSET Nat
    /\ next_id \in 1..(MaxId + 1)

\* The index is exactly the inverse of the connections' filters: no id is
\* stale (match would raise KeyError on it), no key of an open connection is
\* missing (its events would be lost, and Unregister would raise), and no
\* entry is empty (the dictionary would grow with every repository seen).
IndexExact ==
    /\ \A key \in DOMAIN index :
         /\ index[key] # {}
         /\ index[key] = {id \in DOMAIN connections :
                            key \in KeysOf(connections[id].filters)}
    /\ \A id \in DOMAIN connections : KeysOf(connections[id].filters) \subseteq DOMAIN index

\* Matching through the index selects exactly the open connections one of
\* whose filters asks for the event: nobody subscribed is missed and nobody
\* else is told, whatever was registered and unregistered before.
MatchExact ==
    \A norm \in Norms :
        match(norm) = {id \in DOMAIN connections :
                         \E f \in connections[id].filters :
                             /\ f.repo = norm.repo /\ f.event = norm.event
                             /\ f.action \in {None, norm.action}
                             /\ f.number \in {None, norm.number}}
=============================================================================
