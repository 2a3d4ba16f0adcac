---------------------------- MODULE SetupProofs ----------------------------
(***************************************************************************)
(* Proofs about setup for every number of runs, of webhooks and of pages.  *)
(***************************************************************************)
EXTENDS Setup, FiniteSetTheorems, SequenceTheorems, TLAPS

LEMMA Least ==
    ASSUME NEW S \in SUBSET Nat, S # {}
    PROVE  \E i \in S : \A j \in S : i <= j
  <1>1. IsWellFoundedOn(OpToRel(<, Nat), Nat)
    BY NatLessThanWellFounded
  <1>2. PICK x \in S : \A y \in S : ~(<<y, x>> \in OpToRel(<, Nat))
    BY <1>1, WFMin
  <1>3. ASSUME NEW y \in S, y < x PROVE FALSE
    <2>1. <<y, x>> \in OpToRel(<, Nat)
      BY <1>3 DEF OpToRel
    <2> QED BY <1>2, <2>1
  <1>4. \A y \in S : x <= y
    BY <1>3
  <1> QED BY <1>4

\* There are no more pages than hooks.
LEMMA PagesBounded ==
    \A p \in Nat : p * PageSize \in Nat /\ p * PageSize >= p
  BY SetupAssumption

-----------------------------------------------------------------------------
Keys == {None, "supplied"} \cup Runs

HookRecord == [id: Nat, ours: BOOLEAN, secret: Keys]

\* The list of hooks: their ids have been given out, in the order of the list.
HooksOK ==
    /\ hooks \in Seq(HookRecord)
    /\ next_id \in Nat \ {0}
    /\ \A i \in 1..Len(hooks) : hooks[i].id \in 1..next_id - 1
    /\ \A i, j \in 1..Len(hooks) : i < j => hooks[i].id < hooks[j].id

\* A hook that a run has found has the URL, if it is still there.
Owned ==
    \A r \in Runs : \A i \in 1..Len(hooks) : hooks[i].id = found[r] => hooks[i].ours

\* A request is under way from its sending to its answer.
Flow ==
    \A r \in Runs :
        /\ r \in requests => at[r] \in {"waiting", "failed"}
        /\ at[r] \in {"idle", "listing", "writing"} \/ r \in requests => replies[r] = None
        /\ at[r] = "idle" => page[r] = 1
        /\ at[r] = "done" => replies[r] = "ok"

SetupBase == SetupTypeOK /\ HooksOK /\ Owned /\ Flow

LEMMA FirstIsMine ==
    ASSUME HooksOK, NEW r \in Runs, Mine(r) # {}
    PROVE  First(r) \in Mine(r) /\ First(r) \in 1..Len(hooks) /\ hooks[First(r)].ours
  <1>1. Mine(r) \subseteq 1..Len(hooks)
    BY DEF HooksOK, Mine, Ours
  <1>2. \E i \in Mine(r) : \A j \in Mine(r) : i <= j
    BY <1>1, Least
  <1>3. First(r) \in Mine(r)
    BY <1>2 DEF First
  <1> QED BY <1>1, <1>3 DEF Mine, Ours

\* What appending a hook does to the list.
LEMMA Appended ==
    ASSUME HooksOK, NEW h \in HookRecord, h.id = next_id,
           hooks' = Append(hooks, h), next_id' = next_id + 1
    PROVE  /\ HooksOK' /\ Len(hooks') = Len(hooks) + 1
           /\ \A i \in 1..Len(hooks) : hooks'[i] = hooks[i]
           /\ hooks'[Len(hooks) + 1] = h
  <1>1. /\ hooks' \in Seq(HookRecord) /\ Len(hooks') = Len(hooks) + 1 /\ Len(hooks) \in Nat
        /\ \A i \in 1..Len(hooks) : hooks'[i] = hooks[i]
        /\ hooks'[Len(hooks) + 1] = h
    BY DEF HooksOK
  <1>2. next_id' \in Nat \ {0}
    BY DEF HooksOK
  <1>3. ASSUME NEW i \in 1..Len(hooks') PROVE hooks'[i].id \in 1..next_id' - 1
    <2>1. CASE i \in 1..Len(hooks)
      BY <1>1, <2>1 DEF HooksOK
    <2>2. CASE i = Len(hooks) + 1
      BY <1>1, <2>2 DEF HooksOK
    <2> QED BY <1>1, <2>1, <2>2
  <1>4. ASSUME NEW i \in 1..Len(hooks'), NEW j \in 1..Len(hooks'), i < j
        PROVE  hooks'[i].id < hooks'[j].id
    <2>1. i \in 1..Len(hooks) /\ hooks'[i] = hooks[i]
      BY <1>1, <1>4
    <2>2. CASE j \in 1..Len(hooks)
      BY <1>1, <1>4, <2>1, <2>2 DEF HooksOK
    <2>3. CASE j = Len(hooks) + 1
      BY <1>1, <2>1, <2>3 DEF HooksOK
    <2> QED BY <1>1, <2>2, <2>3
  <1> QED BY <1>1, <1>2, <1>3, <1>4 DEF HooksOK

\* What replacing a hook by one with its id does to the list.
LEMMA Replaced ==
    ASSUME HooksOK, NEW k \in 1..Len(hooks), NEW h \in HookRecord, h.id = hooks[k].id,
           hooks' = [hooks EXCEPT ![k] = h], next_id' = next_id
    PROVE  /\ HooksOK' /\ Len(hooks') = Len(hooks)
           /\ \A i \in 1..Len(hooks) : hooks'[i] = IF i = k THEN h ELSE hooks[i]
  <1>1. /\ hooks' \in Seq(HookRecord) /\ Len(hooks') = Len(hooks)
        /\ \A i \in 1..Len(hooks) : hooks'[i] = IF i = k THEN h ELSE hooks[i]
    BY DEF HooksOK
  <1>2. \A i \in 1..Len(hooks) : hooks'[i].id = hooks[i].id
    BY <1>1
  <1> QED BY <1>1, <1>2 DEF HooksOK

\* Where a hook was before another was removed.
Before(j, k) == IF j < k THEN j ELSE j + 1

\* What removing a hook does to the list.
LEMMA Removed ==
    ASSUME HooksOK, NEW k \in 1..Len(hooks), next_id' = next_id,
           hooks' = [j \in 1..Len(hooks) - 1 |-> hooks[IF j < k THEN j ELSE j + 1]]
    PROVE  /\ HooksOK' /\ Len(hooks') = Len(hooks) - 1
           /\ \A j \in 1..Len(hooks') :
                Before(j, k) \in 1..Len(hooks) /\ hooks'[j] = hooks[Before(j, k)]
  <1>1. Len(hooks) - 1 \in Nat /\ Len(hooks) \in Nat
    BY DEF HooksOK
  <1>2. \A j \in 1..Len(hooks) - 1 : Before(j, k) \in 1..Len(hooks)
    BY <1>1 DEF Before
  <1>3. hooks' = [j \in 1..Len(hooks) - 1 |-> hooks[Before(j, k)]]
    BY DEF Before
  <1>4. \A j \in 1..Len(hooks) - 1 : hooks[Before(j, k)] \in HookRecord
    BY <1>2 DEF HooksOK
  <1>5. hooks' \in Seq(HookRecord) /\ Len(hooks') = Len(hooks) - 1
    <2> DEFINE n == Len(hooks) - 1
               old(j) == hooks[Before(j, k)]
    <2>1. n \in Nat /\ (\A j \in 1..n : old(j) \in HookRecord)
      BY <1>1, <1>4
    <2>2. hooks' = [j \in 1..n |-> old(j)]
      BY <1>3
    <2> HIDE DEF n, old
    <2>3. hooks' \in [1..n -> HookRecord]
      BY <2>1, <2>2
    <2>4. hooks' \in Seq(HookRecord)
      BY <2>1, <2>3, SeqDef
    <2>5. Len(hooks') \in Nat /\ 1..Len(hooks') = 1..n
      BY <2>3, <2>4, LenProperties
    <2>6. Len(hooks') = n
      BY <2>1, <2>5
    <2> QED BY <2>4, <2>6 DEF n
  <1>6. \A j \in 1..Len(hooks') : hooks'[j] = hooks[Before(j, k)]
    BY <1>3, <1>5
  <1>7. \A i, j \in 1..Len(hooks') : i < j => Before(i, k) < Before(j, k)
    BY <1>1, <1>5 DEF Before
  <1>8. \A j \in 1..Len(hooks') : hooks'[j].id \in 1..next_id' - 1
    BY <1>2, <1>5, <1>6 DEF HooksOK
  <1>9. ASSUME NEW i \in 1..Len(hooks'), NEW j \in 1..Len(hooks'), i < j
        PROVE  hooks'[i].id < hooks'[j].id
    <2>1. /\ Before(i, k) \in 1..Len(hooks) /\ Before(j, k) \in 1..Len(hooks)
          /\ Before(i, k) < Before(j, k)
      BY <1>2, <1>5, <1>7, <1>9
    <2>2. hooks[Before(i, k)].id < hooks[Before(j, k)].id
      BY <2>1 DEF HooksOK
    <2> QED BY <1>6, <2>2
  <1> QED BY <1>2, <1>5, <1>6, <1>8, <1>9 DEF HooksOK

LEMMA HooksDomain == HooksOK => DOMAIN hooks = 1..Len(hooks) /\ Len(hooks) \in Nat
  BY DEF HooksOK

LEMMA SetupBaseInit == Init => SetupBase
  <1> SUFFICES ASSUME Init PROVE SetupBase
    OBVIOUS
  <1> USE SetupAssumption
  <1>1. PICK n \in 0..MaxHooks - 1 :
          hooks = [i \in 1..n |-> Hook(i, FALSE, None)] /\ next_id = n + 1
    BY DEF Init
  <1>2. /\ hooks \in Seq(HookRecord) /\ Len(hooks) = n
        /\ \A i \in 1..n : hooks[i].id = i
    BY <1>1 DEF Hook, HookRecord, Keys
  <1>3. HooksOK
    <2>1. next_id \in Nat \ {0} /\ n \in Nat
      BY <1>1
    <2>2. ASSUME NEW i \in 1..Len(hooks) PROVE hooks[i].id \in 1..next_id - 1
      <3>1. hooks[i].id = i /\ i \in 1..n /\ next_id = n + 1
        BY <1>1, <1>2
      <3> QED BY <2>1, <3>1
    <2>3. \A i, j \in 1..Len(hooks) : i < j => hooks[i].id < hooks[j].id
      BY <1>2, <2>1
    <2> QED BY <1>2, <2>1, <2>2, <2>3 DEF HooksOK
  <1>4. SetupTypeOK
    <2>1. page \in [Runs -> 1..MaxHooks + 1] /\ Len(hooks) <= MaxHooks
      BY <1>1, <1>2 DEF Init
    <2> QED BY <1>3, <2>1, HooksDomain DEF Init, SetupTypeOK, HooksOK
  <1>5. Owned
    <2>1. \A i \in 1..Len(hooks) : hooks[i].id # None
      BY <1>3 DEF HooksOK
    <2> QED BY <2>1 DEF Init, Owned
  <1>6. Flow
    BY DEF Init, Flow
  <1> QED BY <1>3, <1>4, <1>5, <1>6 DEF SetupBase

LEMMA SetupBaseStep == SetupBase /\ [Next]_vars => SetupBase'
  <1> SUFFICES ASSUME SetupBase, [Next]_vars PROVE SetupBase'
    OBVIOUS
  <1> USE SetupAssumption DEF SetupBase
  <1>d. DOMAIN hooks = 1..Len(hooks) /\ Len(hooks) \in Nat
    BY HooksDomain
  <1>e. HooksOK' => DOMAIN hooks' = 1..Len(hooks') /\ Len(hooks') \in Nat
    BY DEF HooksOK
  <1>1. ASSUME NEW r \in Runs, NEW key \in {"supplied", r}, Begin(r, key) PROVE SetupBase'
    BY <1>1 DEF Begin, Goto, githubVars, SetupTypeOK, HooksOK, Owned, Flow
  <1>2. ASSUME NEW r \in Runs, List(r) PROVE SetupBase'
    <2>1. UNCHANGED <<secret, githubVars, last, disturbed>> /\ at[r] = "listing"
      BY <1>2 DEF List
    <2>2. CASE Mine(r) # {} /\ Stop(r, hook_id(r))
      <3>1. hook_id(r) \in 1..next_id - 1
            /\ \A i \in 1..Len(hooks) : hooks[i].id = hook_id(r) => hooks[i].ours
        <4>1. /\ First(r) \in 1..Len(hooks) /\ hooks[First(r)].ours
              /\ hook_id(r) = hooks[First(r)].id
          BY <2>2, FirstIsMine DEF hook_id
        <4>2. ASSUME NEW i \in 1..Len(hooks), hooks[i].id = hook_id(r) PROVE i = First(r)
          <5>1. ~(i < First(r)) /\ ~(First(r) < i)
            BY <4>1, <4>2 DEF HooksOK
          <5> QED BY <4>1, <5>1
        <4> QED BY <4>1, <4>2 DEF HooksOK
      <3> QED BY <2>1, <2>2, <3>1 DEF Stop, Goto, githubVars, SetupTypeOK, HooksOK, Owned, Flow
    <2>3. CASE link_next(r) /\ TurnPage(r)
      <3>1. page[r] + 1 \in 1..MaxHooks + 1
        <4>1. page[r] \in Nat /\ page[r] >= 1
          BY DEF SetupTypeOK
        <4>2. Len(hooks) \in Nat /\ Len(hooks) <= MaxHooks
          BY <1>d DEF SetupTypeOK
        <4> DEFINE seen == page[r] * PageSize
        <4>3. seen \in Nat /\ seen >= page[r]
          BY <4>1, PagesBounded
        <4>4. Len(hooks) > seen
          BY <2>3 DEF link_next
        <4> HIDE DEF seen
        <4> QED BY <4>1, <4>2, <4>3, <4>4, SetupAssumption
      <3> QED BY <2>1, <2>3, <3>1 DEF TurnPage, githubVars, SetupTypeOK, HooksOK, Owned, Flow
    <2>4. CASE Stop(r, None)
      <3>1. \A i \in 1..Len(hooks) : hooks[i].id # None
        BY DEF HooksOK
      <3> QED BY <2>1, <2>4, <3>1 DEF Stop, Goto, githubVars, SetupTypeOK, HooksOK, Owned, Flow
    <2> QED BY <1>2, <2>2, <2>3, <2>4 DEF List
  <1>3. ASSUME NEW r \in Runs, Write(r) PROVE SetupBase'
    BY <1>3 DEF Write, Goto, SetupTypeOK, HooksOK, Owned, Flow
  <1>4. ASSUME NEW r \in Runs, Return(r) PROVE SetupBase'
    BY <1>4 DEF Return, Goto, githubVars, SetupTypeOK, HooksOK, Owned, Flow
  <1>5. ASSUME NEW r \in Runs, Fail(r) PROVE SetupBase'
    BY <1>5 DEF Fail, Goto, githubVars, SetupTypeOK, HooksOK, Owned, Flow
  <1>6. ASSUME NEW r \in Runs, Create(r) PROVE SetupBase'
    <2>1. /\ hooks' = Append(hooks, Hook(next_id, TRUE, secret[r]))
          /\ next_id' = next_id + 1 /\ Len(hooks) < MaxHooks /\ Answer(r, "ok")
          /\ r \in requests
      BY <1>6 DEF Create
    <2> DEFINE h == Hook(next_id, TRUE, secret[r])
    <2>2. h \in HookRecord /\ h.id = next_id /\ h.ours
      BY DEF Hook, SetupTypeOK, HooksOK, HookRecord, Keys
    <2>3. /\ HooksOK' /\ Len(hooks') = Len(hooks) + 1
          /\ \A i \in 1..Len(hooks) : hooks'[i] = hooks[i]
          /\ hooks'[Len(hooks) + 1].ours
      BY <2>1, <2>2, Appended
    <2>4. SetupTypeOK'
      <3>1. Len(hooks') <= MaxHooks
        BY <2>1, <2>3, <1>d, <1>e DEF SetupTypeOK
      <3>2. found' \in [Runs -> {None} \cup 1..next_id' - 1]
        BY <2>1, <2>3 DEF Answer, runVars, SetupTypeOK, HooksOK
      <3>3. \A i, j \in DOMAIN hooks' : i < j => hooks'[i].id < hooks'[j].id
        BY <2>3, <1>e DEF HooksOK
      <3> QED BY <2>1, <2>3, <3>1, <3>2, <3>3 DEF Answer, runVars, SetupTypeOK
    <2>5. Owned'
      <3>1. ASSUME NEW q \in Runs, NEW i \in 1..Len(hooks'), hooks'[i].id = found'[q]
            PROVE  hooks'[i].ours
        <4>1. found' = found
          BY <2>1 DEF Answer, runVars
        <4>2. CASE i \in 1..Len(hooks)
          BY <2>3, <3>1, <4>1, <4>2 DEF Owned
        <4>3. CASE i = Len(hooks) + 1
          BY <2>3, <4>3
        <4> QED BY <2>3, <1>d, <4>2, <4>3
      <3> QED BY <3>1 DEF Owned
    <2>6. Flow'
      BY <2>1 DEF Answer, runVars, Flow, SetupTypeOK
    <2> QED BY <2>3, <2>4, <2>5, <2>6
  <1>7. ASSUME NEW r \in Runs, Update(r) PROVE SetupBase'
    <2>1. PICK k \in 1..Len(hooks) :
            hooks[k].id = found[r] /\ hooks' = [hooks EXCEPT ![k] = Hook(found[r], TRUE, secret[r])]
      BY <1>7, <1>d DEF Update
    <2>2. r \in requests /\ next_id' = next_id /\ Answer(r, "ok")
      BY <1>7 DEF Update
    <2> DEFINE h == Hook(found[r], TRUE, secret[r])
    <2>3. h \in HookRecord /\ h.id = hooks[k].id /\ h.ours
      BY <2>1 DEF Hook, SetupTypeOK, HooksOK, HookRecord, Keys
    <2>4. /\ HooksOK' /\ Len(hooks') = Len(hooks)
          /\ \A i \in 1..Len(hooks) : hooks'[i] = IF i = k THEN h ELSE hooks[i]
      BY <2>1, <2>2, <2>3, Replaced
    <2> HIDE DEF h
    <2>5. SetupTypeOK'
      BY <2>2, <2>4, <1>d, <1>e DEF Answer, runVars, SetupTypeOK, HooksOK
    <2>6. Owned'
      BY <2>2, <2>3, <2>4 DEF Answer, runVars, Owned
    <2>7. Flow'
      BY <2>2 DEF Answer, runVars, Flow, SetupTypeOK
    <2> QED BY <2>4, <2>5, <2>6, <2>7
  <1>8. ASSUME NEW r \in Runs, Reject(r) PROVE SetupBase'
    BY <1>8 DEF Reject, Answer, runVars, SetupTypeOK, HooksOK, Owned, Flow
  <1>9. CASE Add
    <2>1. /\ hooks' = Append(hooks, Hook(next_id, FALSE, None)) /\ next_id' = next_id + 1
          /\ Len(hooks) < MaxHooks - 1
          /\ UNCHANGED <<runVars, requests, replies, last, disturbed>>
      BY <1>9 DEF Add
    <2> DEFINE h == Hook(next_id, FALSE, None)
    <2>2. h \in HookRecord /\ h.id = next_id
      BY DEF Hook, HooksOK, HookRecord, Keys
    <2>3. /\ HooksOK' /\ Len(hooks') = Len(hooks) + 1
          /\ \A i \in 1..Len(hooks) : hooks'[i] = hooks[i]
          /\ hooks'[Len(hooks) + 1].id = next_id
      BY <2>1, <2>2, Appended
    <2>4. SetupTypeOK'
      <3>1. Len(hooks') <= MaxHooks
        BY <2>1, <2>3, <1>d, <1>e DEF SetupTypeOK
      <3>2. found' \in [Runs -> {None} \cup 1..next_id' - 1]
        BY <2>1, <2>3 DEF runVars, SetupTypeOK, HooksOK
      <3>3. \A i, j \in DOMAIN hooks' : i < j => hooks'[i].id < hooks'[j].id
        BY <2>3, <1>e DEF HooksOK
      <3> QED BY <2>1, <2>3, <3>1, <3>2, <3>3 DEF runVars, SetupTypeOK
    <2>5. \A r \in Runs : found[r] # next_id
      BY DEF SetupTypeOK, HooksOK
    <2>6. Owned'
      <3>1. ASSUME NEW q \in Runs, NEW i \in 1..Len(hooks'), hooks'[i].id = found'[q]
            PROVE  hooks'[i].ours
        <4>1. found' = found
          BY <2>1 DEF runVars
        <4>2. CASE i \in 1..Len(hooks)
          BY <2>3, <3>1, <4>1, <4>2 DEF Owned
        <4>3. CASE i = Len(hooks) + 1
          BY <2>3, <2>5, <3>1, <4>1, <4>3
        <4> QED BY <2>3, <1>d, <4>2, <4>3
      <3> QED BY <3>1 DEF Owned
    <2>7. Flow'
      BY <2>1 DEF runVars, Flow
    <2> QED BY <2>3, <2>4, <2>6, <2>7
  <1>10. CASE Remove
    <2>1. PICK k \in 1..Len(hooks) :
            hooks' = [j \in 1..Len(hooks) - 1 |-> hooks[IF j < k THEN j ELSE j + 1]]
      BY <1>10, <1>d DEF Remove
    <2>2. UNCHANGED <<runVars, next_id, requests, replies, last>> /\ disturbed' \in BOOLEAN
      BY <1>10 DEF Remove, SetupTypeOK
    <2>3. /\ HooksOK' /\ Len(hooks') = Len(hooks) - 1
          /\ \A j \in 1..Len(hooks') :
               Before(j, k) \in 1..Len(hooks) /\ hooks'[j] = hooks[Before(j, k)]
      BY <2>1, <2>2, Removed
    <2>4. SetupTypeOK'
      <3>1. Len(hooks') <= MaxHooks
        BY <2>2, <2>3, <1>d, <1>e DEF SetupTypeOK
      <3>2. found' \in [Runs -> {None} \cup 1..next_id' - 1]
        BY <2>2, <2>3 DEF runVars, SetupTypeOK, HooksOK
      <3>3. \A i, j \in DOMAIN hooks' : i < j => hooks'[i].id < hooks'[j].id
        BY <2>3, <1>e DEF HooksOK
      <3> QED BY <2>2, <2>3, <3>1, <3>2, <3>3 DEF runVars, SetupTypeOK
    <2>5. Owned'
      BY <2>2, <2>3 DEF runVars, Owned
    <2>6. Flow'
      BY <2>2 DEF runVars, Flow
    <2> QED BY <2>3, <2>4, <2>5, <2>6
  <1>11. CASE UNCHANGED vars
    BY <1>11 DEF vars, runVars, githubVars, SetupTypeOK, HooksOK, Owned, Flow
  <1> QED BY <1>1, <1>2, <1>3, <1>4, <1>5, <1>6, <1>7, <1>8, <1>9, <1>10, <1>11
          DEF Next, Run, GitHub

-----------------------------------------------------------------------------
(* As long as nothing has been disturbed, only the last run is at work.    *)

Alone == \A r \in Runs : Active(r) => r = last

Single == \A i, j \in Ours : i = j

\* No hook of theirs is on a page already read.
Ahead == \A r \in Runs : at[r] = "listing" => \A i \in Ours : i > (page[r] - 1) * PageSize

\* What a run is about to write to is what there is.
Right ==
    \A r \in Runs : at[r] = "writing" \/ r \in requests =>
        IF found[r] = None THEN Ours = {} ELSE \E i \in Ours : hooks[i].id = found[r]

\* Once the last run's request has been carried out, its secret is in force.
Live ==
    last # None /\ replies[last] = "ok" =>
        Ours # {} /\ \A i \in Ours : hooks[i].secret = secret[last]

Calm == ~disturbed => Alone /\ Single /\ Ahead /\ Right /\ Live

SetupInv == SetupBase /\ Calm

LEMMA CalmInit == Init => Calm
  <1> SUFFICES ASSUME Init PROVE Calm
    OBVIOUS
  <1>1. Ours = {}
    BY DEF Init, Ours, Hook
  <1>2. Alone
    BY DEF Init, Alone, Active
  <1> QED BY <1>1, <1>2 DEF Init, Calm, Single, Ahead, Right, Live

LEMMA CalmStep == SetupBase /\ SetupBase' /\ Calm /\ [Next]_vars => Calm'
  <1> SUFFICES ASSUME SetupBase, SetupBase', Calm, [Next]_vars, ~disturbed'
               PROVE  (Alone /\ Single /\ Ahead /\ Right /\ Live)'
    BY DEF Calm
  <1> USE SetupAssumption
  <1>0. ~disturbed
    BY DEF Next, Run, Begin, List, Write, Return, Fail, GitHub, Create, Update, Reject, Add,
           Remove, Answer, vars, SetupBase, SetupTypeOK
  <1>a. Alone /\ Single /\ Ahead /\ Right /\ Live
    BY <1>0 DEF Calm
  <1>b. /\ Ours = {i \in 1..Len(hooks) : hooks[i].ours}
        /\ Ours' = {i \in 1..Len(hooks') : hooks'[i].ours}
        /\ Len(hooks) \in Nat /\ DOMAIN hooks = 1..Len(hooks)
    BY DEF SetupBase, HooksOK, Ours
  <1>c. UNCHANGED hooks => UNCHANGED Ours
    BY DEF Ours
  <1>1. ASSUME NEW r \in Runs, NEW key \in {"supplied", r}, Begin(r, key)
        PROVE  (Alone /\ Single /\ Ahead /\ Right /\ Live)'
    <2>1. (\A q \in Runs : ~Active(q)) /\ r \notin requests /\ replies[r] = None /\ page[r] = 1
      BY <1>1 DEF Begin, SetupBase, Flow
    <2>2. UNCHANGED <<page, found, hooks, requests, replies, Ours>> /\ last' = r
          /\ at[r] = "idle" /\ at' = [at EXCEPT ![r] = "listing"]
      BY <1>1, <1>c DEF Begin, Goto, githubVars
    <2>3. \A q \in Runs : at'[q] = (IF q = r THEN "listing" ELSE at[q])
      BY <2>2 DEF SetupBase, SetupTypeOK
    <2>4. Alone'
      BY <2>1, <2>2, <2>3 DEF Alone, Active
    <2>5. Single'
      BY <1>a, <2>2 DEF Single
    <2>6. Ahead'
      <3>1. \A i \in Ours : i > (page[r] - 1) * PageSize
        BY <2>1, <1>b
      <3> QED BY <2>1, <2>2, <2>3, <3>1 DEF Ahead, Active
    <2>7. Right'
      BY <2>1, <2>2, <2>3 DEF Right, Active
    <2>8. Live'
      BY <2>1, <2>2 DEF Live
    <2> QED BY <2>4, <2>5, <2>6, <2>7, <2>8
  <1>2. ASSUME NEW r \in Runs, List(r) PROVE (Alone /\ Single /\ Ahead /\ Right /\ Live)'
    <2>1. /\ UNCHANGED <<secret, hooks, next_id, requests, replies, last, disturbed, Ours>>
          /\ at[r] = "listing" /\ r \notin requests
      BY <1>2, <1>c DEF List, githubVars, SetupBase, Flow
    <2>2. Single' /\ Live'
      BY <1>a, <2>1 DEF Single, Live
    <2>3. CASE Stop(r, hook_id(r)) /\ Mine(r) # {}
      <3>1. First(r) \in Ours /\ hooks[First(r)].id # None
        BY <2>3, <1>b, FirstIsMine DEF SetupBase, HooksOK
      <3>2. found' = [found EXCEPT ![r] = hooks[First(r)].id] /\ UNCHANGED page
            /\ at' = [at EXCEPT ![r] = "writing"]
        BY <2>3 DEF Stop, Goto, hook_id
      <3>3. Alone'
        BY <1>a, <2>1, <3>2 DEF Alone, Active, SetupBase, SetupTypeOK
      <3>4. Ahead'
        BY <1>a, <2>1, <3>2 DEF Ahead, SetupBase, SetupTypeOK
      <3>5. Right'
        BY <1>a, <2>1, <3>1, <3>2 DEF Right, SetupBase, SetupTypeOK
      <3> QED BY <2>2, <3>3, <3>4, <3>5
    <2>4. CASE TurnPage(r) /\ Mine(r) = {}
      <3>1. page' = [page EXCEPT ![r] = @ + 1] /\ UNCHANGED <<at, found>>
        BY <2>4 DEF TurnPage
      <3>2. ASSUME NEW i \in Ours PROVE i > page[r] * PageSize
        <4>1. i > (page[r] - 1) * PageSize /\ i \in Nat
          BY <1>a, <1>b, <2>1 DEF Ahead
        <4>2. i \notin OnPage(r)
          BY <2>4 DEF Mine
        <4>3. ~(i <= page[r] * PageSize)
          BY <4>1, <4>2, <1>b DEF OnPage
        <4>4. page[r] * PageSize \in Int
          BY DEF SetupBase, SetupTypeOK
        <4> QED BY <4>1, <4>3, <4>4
      <3>3. page'[r] - 1 = page[r]
        BY <3>1 DEF SetupBase, SetupTypeOK
      <3>4. Ahead'
        BY <1>a, <2>1, <3>1, <3>2, <3>3 DEF Ahead, SetupBase, SetupTypeOK
      <3>5. Alone' /\ Right'
        BY <1>a, <2>1, <3>1 DEF Alone, Active, Right
      <3> QED BY <2>2, <3>4, <3>5
    <2>5. CASE Stop(r, None) /\ Mine(r) = {} /\ ~link_next(r)
      <3>1. ASSUME NEW i \in Ours PROVE FALSE
        <4>1. i > (page[r] - 1) * PageSize /\ i \in 1..Len(hooks)
          BY <1>a, <1>b, <2>1 DEF Ahead
        <4>2. page[r] * PageSize \in Int /\ ~(Len(hooks) > page[r] * PageSize)
          BY <2>5 DEF link_next, SetupBase, SetupTypeOK
        <4>3. i <= page[r] * PageSize
          BY <4>1, <4>2, <1>b
        <4> QED BY <2>5, <4>1, <4>3, <1>b DEF Mine, OnPage
      <3>2. found' = [found EXCEPT ![r] = None] /\ UNCHANGED page
            /\ at' = [at EXCEPT ![r] = "writing"]
        BY <2>5 DEF Stop, Goto
      <3>3. Alone'
        BY <1>a, <2>1, <3>2 DEF Alone, Active, SetupBase, SetupTypeOK
      <3>4. Ahead'
        BY <1>a, <2>1, <3>2 DEF Ahead, SetupBase, SetupTypeOK
      <3>5. Right'
        BY <1>a, <2>1, <3>1, <3>2 DEF Right, SetupBase, SetupTypeOK
      <3> QED BY <2>2, <3>3, <3>4, <3>5
    <2> QED BY <1>2, <2>3, <2>4, <2>5 DEF List
  <1>3. ASSUME NEW r \in Runs, Write(r) \/ Return(r) \/ Fail(r)
        PROVE  (Alone /\ Single /\ Ahead /\ Right /\ Live)'
    <2>1. UNCHANGED <<page, found, secret, hooks, replies, last, Ours>>
      BY <1>3, <1>c DEF Write, Return, Fail, githubVars
    <2>2. \E s \in {"waiting", "done", "failed"} : at' = [at EXCEPT ![r] = s]
      BY <1>3 DEF Write, Return, Fail, Goto
    <2>3. \/ at[r] = "writing" /\ requests' = requests \cup {r}
          \/ at[r] \in {"listing", "writing", "waiting"} /\ requests' = requests
      BY <1>3 DEF Write, Return, Fail, githubVars
    <2>4. Alone'
      BY <1>a, <2>1, <2>2, <2>3 DEF Alone, Active, SetupBase, SetupTypeOK
    <2>5. Ahead'
      BY <1>a, <2>1, <2>2 DEF Ahead, SetupBase, SetupTypeOK
    <2>6. Right'
      BY <1>a, <2>1, <2>2, <2>3 DEF Right, SetupBase, SetupTypeOK
    <2>7. Single' /\ Live'
      BY <1>a, <2>1 DEF Single, Live
    <2> QED BY <2>4, <2>5, <2>6, <2>7
  <1>4. ASSUME NEW r \in Runs, NEW reply \in {"ok", "error"}, r \in requests, Answer(r, reply)
        PROVE  /\ last' = r /\ UNCHANGED <<at, page, found, secret>> /\ Alone'
               /\ replies'[r] = reply
               /\ \A q \in Runs :
                    at'[q] \notin {"listing", "writing"} /\ q \notin requests'
    <2>1. /\ requests' = requests \ {r} /\ replies' = [replies EXCEPT ![r] = reply]
          /\ UNCHANGED <<at, page, found, secret, last>>
      BY <1>4 DEF Answer, runVars
    <2>2. r = last /\ at[r] \in {"waiting", "failed"}
      BY <1>a, <1>4 DEF Alone, Active, SetupBase, Flow
    <2>3. \A q \in Runs : q # r => ~Active(q)
      BY <1>a, <2>2 DEF Alone
    <2> QED BY <2>1, <2>2, <2>3, <1>4 DEF Alone, Active, SetupBase, SetupTypeOK
  <1>5. ASSUME NEW r \in Runs, Create(r) PROVE (Alone /\ Single /\ Ahead /\ Right /\ Live)'
    <2>1. /\ hooks' = Append(hooks, Hook(next_id, TRUE, secret[r])) /\ Answer(r, "ok")
          /\ r \in requests /\ found[r] = None
      BY <1>5 DEF Create
    <2>2. /\ last' = r /\ UNCHANGED <<at, page, found, secret>> /\ Alone'
          /\ replies'[r] = "ok"
          /\ \A q \in Runs : at'[q] \notin {"listing", "writing"} /\ q \notin requests'
      BY <2>1, <1>4
    <2>3. Ours = {}
      BY <1>a, <2>1 DEF Right
    <2>4. Len(hooks') = Len(hooks) + 1 /\ (\A i \in 1..Len(hooks) : hooks'[i] = hooks[i])
          /\ hooks'[Len(hooks) + 1].ours /\ hooks'[Len(hooks) + 1].secret = secret[r]
      BY <2>1 DEF SetupBase, HooksOK, Hook
    <2>5. Ours' = {Len(hooks) + 1}
      BY <1>b, <2>3, <2>4
    <2> QED BY <2>2, <2>4, <2>5 DEF Single, Ahead, Right, Live
  <1>6. ASSUME NEW r \in Runs, Update(r) PROVE (Alone /\ Single /\ Ahead /\ Right /\ Live)'
    <2>1. PICK k \in 1..Len(hooks) :
            hooks[k].id = found[r] /\ hooks' = [hooks EXCEPT ![k] = Hook(found[r], TRUE, secret[r])]
      BY <1>6, <1>b DEF Update
    <2>2. r \in requests /\ Answer(r, "ok")
      BY <1>6 DEF Update
    <2>3. /\ last' = r /\ UNCHANGED <<at, page, found, secret>> /\ Alone'
          /\ replies'[r] = "ok"
          /\ \A q \in Runs : at'[q] \notin {"listing", "writing"} /\ q \notin requests'
      BY <2>2, <1>4
    <2>4. hooks[k].ours
      BY <2>1 DEF SetupBase, Owned
    <2> DEFINE h == Hook(found[r], TRUE, secret[r])
    <2>5. h.ours /\ h.secret = secret[r] /\ hooks' = [hooks EXCEPT ![k] = h]
      BY <2>1 DEF Hook
    <2> HIDE DEF h
    <2>6. /\ Len(hooks') = Len(hooks)
          /\ \A i \in 1..Len(hooks) : hooks'[i] = IF i = k THEN h ELSE hooks[i]
      BY <2>5 DEF SetupBase, HooksOK
    <2>7. Ours' = Ours /\ Ours = {k}
      BY <1>a, <1>b, <2>4, <2>5, <2>6 DEF Single
    <2>8. \A i \in Ours' : hooks'[i].secret = secret[r]
      BY <1>b, <2>5, <2>6, <2>7
    <2> QED BY <2>3, <2>7, <2>8 DEF Single, Ahead, Right, Live
  <1>7. ASSUME NEW r \in Runs, Reject(r) PROVE (Alone /\ Single /\ Ahead /\ Right /\ Live)'
    <2>1. UNCHANGED <<hooks, Ours>> /\ Answer(r, "error") /\ r \in requests
      BY <1>7, <1>c DEF Reject
    <2>2. /\ last' = r /\ UNCHANGED <<at, page, found, secret>> /\ Alone'
          /\ replies'[r] = "error"
          /\ \A q \in Runs : at'[q] \notin {"listing", "writing"} /\ q \notin requests'
      BY <2>1, <1>4
    <2> QED BY <1>a, <2>1, <2>2 DEF Single, Ahead, Right, Live
  <1>8. CASE Add
    <2>1. hooks' = Append(hooks, Hook(next_id, FALSE, None))
          /\ UNCHANGED <<at, page, found, secret, requests, replies, last>>
      BY <1>8 DEF Add, runVars
    <2>2. Len(hooks') = Len(hooks) + 1 /\ (\A i \in 1..Len(hooks) : hooks'[i] = hooks[i])
          /\ ~hooks'[Len(hooks) + 1].ours
      BY <2>1 DEF SetupBase, HooksOK, Hook
    <2>3. Ours' = Ours /\ \A i \in Ours : hooks'[i] = hooks[i]
      BY <1>b, <2>2
    <2>4. Alone' /\ Single' /\ Ahead'
      BY <1>a, <2>1, <2>3 DEF Alone, Active, Single, Ahead
    <2>5. Right' /\ Live'
      BY <1>a, <2>1, <2>3 DEF Right, Live
    <2> QED BY <2>4, <2>5
  <1>9. CASE Remove
    <2>1. PICK k \in 1..Len(hooks) :
            /\ hooks' = [j \in 1..Len(hooks) - 1 |-> hooks[IF j < k THEN j ELSE j + 1]]
            /\ disturbed' = (disturbed \/ k \in Ours
                               \/ \E r \in Runs : at[r] = "listing" /\ page[r] > 1)
      BY <1>9, <1>b DEF Remove
    <2>2. UNCHANGED <<at, page, found, secret, next_id, requests, replies, last>>
          /\ k \notin Ours /\ \A r \in Runs : at[r] = "listing" => ~(page[r] > 1)
      BY <1>9, <2>1 DEF Remove, runVars
    <2>3. /\ Len(hooks') = Len(hooks) - 1
          /\ \A j \in 1..Len(hooks') :
               Before(j, k) \in 1..Len(hooks) /\ hooks'[j] = hooks[Before(j, k)]
      BY <2>1, <2>2, Removed DEF SetupBase
    <2>4. \A j \in Ours' : Before(j, k) \in Ours /\ hooks'[j] = hooks[Before(j, k)]
      BY <1>b, <2>3
    <2>5. ASSUME NEW i \in Ours PROVE \E j \in Ours' : hooks'[j] = hooks[i]
      <3>1. i # k /\ i \in 1..Len(hooks)
        BY <2>2, <1>b
      <3>2. PICK j \in 1..Len(hooks) - 1 : Before(j, k) = i
        <4>1. CASE i < k
          BY <3>1, <4>1, <1>b DEF Before
        <4>2. CASE i > k
          <5>1. i - 1 \in 1..Len(hooks) - 1 /\ Before(i - 1, k) = i
            BY <3>1, <4>2, <1>b DEF Before
          <5> QED BY <5>1
        <4> QED BY <3>1, <4>1, <4>2
      <3> QED BY <1>b, <2>3, <3>2
    <2>6. Alone'
      BY <1>a, <2>2 DEF Alone, Active
    <2>7. Single'
      <3>1. \A i, j \in Ours' : Before(i, k) = Before(j, k)
        BY <1>a, <2>4 DEF Single
      <3> QED BY <3>1, <1>b DEF Before, Single
    <2>8. Ahead'
      <3>1. ASSUME NEW r \in Runs, at[r] = "listing" PROVE (page[r] - 1) * PageSize = 0
        <4>1. page[r] - 1 = 0
          BY <2>2, <3>1 DEF SetupBase, SetupTypeOK
        <4> QED BY <4>1
      <3> QED BY <2>2, <3>1, <1>b DEF Ahead
    <2>9. Right'
      BY <1>a, <2>2, <2>4, <2>5 DEF Right
    <2>10. Live'
      BY <1>a, <2>2, <2>4, <2>5 DEF Live
    <2> QED BY <2>6, <2>7, <2>8, <2>9, <2>10
  <1>10. CASE UNCHANGED vars
    <2>1. UNCHANGED <<at, page, found, secret, hooks, requests, replies, last, Ours>>
      BY <1>10, <1>c DEF vars, runVars, githubVars
    <2> QED BY <1>a, <2>1 DEF Alone, Active, Single, Ahead, Right, Live
  <1> QED BY <1>1, <1>2, <1>3, <1>5, <1>6, <1>7, <1>8, <1>9, <1>10 DEF Next, Run, GitHub

-----------------------------------------------------------------------------
LEMMA SetupInvariant == Spec => []SetupInv
  <1>1. Init => SetupInv
    BY SetupBaseInit, CalmInit DEF SetupInv
  <1>2. SetupInv /\ [Next]_vars => SetupInv'
    BY SetupBaseStep, CalmStep DEF SetupInv
  <1> QED BY <1>1, <1>2, PTL DEF Spec

\* Each variable holds what it should, and no id is given out twice.
THEOREM SetupTypesCorrect == Spec => []SetupTypeOK
  <1>1. SetupInv => SetupTypeOK
    BY DEF SetupInv, SetupBase
  <1> QED BY <1>1, SetupInvariant, PTL

\* Undisturbed runs of setup, however many, leave one webhook at most.
THEOREM OneHookHolds == Spec => []OneHook
  <1>1. SetupInv => OneHook
    <2> SUFFICES ASSUME Single PROVE Cardinality(Ours) <= 1
      BY DEF SetupInv, Calm, OneHook
    <2>1. CASE Ours = {}
      BY <2>1, FS_EmptySet
    <2>2. CASE Ours # {}
      <3>1. PICK i \in Ours : \A j \in Ours : j = i
        BY <2>2 DEF Single
      <3>2. Ours = {i}
        BY <3>1
      <3>3. Cardinality(Ours) = 1
        BY <3>2, FS_Singleton
      <3> QED BY <3>3
    <2> QED BY <2>1, <2>2
  <1> QED BY <1>1, SetupInvariant, PTL

\* The secret that the last run announced is the one in force.
THEOREM LastSecretHolds == Spec => []LastSecretIsLive
  <1>1. SetupInv => LastSecretIsLive
    <2> SUFFICES ASSUME SetupInv, ~disturbed, last # None, at[last] = "done"
                 PROVE  {hooks[i].secret : i \in Ours} = {secret[last]}
      BY DEF LastSecretIsLive
    <2>1. replies[last] = "ok"
      BY DEF SetupInv, SetupBase, SetupTypeOK, Flow
    <2>2. Ours # {} /\ \A i \in Ours : hooks[i].secret = secret[last]
      BY <2>1 DEF SetupInv, Calm, Live
    <2> QED BY <2>2
  <1> QED BY <1>1, SetupInvariant, PTL

\* No run, disturbed or not, writes to a webhook for another URL.
THEOREM OthersUntouchedHolds == Spec => OthersUntouched
  <1> DEFINE Kept == \A i \in DOMAIN hooks :
                       Len(hooks') >= Len(hooks) /\ ~hooks[i].ours => hooks'[i] = hooks[i]
  <1>1. SetupInv /\ [Next]_vars => [Kept]_vars
    <2> SUFFICES ASSUME SetupBase, [Next]_vars PROVE Kept
      BY DEF SetupInv
    <2>1. DOMAIN hooks = 1..Len(hooks) /\ Len(hooks) \in Nat
      BY HooksDomain DEF SetupBase
    <2>2. CASE UNCHANGED hooks
      BY <2>2
    <2>3. ASSUME NEW h, hooks' = Append(hooks, h) PROVE Kept
      BY <2>1, <2>3 DEF SetupBase, HooksOK
    <2>4. ASSUME NEW r \in Runs, Update(r) PROVE Kept
      <3>1. PICK k \in 1..Len(hooks) :
              /\ hooks[k].id = found[r]
              /\ hooks' = [hooks EXCEPT ![k] = Hook(found[r], TRUE, secret[r])]
        BY <2>1, <2>4 DEF Update
      <3>2. hooks[k].ours
        BY <3>1 DEF SetupBase, Owned
      <3> QED BY <2>1, <3>1, <3>2
    <2>5. CASE Remove
      <3>1. UNCHANGED next_id /\ \E k \in 1..Len(hooks) :
              hooks' = [j \in 1..Len(hooks) - 1 |-> hooks[IF j < k THEN j ELSE j + 1]]
        BY <2>1, <2>5 DEF Remove
      <3>2. Len(hooks') = Len(hooks) - 1
        BY <3>1, Removed DEF SetupBase
      <3>3. ~(Len(hooks') >= Len(hooks))
        BY <2>1, <3>2
      <3> QED BY <3>3
    <2>6. \/ UNCHANGED hooks \/ (\E h : hooks' = Append(hooks, h))
          \/ (\E r \in Runs : Update(r)) \/ Remove
      BY DEF Next, Run, Begin, List, Write, Return, Fail, GitHub, Create, Reject, Add,
             vars, githubVars
    <2> QED BY <2>2, <2>3, <2>4, <2>5, <2>6
  <1> QED BY <1>1, SetupInvariant, PTL DEF Spec, OthersUntouched
=============================================================================
