----------------------------- MODULE AuthProofs -----------------------------
(***************************************************************************)
(* Proofs about the authenticator for every set of keys and callers, every *)
(* time to live and every latency.                                         *)
(***************************************************************************)
EXTENDS Auth, TLAPS

\* An answer belongs to a call that is under way.
InFlight ==
    \A c \in Callers :
        /\ reply[c] # None => pc[c] # "idle"
        /\ pc[c] # "idle" => call[c] # None /\ answer[c] = None
        /\ answer[c] # None => call[c] # None

AuthBase == AuthTypeOK /\ InFlight

LEMMA BaseInit == Init => AuthBase
  <1> SUFFICES ASSUME Init PROVE AuthBase
    OBVIOUS
  <1>1. AuthTypeOK
    BY AuthAssumption DEF Init, AuthTypeOK
  <1>2. InFlight
    BY DEF Init, InFlight
  <1> QED BY <1>1, <1>2 DEF AuthBase

\* GitHub's changes touch nothing of a call but its history.
LEMMA RegrantCalls ==
    ASSUME AuthBase, NEW k \in Keys, NEW what \in {"none", "user", "repo"}, Regrant(k, what)
    PROVE  /\ call' \in [Callers -> CallRecord \cup {None}]
           /\ \A c \in Callers :
                /\ (call'[c] = None) <=> (call[c] = None)
                /\ call[c] # None =>
                     /\ call'[c].key = call[c].key /\ call'[c].since = call[c].since
                     /\ call'[c].fresh = call[c].fresh
                     /\ call'[c].warned \in {call[c].warned, "no"}
                     /\ what = "repo" /\ call[c].key = k => call'[c].warned = "no"
  <1>1. ASSUME NEW c \in Callers, call[c] # None
        PROVE  /\ call[c] \in CallRecord
               /\ [call[c] EXCEPT !.warned = "no"] \in CallRecord
               /\ [call[c] EXCEPT !.warned = "no"].key = call[c].key
               /\ [call[c] EXCEPT !.warned = "no"].since = call[c].since
               /\ [call[c] EXCEPT !.warned = "no"].fresh = call[c].fresh
               /\ [call[c] EXCEPT !.warned = "no"].warned = "no"
    <2>1. call[c] \in CallRecord
      BY <1>1 DEF AuthBase, AuthTypeOK
    <2> QED BY <2>1 DEF CallRecord
  <1>2. CASE what = "repo"
    <2>1. call' = [c \in Callers |-> IF Calls(c, k) THEN [call[c] EXCEPT !.warned = "no"]
                                     ELSE call[c]]
      BY <1>2 DEF Regrant
    <2> QED BY <2>1, <1>1, AuthAssumption DEF Calls, AuthBase, AuthTypeOK
  <1>3. CASE what # "repo"
    <2>1. call' = call
      BY <1>3 DEF Regrant
    <2> QED BY <2>1, <1>1, <1>3 DEF AuthBase, AuthTypeOK
  <1> QED BY <1>2, <1>3

LEMMA CallTypes ==
    ASSUME AuthBase, NEW c \in Callers, call[c] # None
    PROVE  call[c].key \in Keys /\ call[c].since \in Nat /\ call[c].fresh \in BOOLEAN
  BY DEF AuthBase, AuthTypeOK, CallRecord

LEMMA AnswerType ==
    ASSUME AuthTypeOK, NEW c \in Callers, NEW k \in Keys, NEW verdict \in Verdicts,
           Return(c, k, verdict)
    PROVE  /\ answer' \in [Callers -> [verdict: Verdicts, age: Int] \cup {None}]
           /\ denied' \in [Keys -> {"no", "overlap", "alone"}]
  <1>1. Age(k, verdict) \in Int
    BY DEF Age, AuthTypeOK
  <1>2. answer' \in [Callers -> [verdict: Verdicts, age: Int] \cup {None}]
    BY <1>1 DEF Return, AuthTypeOK
  <1>3. denied' \in [Keys -> {"no", "overlap", "alone"}]
    BY DEF Return, AuthTypeOK
  <1> QED BY <1>2, <1>3

LEMMA BaseStep == AuthBase /\ [Next]_vars => AuthBase'
  <1> SUFFICES ASSUME AuthBase, [Next]_vars PROVE AuthBase'
    OBVIOUS
  <1> USE AuthAssumption DEF AuthBase
  <1>1. CASE Tick
    BY <1>1 DEF Tick, callVars, AuthTypeOK, InFlight
  <1>2. ASSUME NEW k \in Keys, NEW what \in {"none", "user", "repo"}, Regrant(k, what)
        PROVE  AuthBase'
    <2>1. AuthTypeOK'
      <3>1. denied' \in [Keys -> {"no", "overlap", "alone"}] /\ changed' \in [Keys -> Int]
        BY <1>2 DEF Regrant, AuthTypeOK
      <3>2. grant' \in [Keys -> {"none", "user", "repo"}]
        BY <1>2 DEF Regrant, AuthTypeOK
      <3> QED BY <1>2, <3>1, <3>2, RegrantCalls DEF Regrant, AuthTypeOK
    <2>2. InFlight'
      <3>1. reply' = reply /\ pc' = pc /\ answer' = answer
        BY <1>2 DEF Regrant
      <3>2. \A c \in Callers : call[c] # None => call'[c] # None
        BY <1>2, RegrantCalls
      <3> QED BY <3>1, <3>2 DEF InFlight
    <2> QED BY <2>1, <2>2
  <1>3. ASSUME NEW c \in Callers, GitHubAnswers(c) PROVE AuthBase'
    BY <1>3 DEF GitHubAnswers, AuthTypeOK, InFlight, Verdicts
  <1>4. ASSUME NEW c \in Callers, Arrives(c) PROVE AuthBase'
    <2>1. AuthTypeOK'
      <3> DEFINE k == call[c].key
      <3>1. k \in Keys /\ reply[c] \in Verdicts
        BY <1>4 DEF Arrives, AuthTypeOK, InFlight, CallRecord
      <3>2. cache' \in [Keys -> [expires: Nat, verdict: {"ALLOWED", "DENIED"}] \cup {None}]
        BY <1>4, <3>1 DEF Arrives, Record, AuthTypeOK, Verdicts
      <3>3. /\ answer' \in [Callers -> [verdict: Verdicts, age: Int] \cup {None}]
            /\ denied' \in [Keys -> {"no", "overlap", "alone"}]
        BY <1>4, <3>1, AnswerType DEF Arrives, AuthTypeOK
      <3>4. /\ reply' \in [Callers -> Verdicts \cup {None}]
            /\ pc' \in [Callers -> {"idle", "user", "repo"}]
        BY <1>4 DEF Arrives, Return, AuthTypeOK
      <3> QED BY <1>4, <3>2, <3>3, <3>4 DEF Arrives, AuthTypeOK
    <2>2. InFlight'
      BY <1>4 DEF Arrives, Return, AuthTypeOK, InFlight
    <2> QED BY <2>1, <2>2
  <1>5. ASSUME NEW c \in Callers, NEW k \in Keys, NEW fresh \in BOOLEAN, Verify(c, k, fresh)
        PROVE  AuthBase'
    <2>1. AuthTypeOK'
      <3>1. call' \in [Callers -> CallRecord \cup {None}]
        BY <1>5 DEF Verify, AuthTypeOK, CallRecord
      <3>2. /\ answer' \in [Callers -> [verdict: Verdicts, age: Int] \cup {None}]
            /\ denied' \in [Keys -> {"no", "overlap", "alone"}]
        <4>1. Hit(k) => cache[k].verdict \in Verdicts
          BY DEF Hit, AuthTypeOK, Verdicts
        <4> QED BY <1>5, <4>1, AnswerType DEF Verify, AuthTypeOK
      <3>3. pc' \in [Callers -> {"idle", "user", "repo"}]
        BY <1>5 DEF Verify, Return, AuthTypeOK
      <3> QED BY <1>5, <3>1, <3>2, <3>3 DEF Verify, AuthTypeOK
    <2>2. InFlight'
      <3>1. /\ call'[c] # None /\ reply' = reply /\ pc[c] = "idle"
            /\ pc'[c] # "idle" => answer'[c] = None
            /\ \A d \in Callers \ {c} : /\ pc'[d] = pc[d] /\ call'[d] = call[d]
                                        /\ answer'[d] = answer[d]
        <4>1. /\ call' = [call EXCEPT ![c] = [key |-> k, fresh |-> fresh, since |-> now,
                                             warned |-> denied[k]]]
              /\ [key |-> k, fresh |-> fresh, since |-> now, warned |-> denied[k]] \in CallRecord
          BY <1>5 DEF Verify, AuthTypeOK, CallRecord
        <4> QED BY <1>5, <4>1 DEF Verify, Return, AuthTypeOK
      <3> QED BY <3>1 DEF InFlight
    <2> QED BY <2>1, <2>2
  <1>6. ASSUME NEW c \in Callers, Cancelled(c) PROVE AuthBase'
    BY <1>6 DEF Cancelled, AuthTypeOK, InFlight
  <1>7. CASE UNCHANGED vars
    BY <1>7 DEF vars, callVars, AuthTypeOK, InFlight
  <1> QED BY <1>1, <1>2, <1>3, <1>4, <1>5, <1>6, <1>7 DEF Next, Caller

-----------------------------------------------------------------------------
\* The last answer of a call whose verdict it will be.
Decided(c) == reply[c] = "DENIED" \/ (reply[c] = "ALLOWED" /\ pc[c] = "repo")

\* What a call has been answered was true at GitHub since it began.
CallsRecent ==
    \A c \in Callers : pc[c] # "idle" =>
        /\ now - call[c].since <= MaxLatency /\ call[c].since <= now
        /\ Decided(c) /\ reply[c] # Truth(call[c].key) => changed[call[c].key] >= call[c].since

\* What the cache holds was true when the call that recorded it was under way.
CacheRecent ==
    \A k \in Keys : cache[k] # None =>
        /\ cache[k].expires <= now + cache_ttl
        /\ cache[k].verdict # Truth(k) =>
             changed[k] >= cache[k].expires - cache_ttl - MaxLatency

Recent == CallsRecent /\ CacheRecent /\ AnswersRecent

LEMMA RecentInit == Init => Recent
  BY DEF Init, Recent, CallsRecent, CacheRecent, AnswersRecent

LEMMA RecentStep == AuthBase /\ Recent /\ [Next]_vars => Recent'
  <1> SUFFICES ASSUME AuthBase, Recent, [Next]_vars PROVE Recent'
    OBVIOUS
  <1> USE AuthAssumption DEF Recent
  <1>t. /\ now \in Nat /\ changed \in [Keys -> Int] /\ cache_ttl \in Nat /\ MaxLatency \in Nat
        /\ \A k \in Keys : cache[k] # None => cache[k].expires \in Nat
        /\ \A c \in Callers : pc[c] # "idle" =>
             call[c] # None /\ call[c].key \in Keys /\ call[c].since \in Nat
    BY CallTypes DEF AuthBase, AuthTypeOK, InFlight
  <1>1. CASE Tick
    <2>1. now' = now + 1 /\ UNCHANGED <<pc, call, reply, answer, grant, changed, cache>>
      BY <1>1 DEF Tick, callVars
    <2>2. \A c \in Callers : pc[c] # "idle" => now - call[c].since < MaxLatency
      BY <1>1 DEF Tick
    <2>3. CallsRecent'
      BY <1>t, <2>1, <2>2 DEF CallsRecent, Decided, Truth
    <2>4. CacheRecent'
      BY <1>t, <2>1 DEF CacheRecent, Truth
    <2>5. AnswersRecent'
      BY <2>1 DEF AnswersRecent
    <2> QED BY <2>3, <2>4, <2>5
  <1>2. ASSUME NEW k \in Keys, NEW what \in {"none", "user", "repo"}, Regrant(k, what)
        PROVE  Recent'
    <2>1. UNCHANGED <<now, cache, pc, reply, answer>>
      BY <1>2 DEF Regrant
    <2>2. /\ \A j \in Keys \ {k} : Truth(j)' = Truth(j) /\ changed'[j] = changed[j]
          /\ \/ Truth(k)' = Truth(k) /\ changed'[k] \in {changed[k], now}
             \/ changed'[k] = now
      BY <1>2 DEF Regrant, Truth, AuthBase, AuthTypeOK
    <2>3. /\ \A c \in Callers : pc[c] # "idle" =>
               call'[c].key = call[c].key /\ call'[c].since = call[c].since
          /\ \A c \in Callers : answer[c] # None => call'[c].fresh = call[c].fresh
      BY <1>2, RegrantCalls DEF AuthBase, InFlight
    <2>4. CallsRecent'
      BY <1>t, <2>1, <2>2, <2>3 DEF CallsRecent, Decided
    <2>5. CacheRecent'
      BY <1>t, <2>1, <2>2 DEF CacheRecent
    <2>6. AnswersRecent'
      BY <2>1, <2>3 DEF AnswersRecent
    <2> QED BY <2>4, <2>5, <2>6
  <1>3. ASSUME NEW c \in Callers, GitHubAnswers(c) PROVE Recent'
    BY <1>3 DEF GitHubAnswers, AuthBase, AuthTypeOK, InFlight, CallsRecent, CacheRecent,
                AnswersRecent, Decided, Truth
  <1>4. ASSUME NEW c \in Callers, Arrives(c) PROVE Recent'
    <2> DEFINE k == call[c].key
    <2>1. /\ UNCHANGED <<now, grant, call, changed>> /\ pc[c] # "idle" /\ k \in Keys
          /\ reply'[c] = None /\ \A d \in Callers \ {c} : reply'[d] = reply[d] /\ pc'[d] = pc[d]
      BY <1>4, <1>t DEF Arrives, Return, AuthBase, AuthTypeOK, InFlight
    <2>2. CallsRecent'
      BY <1>t, <2>1, AuthAssumption DEF CallsRecent, Decided, Truth, Verdicts
    <2>3. CASE UNCHANGED <<cache, answer>>
      BY <2>1, <2>2, <2>3 DEF CacheRecent, AnswersRecent, Truth
    <2>4. CASE Decided(c) \/ reply[c] = "UNAVAILABLE"
      <3>1. Age(k, reply[c]) <= MaxLatency
        BY <1>t, <2>1, <2>4 DEF Age, CallsRecent, AuthBase, AuthTypeOK
      <3>2. CASE UNCHANGED <<cache, answer>>
        BY <2>3, <3>2
      <3>3. CASE Record(k, reply[c]) /\ Return(c, k, reply[c])
        <4>1. CacheRecent'
          BY <1>t, <2>1, <2>4, <3>3 DEF Record, CallsRecent, CacheRecent, Truth, AuthBase,
             AuthTypeOK
        <4>2. AnswersRecent'
          <5>1. /\ answer'[c].age = Age(k, reply[c]) /\ Age(k, reply[c]) \in Int
                /\ \A d \in Callers \ {c} : answer'[d] = answer[d]
            BY <1>t, <2>1, <3>3 DEF Return, Age, AuthBase, AuthTypeOK
          <5> QED BY <1>t, <2>1, <3>1, <5>1 DEF AnswersRecent
        <4> QED BY <2>2, <4>1, <4>2
      <3> QED BY <1>4, <3>2, <3>3 DEF Arrives
    <2>5. UNCHANGED <<cache, answer>> \/ Decided(c) \/ reply[c] = "UNAVAILABLE"
      BY <1>4, <2>1 DEF Arrives, Decided, AuthBase, AuthTypeOK, Verdicts
    <2> QED BY <2>3, <2>4, <2>5
  <1>5. ASSUME NEW c \in Callers, NEW k \in Keys, NEW fresh \in BOOLEAN, Verify(c, k, fresh)
        PROVE  Recent'
    <2> DEFINE rec == [key |-> k, fresh |-> fresh, since |-> now, warned |-> denied[k]]
    <2>1. /\ UNCHANGED <<now, grant, cache, reply, changed>>
          /\ call'[c] = rec /\ reply[c] = None
          /\ \A d \in Callers \ {c} : pc'[d] = pc[d] /\ call'[d] = call[d] /\ answer'[d] = answer[d]
      BY <1>5 DEF Verify, Return, AuthBase, AuthTypeOK, InFlight
    <2>2. CallsRecent'
      BY <1>t, <2>1, AuthAssumption DEF CallsRecent, Decided, Truth, Verdicts
    <2>3. CacheRecent'
      BY <2>1 DEF CacheRecent, Truth
    <2>4. answer'[c] = None
          \/ (~fresh /\ Hit(k) /\ answer'[c].age = Age(k, cache[k].verdict))
      BY <1>5 DEF Verify, Return, AuthBase, AuthTypeOK
    <2>5. Hit(k) => Age(k, cache[k].verdict) <= MaxLatency + cache_ttl
      BY <1>t DEF Hit, Age, CacheRecent, AuthBase, AuthTypeOK
    <2>6. AnswersRecent'
      BY <2>1, <2>4, <2>5 DEF AnswersRecent
    <2> QED BY <2>2, <2>3, <2>6
  <1>6. ASSUME NEW c \in Callers, Cancelled(c) PROVE Recent'
    BY <1>6 DEF Cancelled, AuthBase, AuthTypeOK, InFlight, CallsRecent, CacheRecent,
                AnswersRecent, Decided, Truth
  <1>7. CASE UNCHANGED vars
    BY <1>7 DEF vars, callVars, CallsRecent, CacheRecent, AnswersRecent, Decided, Truth
  <1> QED BY <1>1, <1>2, <1>3, <1>4, <1>5, <1>6, <1>7 DEF Next, Caller

-----------------------------------------------------------------------------
\* What a denial given alone leaves behind: nothing that could allow the key.
NothingAllows ==
    \A k \in Keys : denied[k] = "alone" =>
        /\ Truth(k) = "DENIED"
        /\ cache[k] # None => cache[k].verdict = "DENIED"
        /\ \A c \in Callers : Calls(c, k) /\ pc[c] = "repo" => reply[c] # "ALLOWED"

WarnedOnce ==
    \A c \in Callers : call[c] # None /\ call[c].warned = "alone" => denied[call[c].key] = "alone"

Stand == NothingAllows /\ WarnedOnce /\ DenialStands

LEMMA StandInit == Init => Stand
  BY DEF Init, Stand, NothingAllows, WarnedOnce, DenialStands, Allowed

\* What the return of a verdict does to the denials.
LEMMA ReturnDenies ==
    ASSUME AuthTypeOK, NEW c \in Callers, NEW k \in Keys, NEW verdict, Return(c, k, verdict)
    PROVE  /\ \A j \in Keys \ {k} : denied'[j] = denied[j]
           /\ denied[k] = "alone" => denied'[k] = "alone"
           /\ denied'[k] = "alone" =>
                \/ denied[k] = "alone"
                \/ /\ verdict = "DENIED" /\ Truth(k) = "DENIED"
                   /\ \A d \in Callers \ {c} : ~(Calls(d, k) /\ pc[d] # "idle")
           /\ pc'[c] = "idle" /\ \A d \in Callers \ {c} : pc'[d] = pc[d]
           /\ answer'[c].verdict = verdict
           /\ \A d \in Callers \ {c} : answer'[d] = answer[d]
  BY DEF Return, AuthTypeOK

LEMMA StandStep == AuthBase /\ Stand /\ [Next]_vars => Stand'
  <1> SUFFICES ASSUME AuthBase, Stand, [Next]_vars PROVE Stand'
    OBVIOUS
  <1> USE AuthAssumption DEF Stand
  <1>1. CASE Tick
    BY <1>1 DEF Tick, callVars, NothingAllows, WarnedOnce, DenialStands, Allowed, Calls, Truth
  <1>2. ASSUME NEW k \in Keys, NEW what \in {"none", "user", "repo"}, Regrant(k, what)
        PROVE  Stand'
    <2>1. UNCHANGED <<cache, pc, reply, answer>>
      BY <1>2 DEF Regrant
    <2>2. /\ \A j \in Keys \ {k} : Truth(j)' = Truth(j) /\ denied'[j] = denied[j]
          /\ what = "repo" => denied'[k] = "no"
          /\ what # "repo" => denied'[k] = denied[k] /\ Truth(k)' = "DENIED"
      BY <1>2 DEF Regrant, Truth, AuthBase, AuthTypeOK
    <2>3. \A c \in Callers, j \in Keys : Calls(c, j)' = Calls(c, j)
      BY <1>2, RegrantCalls DEF Calls
    <2>4. NothingAllows'
      BY <2>1, <2>2, <2>3 DEF NothingAllows
    <2>5. WarnedOnce'
      <3> SUFFICES ASSUME NEW c \in Callers, call'[c] # None, call'[c].warned = "alone"
                   PROVE  denied'[call'[c].key] = "alone"
        BY DEF WarnedOnce
      <3>1. /\ call[c] # None /\ call'[c].key = call[c].key /\ call[c].warned = "alone"
            /\ ~(what = "repo" /\ call[c].key = k)
        BY <1>2, RegrantCalls
      <3> QED BY <2>2, <3>1, CallTypes DEF WarnedOnce
    <2>6. DenialStands'
      <3>1. \A c \in Callers : answer[c] # None => call'[c].warned \in {call[c].warned, "no"}
        BY <1>2, RegrantCalls DEF AuthBase, InFlight
      <3> QED BY <2>1, <3>1 DEF DenialStands, Allowed
    <2> QED BY <2>4, <2>5, <2>6
  <1>3. ASSUME NEW c \in Callers, GitHubAnswers(c) PROVE Stand'
    BY <1>3 DEF GitHubAnswers, AuthBase, AuthTypeOK, InFlight, NothingAllows, WarnedOnce,
                DenialStands, Allowed, Calls, Truth
  <1>4. ASSUME NEW c \in Callers, Arrives(c) PROVE Stand'
    <2> DEFINE k == call[c].key
    <2>1. /\ UNCHANGED <<grant, call>> /\ pc[c] # "idle" /\ call[c] # None /\ k \in Keys
          /\ reply[c] \in Verdicts /\ reply'[c] = None
          /\ \A d \in Callers \ {c} : reply'[d] = reply[d]
      BY <1>4, CallTypes DEF Arrives, AuthBase, AuthTypeOK, InFlight
    <2>2. CASE UNCHANGED <<cache, answer, denied>> /\ pc' = [pc EXCEPT ![c] = "repo"]
      BY <2>1, <2>2 DEF NothingAllows, WarnedOnce, DenialStands, Allowed, Calls, Truth,
                        AuthBase, AuthTypeOK, Verdicts
    <2>3. CASE /\ Record(k, reply[c]) /\ Return(c, k, reply[c])
               /\ ~(pc[c] = "user" /\ reply[c] = "ALLOWED")
      <3>1. reply[c] = "ALLOWED" => pc[c] = "repo" /\ denied[k] # "alone"
        BY <2>1, <2>3 DEF NothingAllows, Calls, AuthBase, AuthTypeOK
      <3>2. /\ \A j \in Keys \ {k} : cache'[j] = cache[j]
            /\ cache'[k] # None => cache'[k].verdict = reply[c] /\ reply[c] # "UNAVAILABLE"
        BY <2>1, <2>3 DEF Record, AuthBase, AuthTypeOK
      <3>3. NothingAllows'
        <4> SUFFICES ASSUME NEW j \in Keys, denied'[j] = "alone"
                     PROVE  /\ Truth(j)' = "DENIED"
                            /\ cache'[j] # None => cache'[j].verdict = "DENIED"
                            /\ \A d \in Callers :
                                 Calls(d, j)' /\ pc'[d] = "repo" => reply'[d] # "ALLOWED"
          BY DEF NothingAllows
        <4>1. CASE j # k
          BY <2>1, <2>3, <3>2, <4>1, ReturnDenies DEF NothingAllows, AuthBase, Calls, Truth
        <4>2. CASE j = k
          <5>1. Truth(j)' = "DENIED" /\ reply[c] # "ALLOWED"
            BY <2>1, <2>3, <3>1, <4>2, ReturnDenies DEF NothingAllows, AuthBase, Truth
          <5>2. cache'[j] # None => cache'[j].verdict = "DENIED"
            BY <2>1, <3>2, <4>2, <5>1 DEF Verdicts
          <5>3. \A d \in Callers : Calls(d, j)' /\ pc'[d] = "repo" => reply'[d] # "ALLOWED"
            <6>1. pc'[c] = "idle" /\ \A d \in Callers : Calls(d, j)' <=> Calls(d, j)
              BY <2>1, <2>3, ReturnDenies DEF AuthBase, Calls
            <6>2. ASSUME NEW d \in Callers \ {c}, Calls(d, j), pc[d] = "repo"
                  PROVE  reply[d] # "ALLOWED"
              BY <2>1, <2>3, <4>2, <6>2, ReturnDenies DEF NothingAllows, AuthBase
            <6>3. \A d \in Callers \ {c} : pc'[d] = pc[d] /\ reply'[d] = reply[d]
              BY <2>1, <2>3, ReturnDenies DEF AuthBase
            <6> SUFFICES ASSUME NEW d \in Callers, Calls(d, j)', pc'[d] = "repo"
                         PROVE  reply'[d] # "ALLOWED"
              OBVIOUS
            <6>4. Calls(d, j) /\ d # c
              BY <6>1
            <6> QED BY <6>2, <6>3, <6>4
          <5> QED BY <4>2, <5>1, <5>2, <5>3
        <4> QED BY <4>1, <4>2
      <3>4. WarnedOnce'
        BY <2>1, <2>3, CallTypes, ReturnDenies DEF WarnedOnce, AuthBase
      <3>5. DenialStands'
        BY <2>1, <2>3, <3>1, ReturnDenies DEF DenialStands, Allowed, WarnedOnce, AuthBase
      <3> QED BY <3>3, <3>4, <3>5
    <2> QED BY <1>4, <2>2, <2>3 DEF Arrives
  <1>5. ASSUME NEW c \in Callers, NEW k \in Keys, NEW fresh \in BOOLEAN, Verify(c, k, fresh)
        PROVE  Stand'
    <2> DEFINE rec == [key |-> k, fresh |-> fresh, since |-> now, warned |-> denied[k]]
    <2>1. /\ UNCHANGED <<grant, cache, reply>> /\ call'[c] = rec /\ reply[c] = None
          /\ \A d \in Callers \ {c} : call'[d] = call[d]
      BY <1>5 DEF Verify, AuthBase, AuthTypeOK, InFlight
    <2>2. CASE ~fresh /\ Hit(k) /\ Return(c, k, cache[k].verdict)
      <3>1. NothingAllows'
        <4> SUFFICES ASSUME NEW j \in Keys, denied'[j] = "alone"
                     PROVE  /\ Truth(j)' = "DENIED"
                            /\ cache'[j] # None => cache'[j].verdict = "DENIED"
                            /\ \A d \in Callers :
                                 Calls(d, j)' /\ pc'[d] = "repo" => reply'[d] # "ALLOWED"
          BY DEF NothingAllows
        <4>1. CASE denied[j] = "alone"
          BY <2>1, <2>2, <4>1, ReturnDenies DEF NothingAllows, AuthBase, Calls, Truth, Verdicts
        <4>2. CASE denied[j] # "alone"
          BY <2>1, <2>2, <4>2, ReturnDenies DEF AuthBase, Calls, Truth, Verdicts
        <4> QED BY <4>1, <4>2
      <3>2. WarnedOnce'
        BY <2>1, <2>2, CallTypes, ReturnDenies DEF WarnedOnce, AuthBase
      <3>3. DenialStands'
        BY <2>1, <2>2, ReturnDenies DEF Hit, DenialStands, Allowed, NothingAllows, AuthBase
      <3> QED BY <3>1, <3>2, <3>3
    <2>3. CASE /\ pc' = [pc EXCEPT ![c] = "user"] /\ answer' = [answer EXCEPT ![c] = None]
               /\ UNCHANGED denied
      <3>1. NothingAllows'
        BY <2>1, <2>3 DEF NothingAllows, Calls, Truth, AuthBase, AuthTypeOK, Verdicts
      <3>2. WarnedOnce'
        BY <2>1, <2>3 DEF WarnedOnce
      <3>3. DenialStands'
        BY <2>1, <2>3 DEF DenialStands, Allowed, AuthBase, AuthTypeOK
      <3> QED BY <3>1, <3>2, <3>3
    <2> QED BY <1>5, <2>2, <2>3 DEF Verify
  <1>6. ASSUME NEW c \in Callers, Cancelled(c) PROVE Stand'
    BY <1>6 DEF Cancelled, AuthBase, AuthTypeOK, InFlight, NothingAllows, WarnedOnce,
                DenialStands, Allowed, Calls, Truth
  <1>7. CASE UNCHANGED vars
    BY <1>7 DEF vars, callVars, NothingAllows, WarnedOnce, DenialStands, Allowed, Calls, Truth
  <1> QED BY <1>1, <1>2, <1>3, <1>4, <1>5, <1>6, <1>7 DEF Next, Caller

-----------------------------------------------------------------------------
AuthInv == AuthBase /\ Recent /\ Stand

LEMMA AuthInvariant == Spec => []AuthInv
  <1>1. Init => AuthInv
    BY BaseInit, RecentInit, StandInit DEF AuthInv
  <1>2. AuthInv /\ [Next]_vars => AuthInv'
    BY BaseStep, RecentStep, StandStep DEF AuthInv
  <1> QED BY <1>1, <1>2, PTL DEF Spec

\* Every variable holds what it should; an outage is never cached.
THEOREM AuthTypesCorrect == Spec => []AuthTypeOK
  BY AuthInvariant, PTL DEF AuthInv, AuthBase

\* For every number of overlapping calls, time to live and latency: no verdict is
\* older than one verification, plus the time to live if it may come from the cache.
THEOREM VerdictsRecent == Spec => []AnswersRecent
  BY AuthInvariant, PTL DEF AuthInv, Recent

\* For every number of overlapping calls: a denial given while no other call for
\* the key was in flight stands until GitHub grants the access again.
THEOREM DenialsStand == Spec => []DenialStands
  BY AuthInvariant, PTL DEF AuthInv, Stand
=============================================================================
