-------------------------------- MODULE Auth --------------------------------
(***************************************************************************)
(* server/auth.py: verification of a token's access to a repository by two *)
(* requests to GitHub, with a cache of the verdicts.  The handlers of      *)
(* several streams may be in verify() for the same token and repository at *)
(* the same time: the cache is read before the requests and written after  *)
(* them, and nothing orders the writes.                                    *)
(*                                                                         *)
(* A key is a pair (hash of the token, repository).  pc[c] is where caller *)
(* c is: not in verify() ("idle"), or awaiting GET /user or GET            *)
(* /repos/{repo}.  GitHub decides at one moment (GitHubAnswers) and the    *)
(* client has the answer at a later one (Arrives).                         *)
(***************************************************************************)
EXTENDS Integers

CONSTANTS
    None,
    Keys,
    Callers,
    cache_ttl,     \* settings.auth_cache_ttl; below 0 it is like 0
    MaxLatency,    \* the time within which a verify() ends: the HTTP client has timeouts
    MaxTime        \* bound on the clock

Verdicts == {"ALLOWED", "DENIED", "UNAVAILABLE"}

\* What is kept of a call, see below.
CallRecord ==
    [key: Keys, fresh: BOOLEAN, since: Nat, warned: {"no", "overlap", "alone"}]

ASSUME AuthAssumption ==
    /\ cache_ttl \in Nat /\ MaxLatency \in Nat /\ MaxTime \in Nat
    /\ None \notin CallRecord /\ None \notin Verdicts

VARIABLES
    now,        \* monotonic()
    grant,      \* GitHub: what a key's token is good for ("none", "user" or "repo")
    cache,      \* self._cache
    pc,
    call,       \* [key, fresh, since, warned] of a caller's last call; warned is history:
                \* denied[key] when it began, or "no" if the key was granted since
    reply,      \* what GitHub has decided and the caller has not yet received
    answer,     \* [verdict, age] returned to a caller by its last call
    changed,    \* history: when grant last gave or took away the repository
    denied      \* history: has verify() rightly denied the key, and GitHub not granted it
                \* since?  "alone": and no other call for the key was in flight then

callVars == <<pc, call, reply, answer>>
vars == <<now, grant, cache, callVars, changed, denied>>

Truth(k) == IF grant[k] = "repo" THEN "ALLOWED" ELSE "DENIED"

\* How long ago a verdict was the truth.
Age(k, verdict) == IF verdict \in {Truth(k), "UNAVAILABLE"} THEN 0 ELSE now - changed[k]

-----------------------------------------------------------------------------
\* The opposite of what is granted at first has never been true.
Init ==
    /\ now = 0
    /\ grant \in [Keys -> {"none", "user", "repo"}]
    /\ cache = [k \in Keys |-> None]
    /\ pc = [c \in Callers |-> "idle"]
    /\ call = [c \in Callers |-> None]
    /\ reply = [c \in Callers |-> None]
    /\ answer = [c \in Callers |-> None]
    /\ changed = [k \in Keys |-> - cache_ttl - MaxLatency - 1]
    /\ denied = [k \in Keys |-> "no"]

-----------------------------------------------------------------------------
(* The environment: the clock, and GitHub.                                 *)
Tick ==
    /\ now < MaxTime
    /\ \A c \in Callers : pc[c] # "idle" => now - call[c].since < MaxLatency
    /\ now' = now + 1
    /\ UNCHANGED <<grant, cache, callVars, changed, denied>>

Calls(c, k) == call[c] # None /\ call[c].key = k

Regrant(k, what) ==
    /\ what # grant[k]
    /\ grant' = [grant EXCEPT ![k] = what]
    /\ changed' = [changed EXCEPT ![k] = IF "repo" \in {what, grant[k]} THEN now ELSE @]
    /\ IF what = "repo"
       THEN /\ denied' = [denied EXCEPT ![k] = "no"]
            /\ call' = [c \in Callers |-> IF Calls(c, k) THEN [call[c] EXCEPT !.warned = "no"]
                                          ELSE call[c]]
       ELSE UNCHANGED <<denied, call>>
    /\ UNCHANGED <<now, cache, pc, reply, answer>>

\* A request fails, or is answered by what the token is good for at this moment.
GitHubAnswers(c) ==
    LET needed == IF pc[c] = "user" THEN {"user", "repo"} ELSE {"repo"}
        verdict == IF grant[call[c].key] \in needed THEN "ALLOWED" ELSE "DENIED"
    IN  /\ pc[c] \in {"user", "repo"} /\ reply[c] = None
        /\ \E v \in {verdict, "UNAVAILABLE"} : reply' = [reply EXCEPT ![c] = v]
        /\ UNCHANGED <<now, grant, cache, pc, call, answer, changed, denied>>

-----------------------------------------------------------------------------
(* verify().                                                               *)

\* Bugs the checks must catch: an unavailable GitHub is cached like a verdict.
RecordAnything(k, verdict) ==
    cache' = [cache EXCEPT ![k] = [expires |-> now + cache_ttl, verdict |-> verdict]]

\* A denial is not recorded.
RecordAllowedOnly(k, verdict) ==
    cache' = [cache EXCEPT ![k] = IF verdict = "ALLOWED"
                                  THEN [expires |-> now + cache_ttl, verdict |-> verdict]
                                  ELSE @]

\* _record.
Record(k, verdict) ==
    cache' = [cache EXCEPT ![k] = IF verdict = "UNAVAILABLE" THEN None
                                  ELSE [expires |-> now + cache_ttl, verdict |-> verdict]]

Return(c, k, verdict) ==
    /\ answer' = [answer EXCEPT ![c] = [verdict |-> verdict, age |-> Age(k, verdict)]]
    /\ pc' = [pc EXCEPT ![c] = "idle"]
    /\ denied' = [denied EXCEPT ![k] =
                     IF {verdict, Truth(k)} # {"DENIED"} \/ @ = "alone" THEN @
                     ELSE IF \E d \in Callers \ {c} : Calls(d, k) /\ pc[d] # "idle"
                     THEN "overlap" ELSE "alone"]

\* A bug the checks must catch: an expired entry is used.
HitExpired(k) == cache[k] # None

Hit(k) == cache[k] # None /\ cache[k].expires > now

\* A call, up to the first request.
Verify(c, k, fresh) ==
    /\ pc[c] = "idle"
    /\ call' = [call EXCEPT ![c] = [key |-> k, fresh |-> fresh, since |-> now,
                                    warned |-> denied[k]]]
    /\ IF ~fresh /\ Hit(k)
       THEN Return(c, k, cache[k].verdict)
       ELSE /\ pc' = [pc EXCEPT ![c] = "user"]
            /\ answer' = [answer EXCEPT ![c] = None]
            /\ UNCHANGED denied
    /\ UNCHANGED <<now, grant, cache, reply, changed>>

\* Only a token that is good for a user is asked about the repository.
Arrives(c) ==
    /\ reply[c] # None
    /\ reply' = [reply EXCEPT ![c] = None]
    /\ IF pc[c] = "user" /\ reply[c] = "ALLOWED"
       THEN /\ pc' = [pc EXCEPT ![c] = "repo"]
            /\ UNCHANGED <<cache, answer, denied>>
       ELSE Record(call[c].key, reply[c]) /\ Return(c, call[c].key, reply[c])
    /\ UNCHANGED <<now, grant, call, changed>>

\* The stream that rechecks its access is cancelled.
Cancelled(c) ==
    /\ pc[c] # "idle"
    /\ pc' = [pc EXCEPT ![c] = "idle"]
    /\ reply' = [reply EXCEPT ![c] = None]
    /\ UNCHANGED <<now, grant, cache, call, answer, changed, denied>>

Caller(c) ==
    \/ \E k \in Keys, fresh \in BOOLEAN : Verify(c, k, fresh)
    \/ GitHubAnswers(c)
    \/ Arrives(c)
    \/ Cancelled(c)

Next ==
    \/ Tick
    \/ \E k \in Keys, what \in {"none", "user", "repo"} : Regrant(k, what)
    \/ \E c \in Callers : Caller(c)

Spec == Init /\ [][Next]_vars

-----------------------------------------------------------------------------
(* What each variable holds; in particular UNAVAILABLE is never cached.    *)
AuthTypeOK ==
    /\ now \in Nat
    /\ grant \in [Keys -> {"none", "user", "repo"}]
    /\ cache \in [Keys -> [expires: Nat, verdict: {"ALLOWED", "DENIED"}] \cup {None}]
    /\ pc \in [Callers -> {"idle", "user", "repo"}]
    /\ call \in [Callers -> CallRecord \cup {None}]
    /\ reply \in [Callers -> Verdicts \cup {None}]
    /\ answer \in [Callers -> [verdict: Verdicts, age: Int] \cup {None}]
    /\ changed \in [Keys -> Int]
    /\ denied \in [Keys -> {"no", "overlap", "alone"}]

\* A verdict that verify() returns was true at GitHub not long ago: within the
\* time of one verification if it was asked for afresh, as every recheck of a
\* stream does, and otherwise within that time and the time to live of the cache.
AnswersRecent ==
    \A c \in Callers :
        answer[c] # None =>
            answer[c].age <= MaxLatency + (IF call[c].fresh THEN 0 ELSE cache_ttl)

Allowed(c) == answer[c] # None /\ answer[c].verdict = "ALLOWED"

\* If verify() denies a key while no other call for it is in flight, nobody who
\* calls later is allowed until GitHub grants the access again, however the later
\* calls overlap and whatever the cache still held.
DenialStands == \A c \in Callers : Allowed(c) => call[c].warned # "alone"

\* The same without the condition (docs/specs/03-auth.md: after a revocation every
\* later connection is denied).
RevokedStaysRevoked == \A c \in Callers : Allowed(c) => call[c].warned = "no"
=============================================================================
