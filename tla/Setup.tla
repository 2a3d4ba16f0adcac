------------------------------- MODULE Setup -------------------------------
(***************************************************************************)
(* cli/setup.py and its command in cli/main.py: runs of `setup` that look  *)
(* for the organization's webhook with their URL, page by page, and then   *)
(* update it or create one, with a secret that was supplied or is          *)
(* generated.                                                              *)
(*                                                                         *)
(* The list of webhooks is GitHub's.  Nothing locks it: other runs of      *)
(* setup and other tools change it between a run's requests.  A request    *)
(* may be carried out although its run has failed, been interrupted or     *)
(* never sees the answer.  A run is at                                     *)
(*                                                                         *)
(*   idle      not begun                                                   *)
(*   listing   GET of page[r]                                              *)
(*   writing   the list has been read                                      *)
(*   waiting   PATCH (of hook found[r]) or POST (if it is None)            *)
(*   done      it has said what the secret is                              *)
(*   failed    it ended with an error; a generated secret is lost          *)
(***************************************************************************)
EXTENDS Integers, Sequences, FiniteSets

CONSTANTS
    None,
    Runs,
    PageSize,     \* per_page
    MaxHooks,     \* bound on the webhooks the organization has at a time
    MaxId         \* bound on the ids of the webhooks that others add

ASSUME SetupAssumption ==
    /\ PageSize \in Nat \ {0} /\ MaxHooks \in Nat /\ MaxId \in Nat
    /\ None \notin Int \cup Runs \cup {"ok", "error"}

VARIABLES
    at, page, found, secret,   \* of a run
    hooks,        \* GitHub: the webhooks in the order of their ids
    next_id,      \* GitHub: the next id
    requests,     \* the runs whose PATCH or POST is under way
    replies,      \* run -> "ok" or "error", None before GitHub has answered
    last,         \* history: the run begun last
    disturbed     \* history: see Begin and Remove

runVars == <<at, page, found, secret>>
githubVars == <<hooks, next_id, requests, replies>>
vars == <<runVars, githubVars, last, disturbed>>

Hook(id, ours, key) == [id |-> id, ours |-> ours, secret |-> key]

Ours == {i \in DOMAIN hooks : hooks[i].ours}

Init ==
    /\ at = [r \in Runs |-> "idle"]
    /\ page = [r \in Runs |-> 1]
    /\ found = [r \in Runs |-> None]
    /\ secret = [r \in Runs |-> None]
    /\ \E n \in 0..MaxHooks - 1 :
         /\ hooks = [i \in 1..n |-> Hook(i, FALSE, None)]
         /\ next_id = n + 1
    /\ requests = {} /\ replies = [r \in Runs |-> None]
    /\ last = None /\ disturbed = FALSE

Goto(r, label) == at' = [at EXCEPT ![r] = label]

Active(r) == at[r] \in {"listing", "writing", "waiting"} \/ r \in requests

\* A run begins, unless its options are refused or it finds no token.  It
\* overlaps another if that has not ended or has left a request under way.
Begin(r, key) ==
    /\ at[r] = "idle"
    /\ Goto(r, "listing")
    /\ secret' = [secret EXCEPT ![r] = key]
    /\ last' = r
    /\ disturbed' = (disturbed \/ \E q \in Runs : Active(q))
    /\ UNCHANGED <<page, found, githubVars>>

OnPage(r) == {i \in DOMAIN hooks : (page[r] - 1) * PageSize < i /\ i <= page[r] * PageSize}

Mine(r) == OnPage(r) \cap Ours

First(r) == CHOOSE i \in Mine(r) : \A j \in Mine(r) : i <= j

\* Bugs the checks must catch: the position of the hook is kept for its id.
HookIdPosition(r) == First(r)

hook_id(r) == hooks[First(r)].id

\* Only the first page is read, or the last page is not noticed.
NoLinkNext(r) == FALSE
AlwaysLinkNext(r) == TRUE

\* The header of the answer that links to the next page, as the list stands then.
link_next(r) == Len(hooks) > page[r] * PageSize

\* The same page is asked for again.
TurnNoPage(r) == UNCHANGED <<at, page, found>>

TurnPage(r) == page' = [page EXCEPT ![r] = @ + 1] /\ UNCHANGED <<at, found>>

Stop(r, id) == found' = [found EXCEPT ![r] = id] /\ Goto(r, "writing") /\ UNCHANGED page

\* The first hook with the URL ends the search, and so does the last page.
List(r) ==
    /\ at[r] = "listing"
    /\ \/ Mine(r) # {} /\ Stop(r, hook_id(r))
       \/ Mine(r) = {} /\ link_next(r) /\ TurnPage(r)
       \/ Mine(r) = {} /\ ~link_next(r) /\ Stop(r, None)
    /\ UNCHANGED <<secret, githubVars, last, disturbed>>

Write(r) ==
    /\ at[r] = "writing"
    /\ Goto(r, "waiting")
    /\ requests' = requests \cup {r}
    /\ UNCHANGED <<page, found, secret, hooks, next_id, replies, last, disturbed>>

\* A bug the checks must catch: the status of the answer is not looked at.
ReturnUnchecked(r) ==
    /\ at[r] = "waiting" /\ replies[r] # None
    /\ Goto(r, "done")
    /\ UNCHANGED <<page, found, secret, githubVars, last, disturbed>>

\* raise_for_status passes or raises; only a run that gets here prints.
Return(r) ==
    /\ at[r] = "waiting" /\ replies[r] # None
    /\ Goto(r, IF replies[r] = "ok" THEN "done" ELSE "failed")
    /\ UNCHANGED <<page, found, secret, githubVars, last, disturbed>>

\* An HTTP error, a timeout or an interrupt; no request is retried.
Fail(r) ==
    /\ at[r] \in {"listing", "writing", "waiting"}
    /\ Goto(r, "failed")
    /\ UNCHANGED <<page, found, secret, githubVars, last, disturbed>>

-----------------------------------------------------------------------------
(* GitHub.                                                                 *)

Answer(r, reply) ==
    /\ requests' = requests \ {r}
    /\ replies' = [replies EXCEPT ![r] = reply]
    /\ UNCHANGED <<runVars, last, disturbed>>

Create(r) ==
    /\ r \in requests /\ found[r] = None /\ Len(hooks) < MaxHooks
    /\ hooks' = Append(hooks, Hook(next_id, TRUE, secret[r]))
    /\ next_id' = next_id + 1
    /\ Answer(r, "ok")

Update(r) ==
    /\ r \in requests
    /\ \E i \in DOMAIN hooks :
         /\ hooks[i].id = found[r]
         /\ hooks' = [hooks EXCEPT ![i] = Hook(found[r], TRUE, secret[r])]
    /\ UNCHANGED next_id
    /\ Answer(r, "ok")

\* The hook is gone, or the request is refused for a reason of its own.
Reject(r) ==
    /\ r \in requests
    /\ UNCHANGED <<hooks, next_id>>
    /\ Answer(r, "error")

\* Others add hooks for other URLs,
Add ==
    /\ Len(hooks) < MaxHooks - 1 /\ next_id <= MaxId
    /\ hooks' = Append(hooks, Hook(next_id, FALSE, None))
    /\ next_id' = next_id + 1
    /\ UNCHANGED <<runVars, requests, replies, last, disturbed>>

\* and remove hooks.  That disturbs a run which has turned a page, for a hook may
\* then move to a page already read, and it disturbs all if the hook is theirs.
Remove ==
    /\ \E i \in DOMAIN hooks :
         /\ hooks' = [j \in 1..Len(hooks) - 1 |-> hooks[IF j < i THEN j ELSE j + 1]]
         /\ disturbed' = (disturbed \/ i \in Ours
                            \/ \E r \in Runs : at[r] = "listing" /\ page[r] > 1)
    /\ UNCHANGED <<runVars, next_id, requests, replies, last>>

-----------------------------------------------------------------------------
Run(r) ==
    \/ \E key \in {"supplied", r} : Begin(r, key)
    \/ List(r) \/ Write(r) \/ Return(r) \/ Fail(r)

GitHub == (\E r \in Runs : Create(r) \/ Update(r) \/ Reject(r)) \/ Add \/ Remove

Next == (\E r \in Runs : Run(r)) \/ GitHub

\* A run goes on, and GitHub answers.  Nobody has to begin or to fail.
Fairness ==
    \A r \in Runs :
        /\ WF_vars(List(r) \/ Write(r) \/ Return(r))
        /\ WF_vars(Create(r) \/ Update(r) \/ Reject(r))

Spec == Init /\ [][Next]_vars /\ Fairness

-----------------------------------------------------------------------------
(* Properties.                                                             *)

\* What each variable holds; ids are never used twice.
SetupTypeOK ==
    /\ at \in [Runs -> {"idle", "listing", "writing", "waiting", "done", "failed"}]
    /\ page \in [Runs -> 1..MaxHooks + 1]
    /\ found \in [Runs -> {None} \cup 1..next_id - 1]
    /\ secret \in [Runs -> {None, "supplied"} \cup Runs]
    /\ Len(hooks) <= MaxHooks
    /\ \A i, j \in DOMAIN hooks : i < j => hooks[i].id < hooks[j].id
    /\ requests \subseteq Runs /\ replies \in [Runs -> {None, "ok", "error"}]
    /\ last \in Runs \cup {None} /\ disturbed \in BOOLEAN

\* However often setup is run, and whatever became of the runs before, the
\* organization gets one hook for the URL, unless runs overlap or hooks are
\* removed while one turns pages.
OneHook == ~disturbed => Cardinality(Ours) <= 1

\* After a run that ended well the hook is there and has the secret that this run
\* was given or has printed, whatever earlier runs did or failed to do.
LastSecretIsLive ==
    ~disturbed /\ last # None =>
        (at[last] = "done" => {hooks[i].secret : i \in Ours} = {secret[last]})

\* No run ever takes over a hook for another URL, although the list may shift
\* between its reading and its writing.
OthersUntouched ==
    [][\A i \in DOMAIN hooks :
         Len(hooks') >= Len(hooks) /\ ~hooks[i].ours => hooks'[i] = hooks[i]]_vars

\* A run that has begun ends, however many pages there are.
RunsEnd == \A r \in Runs : at[r] = "listing" ~> at[r] \in {"done", "failed"}
=============================================================================
