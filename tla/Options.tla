------------------------------ MODULE Options ------------------------------
(***************************************************************************)
(* What the options of `listen` mean: which command lines are accepted     *)
(* (_validate_target, _validated and _guard_token_transport of             *)
(* cli/listen.py, parse_duration of cli/durations.py), the stream query    *)
(* they become, and which event ends a run with --until (cli/until.py).    *)
(*                                                                         *)
(* An option is None when it is not given; a duration is Malformed when its *)
(* pattern rejects it.  --server is its scheme and its host: "loopback",   *)
(* "remote" or None; insecure is GH_BABYSITTER_INSECURE.                   *)
(***************************************************************************)
EXTENDS Requests

CONSTANT PlainNames     \* names of letters, digits, dots, underscores and hyphens

ASSUME PlainNamesAssumption == "" \notin PlainNames

UNTIL_MATRIX ==
    [merged            |-> {"pull_request"},
     closed            |-> {"pull_request", "issues"},
     approved          |-> {"pull_request_review"},
     changes_requested |-> {"pull_request_review"}]

\* d.payload.merged and d.payload.review are payload.pull_request.merged and
\* payload.review.state.
satisfied_by_event(until, d) ==
    \/ /\ until = "merged"
       /\ d.event = "pull_request" /\ d.payload.action = "closed" /\ d.payload.merged
    \/ /\ until = "closed"
       /\ d.event \in UNTIL_MATRIX["closed"] /\ d.payload.action = "closed"
    \/ /\ until \in {"approved", "changes_requested"}
       /\ d.event = "pull_request_review" /\ d.payload.action = "submitted"
       /\ d.payload.review = until

-----------------------------------------------------------------------------
\* A duration in seconds; one without any part, or of another form, is
\* Malformed.
parse_duration(value) == value # Malformed /\ value > 0

_validate_target(o) ==
    /\ Len(o.repo) = 2 /\ \A i \in 1..2 : o.repo[i] \in PlainNames
    /\ o.number # None => o.number >= 1
    /\ o.action # ""
    /\ o.server.scheme \in {"http", "https"} /\ o.server.host # None

_guard_token_transport(o) ==
    o.server.scheme = "http" /\ o.server.host = "remote" => o.insecure

\* A bug the checks must catch: the type of the --until event is not added.
EventsAsGiven(o) == IF o.events = None THEN {} ELSE o.events

\* The types asked for: those given and those that --until needs.
EventsOf(o) ==
    (IF o.events = None THEN {} ELSE o.events) \cup
    (IF o.until = None THEN {} ELSE UNTIL_MATRIX[o.until])

_validated(o) ==
    /\ _validate_target(o)
    /\ o.until # None => o.number # None /\ o.until \in DOMAIN UNTIL_MATRIX
    /\ ~(o.first_event /\ o.count # None)
    /\ o.count # None => o.count >= 1
    /\ o.format \in {"json", "pretty"}
    /\ o.events # None => o.events \subseteq EVENT_MENU
    /\ EventsOf(o) # {}

CountOf(o) == IF o.first_event THEN 1 ELSE o.count

\* The options with which listen goes on to read a token; any other command
\* line is a usage error.
Usable(o) ==
    /\ o.timeout # None => parse_duration(o.timeout)
    /\ _validated(o)
    /\ _guard_token_transport(o)

\* A bug the checks must catch: --events is not passed on.
QueryEveryType(o) ==
    [repo |-> o.repo, events |-> EVENT_MENU, action |-> o.action, number |-> o.number,
     bearer |-> TRUE]

\* The parameters and the token that every stream of the run is opened with.
Query(o) ==
    [repo |-> o.repo, events |-> EventsOf(o), action |-> o.action, number |-> o.number,
     bearer |-> TRUE]
-----------------------------------------------------------------------------
\* What a client accepts its server accepts: a usable command line never ends
\* in "subscription permanently refused", and its subscription covers the
\* events that --until waits for, unless --action keeps them out.
ServesUntil(o, deliveries) ==
    Usable(o) =>
        /\ QueryStatus(Query(o)) = 200
        /\ o.until # None /\ o.action = None =>
             \A d \in deliveries :
                 /\ d.payload.repo = o.repo
                 /\ extract_number(d.event, d.payload) = o.number
                 /\ satisfied_by_event(o.until, d)
                 => Wants(Query(o), d)
=============================================================================
