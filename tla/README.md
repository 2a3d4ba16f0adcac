# A TLA+ model of gh-babysitter

gh-babysitter forwards GitHub webhooks to command-line clients. One server
process receives every webhook of an organization and fans it out, over
Server-Sent Events, to the `listen` processes that asked for it. Delivery is at
most once: nothing is stored, a slow client loses events and is told how many.

This directory holds a specification of that system, the configurations with
which TLC checks it on small instances, and proofs that TLAPS checks for every
value of the constants. Source paths below are relative to
`src/src/gh_babysitter/`.

## 1. The system

| Component | State | Operations | Where |
|---|---|---|---|
| Event menu, normalization | none | `extract_number`, `normalize` | `server/events.py`, `server/normalize.py` |
| Registry | `connections`, inverted `index`, `_next_id` | `register`, `unregister`, `match` | `server/registry.py` |
| Subscriber | bounded queue, `dropped` | `offer`, `take_dropped` | `server/registry.py` |
| Webhook handler | none | verify, normalize, match, offer, answer | `server/app.py`, `server/signature.py` |
| Stream handler | one coroutine per client: suspension point, `next_recheck` | open, yield ready/lag/data, recheck, end | `server/app.py` |
| Authenticator | verdict cache with expiry | `verify`, cached or fresh | `server/auth.py` |
| `listen` | `_StreamState`, backoff, the two racing tasks, deadline | connect, consume, poll, reconnect, exit | `cli/listen.py`, `cli/until.py`, `cli/sse.py` |
| SSE parser | event type and data of the frame being read | `parse_sse` | `cli/sse.py` |
| `setup` | the organization's webhooks, at GitHub | list, create or update | `cli/setup.py`, `cli/main.py` |
| Options, token, settings | none | parsing and validation | `cli/durations.py`, `cli/config.py`, `cli/token.py`, `server/config.py`, `cli/main.py` |

**Interactions.** The webhook handler and all stream coroutines run on one event
loop and share the registry and the queues: the handler writes a queue, the
stream's generator reads it. The code between two awaits (or yields) is atomic,
which makes the suspension points the whole question. The SSE library
(sse-starlette) iterates a stream's generator and cancels that iteration when
the client leaves or the server stops. The client talks to the server over one
HTTP stream at a time and, with `--until`, to GitHub over a second connection,
in two tasks that race each other. `setup` talks to GitHub only; several runs of
it share nothing but the organization's list of webhooks.

**What is hard.**

- A cancellation may hit a coroutine at any suspension point: before its `try`,
  inside it, or while it is suspended at a `yield`, where the exception is
  raised in the iterating task and not in the generator.
- Losses are counted while earlier losses are being reported.
- A recheck deadline, a steady stream of events and a full queue compete for
  the same coroutine.
- On the client, a deadline, a lost task's cancellation and two results that
  arrive in the same turn of the event loop meet in six lines.
- The verdict cache is read before an await and written after it.
- Nothing survives a restart or a reconnect; each side has to re-establish its
  own part. A stream breaks between any two lines, also inside a frame.
- `setup` reads a list page by page and writes to it later; nothing locks the
  list, and a run that has failed may leave a request behind that succeeds.

**What makes each component correct.** The registry: index and connections stay
inverse, so that matching is exact. The streams: every event asked for is
delivered once, in order, or counted as lost; losses are told; rechecks happen;
an ended stream leaves the registry. The authenticator: no verdict older than
its TTL and one verification is used, and a denial is not undone by an older
answer. `listen`: its exit code tells the truth, its counts are exact, it does
end, and it leaves no task behind; a command line it accepts is one the server
accepts. Client and server together: no loss is silent, nothing is printed twice
or out of order, no half frame is taken for one, and the client comes back.
`setup`: one hook for the URL, the last successful run's secret is the one in
force, and no other hook is touched.

## 2. Modules

```
Events --- Registry ----------+
   |                          +--- Gateway ---> LossyFifo <---+
   +------ Requests ----------+                               |
              |                                               |
              +--- Options --- Listen ------------------ System --- Sse

Auth          Setup
```

A line is EXTENDS, left to right; an arrow is INSTANCE. `Gateway` instantiates
`LossyFifo` as what it implements, `System` as the server it composes with the
client. `MCRegistry`, `MCGateway`, `MCListen`, `MCSystem`, `MCAuth` and `MCSetup`
give the constants of the module they are named after their values; the modules
whose names end in `Proofs` are those of section 4. In a module, the operators
under the comment "a bug the checks must catch" are no part of the
specification: each one is a plausible mistake in the code, put in the place of
the operator that follows it to see that the property it should break does break.

### Events, Registry

`Events` has the pure definitions: `EVENT_MENU`, `extract_number`, `normalize`
and `Selects`, the innermost test of `Registry.match`. A payload is the record of
the values the code reads from it. `Registry` is `server/registry.py`
statement by statement: `connections` and `index` are functions with a varying
domain (Python dictionaries), a method is an action. The login of a connection
is written and never read, so it is left out.

### Requests

What `server/app.py` makes of a request before it touches any state, shared by
the server and by the client's command line: the status of a webhook delivery
(signature, ping, shape, menu), the status of a stream query (`_int_or_none`,
`_bearer_token`, `_valid_repo`, `_event_names`, in the order of the code; a
repository is the sequence of its parts between the slashes), the
filters of an accepted query, and `Wants`, the reference definition of what a
query asks for, read off the raw delivery and not off the filters.

### Gateway

`Gateway` is `server/app.py`, with the `Subscriber`. `pc[r]` names the await or
yield at which the coroutine of stream request `r` is suspended; there is one
action for each way it can go on from there.

| `pc[r]` | Suspended at | Goes on by |
|---|---|---|
| `verify` | `app.py:165` | `Authorized` |
| `starting` | `app.py:175`, or the generator is not yet iterated | `Start`, `Cancel` |
| `ready`, `data` | yields at 178 and 205 | `Resume`, `Cancel` |
| `lagging`, `lag`, `lagged` | 187, the yield at 188, 192 | `SendLag`, `LagSent`, `AfterLag`, `Cancel` |
| `waiting` | `wait_for(queue.get())` at 195 | `Wake`, `TimeOut`, `Cancel` |
| `recheck` | 197 | `Recheck`, `Cancel` |
| `abandoned` | cancelled while suspended at a yield | `Finalize` |
| `closed`, `leaked` | ended, with and without its `finally` | |

`Webhook(d)` is the whole handler after the body has been read: it has no await.
What the transport does is external: `Stop` (the client left, or the server is
shutting down) may happen at any time, and the cancellation it causes is
delivered by `Cancel` at whatever point the coroutine has then reached.
`DeadlinePasses` is the clock reaching `next_recheck`: time has no other role.
`authenticator.verify` returns any of the three verdicts at any time.

`arrivals`, `since`, `yielded`, `reported` and `acked` are history variables; no
action reads them.

### LossyFifo

What a subscription is promised, in seven variables and no coroutine: a FIFO of
the published events that match its request, which loses an event only when it
is full, counts the loss, and tells the count. `Gateway` implements it: a
subscription is open while its stream is registered, and `unreported` is the
subscriber's `dropped` plus the local variable that holds a count on its way
into a frame. Whether an event matches is decided in LossyFifo by `Wants`, read
off the client's query and the raw payload, and in Gateway by the filters, the
normalized tuple and the index: the refinement says that the two agree.

### Auth

`Auth` is `server/auth.py`. A key stands for a token's hash and a repository;
`pc[c]` says which of the two requests caller `c` of `verify` is awaiting. The
entry of a call (`Verify`, up to the first request) and the arrival of an answer
(`Arrives`, up to the next request or to `_record`) are the two atomic pieces of
the code. GitHub is external: it decides at one moment (`GitHubAnswers`) by what it
grants then, and the caller learns of it later; in between it may grant or take
away anything (`Regrant`), and the clock may advance. It is taken to answer
truthfully or not at all: a body that is no JSON object counts as
unavailable (lines 93-96), and a user without a login (98) does not occur. The clock is a number here, because expiry is what the module is
about; `MaxLatency` is the time within which a verification ends, which the
timeouts of the HTTP client bound. `denied`, `changed`, the `warned` of a
call and the `age` of an answer are history.

### Options, Listen

`Options` is the command line: `parse_duration`, `_validate_target`,
`_guard_token_transport`, `_validated` (`PlainNames` are the names of which the
client's regular expression allows an owner and a repository to be made, where
the server only counts the slashes), the `--until` matrix with
`satisfied_by_event`, and `Query`, the parameters of every stream the run opens.
`Usable` are the command lines with which `listen` goes on.

`Listen` is `cli/listen.py` with its command in `cli/main.py`. A run starts at
`begin` with any command line of `CommandLines`, which never changes; it is
refused (exit 2), finds no token (exit 1) or goes on. `main` is where `_listen`
is suspended; `stream` and `poll` are the two tasks. Without `--until` there is
no task: main runs `_stream_once` itself (`inline`). The server and GitHub are
external; they give every answer the client tells apart. The target may reach its
terminal state (`ReachTarget`) and, unless it was merged, leave it again
(`Reopen`); `"unshown"` is a terminal state that the poll, which reads one page
of reviews, cannot see; `reached` remembers that there was one. An answer of
GitHub is true at the moment it is given.

`DeadlineExpires` follows `asyncio.timeout`: it cancels main once, and what the
cancellation does depends on where main is suspended. When it hits
`asyncio.wait`, the two tasks run on while the clients are closed (`closing`).

Coarser than the code: main may be resumed any number of turns after a task has
ended, where asyncio takes one or two; a poll that wakes after the stream's end
is cancelled before it asks.

### Sse, System

`Sse` is the stream as lines: the frames of sse-starlette (external) and
`parse_sse`, one line at a time. A frame is one line of data, as the server
sends it.

`System` is one `listen` run and the server, joined by a connection. Each step
of the client is an action of `Listen`, constrained by what is on the wire. The
server is `LossyFifo`, which Gateway is proved to implement; a subscription is
named by the number of the client's stream, so that a reconnect is a new
subscription with the same query. As in the code, the client reconnects without
waiting for the server to notice that the old connection is dead: old
subscriptions stay open beside the new one, and are matched and fill, until
`Hangup` removes them, if it ever does. What `LossyFifo` yields is put on the wire as
lines (`Push`, `Warn`, and `Ping` for the keep-alive comment); `Read` takes the
next line, feeds it to the parser and, if it ends a frame, handles the frame.
`UnderWay` are the lines of which no frame has come yet: those that the parser
holds (`Begun`) and those still on the wire. Failures, bounded by `MaxFaults`:
the connection breaks with any prefix of the lines still arriving (`Break`), the
server ends the stream (`ServerEnds`) or restarts with an empty registry
(`Restart`), a connect or a poll fails. An expired `--timeout` (`Deadline`) counts
as one of them, so that the bound on the failures bounds it too; nothing requires
it to expire.

Three simplifications: what the server still sends on a dead connection (it reaches
nobody) is left out; so is its late answer to a request that the client has given
up on; and GitHub answers in JSON (what else it may answer is checked in `Listen`).

Every step of the client is written as an action of `Listen`, so that what is shown
of `Listen` holds of it by construction. A guard of `Listen` says what it takes for
granted of a server (an event is one that was asked for, and does not tell of a
terminal state before there is one); such a guard could silently block a frame in
the composition. `EventsExpected` says that it never does. The server's steps are
`LossyFifo`'s, but for a restart, which ends all subscriptions at once;
`ImplementsFifo` says that the server as a whole, restarts included, is still one.

### Setup

`Setup` is `cli/setup.py` with its command in `cli/main.py`: any number of runs,
each of which lists the webhooks page by page, stops at the first one with its
URL or at the last page, and then sends one PATCH or POST. A run may fail at
every await. GitHub's list is external; a request under way is carried out or
refused there, whether or not its run still waits, and others add and remove
hooks for other URLs meanwhile, or remove a hook of ours. `disturbed` is history:
a run began while another, or the request of a failed one, was under way; a hook
was removed while a run was past its first page (so that one moved to a page
already read); a hook for the URL was removed by somebody. Each part is needed:
TLC finds `OneHook` or `LastSecretIsLive` violated without it. The code has no
lock and promises none, so that these are conditions of the properties and not
findings.

## 3. Runs

All runs but `setup` check for deadlock; there every run may be over, and nobody
has to touch the hooks any more. In the gateway's runs the check says little,
because a webhook that is ignored is always accepted; that no stream gets stuck
is the question of the liveness properties of `slow_client`.

| Run | Instance | Shows |
|---|---|---|
| `registry` | 4 filters that overlap in key, action and number; 2 subscribers; 3 ids | types; `IndexExact`, `MatchExact` |
| `slow_client` | 1 stream, queue of 2, 5 webhooks; 1 valid query and refused ones, wanted, unwanted and ignored deliveries; fair | `ExactAccounting`, `NoSleepingOnLoss`, `WantedInOrder`, `RecheckNotStarved`; `LossReported`, `QueuedIsYielded`, `RecheckHappens`, `DisconnectUnregisters` |
| `routing` | 2 streams (symmetric), queue of 1, 2 webhooks; valid queries that overlap and a refused one | types; `RegisteredWhileOpen`, `SenderAgrees`, and the refinement `ImplementsLossyFifo` |
| `auth_overlap` | 2 callers (symmetric), 1 key, TTL 2, latency 1, 4 ticks | types (no outage in the cache); `AnswersRecent`, `DenialStands` |
| `listen` | 11 accepted command lines, one of each kind, and 17 refused ones, one for each check and four shapes of a bad repository; 4 kinds of event about one issue or pull request; up to 3 printed; fair | types; `ExitJustified`, `PlainCountExact`, `BackoffEarned`, `NoTaskOutlivesItsRound`, `SubscriptionServesUntil`; `ShownStateExits`, `PlainDeadlineExits` |
| `system` | a run with a `--timeout` that follows issue 1, and one that waits with `--until merged`; one kind of event for each, 2 published; queue of 1, 2 failures, 5 lines under way; fair | types; `NothingSilentlyLost`, `PrintedInOrder`, `FramesIntact`, `EventsExpected`; the refinement `ImplementsFifo`; `KeepsUp`, `Resubscribes` |
| `setup` | 2 runs, at most 3 hooks, 1 per page; fair | types; `OneHook`, `LastSecretIsLive`, `OthersUntouched`; `RunsEnd` |
| `leak`, `auth_revoked`, `listen_timeout`, `listen_count`, `listen_reviews` | as above, smaller | the counterexamples of section 5 |

**Bounds.** `MaxId` and `MaxArrivals` bound the counters of the gateway,
`MaxPrinted` that of `listen`. Five webhooks on a queue of two are enough for it to
fill, lose, report, lose again during the report and drain, and for several events
to be in order in the queue and behind it; the two streams of
`routing` are enough for one to end while the other stays, and for each query to
be the wider or the narrower one. One queued event and one lost event per stream
are enough there, because the accounting in depth is the question of
`slow_client`. Three registrations are enough to share, keep and empty an index
entry. Four ticks hold a verification, a cached verdict that expires and a second
verification; two overlapping callers are enough to write the cache in the wrong
order. `listen` keeps no unbounded state but the number printed: its backoff
saturates at 30 s, which is the fifth reconnect, and three printed events are more
than the largest `--count`.

In `system`, `MaxLog` bounds the webhooks, `MaxFaults` the failures and so the
streams, and `MaxWire` the lines under way. A queue of one and two events are
enough to queue, lose, warn and print on one stream or on two; two failures are
enough for a stream, a second one that breaks in the middle of a frame, and a third;
five lines hold a ready or lag frame of three lines and an event of two. That is
also enough for an old subscription to stay open, fill and lose beside the new one. With room
for three only, a keep-alive on the wire could keep a frame waiting for ever, which
no connection does.

One hook per page and at most three hooks make `setup` turn pages, with the hook on
any of them, and let a removal shift the list; a run that fails and a run after it
are two. Symmetry is used in `routing` and `auth_overlap`, which check invariants and
step properties only.

**Fairness.** `Gateway!Fairness` has weak fairness for every step of a stream's
coroutine: the event loop resumes what is ready; `verify` ends because its HTTP
client has timeouts; the clock advances; an abandoned generator is finalized by
the event loop. No fairness is assumed for `Webhook`, `Request` and `Stop`:
nobody has to call, and nobody has to leave. `Resume` is fair because a transport
that cannot send is told to stop sooner or later. `Listen!Fairness` has main's
own steps, connecting, polling and the deadline; the server owes the client no
frame, and the target need never be reached. `System!SystemFairness` has the
client's main, its stream (a dead connection ends with the read timeout), its
poll and the coroutine that serves the stream; nothing has to be published, fail or
recover, no deadline has to expire, and the server need not notice a dead
connection. `Setup!Fairness` has
each run's own steps and GitHub's answer to a request; nobody has to begin, to
fail or to change the list.

**What a queued event may wait for.** `LossReported` and `RecheckHappens` do not lean
on the bound of the webhooks: they hold however many come. `QueuedIsYielded` is
stated with an exception, a further loss, and needs it. Losses that never end can
put off a queued event for ever: a loss is reported before the queue is looked at
(`app.py:186-192`), during that frame the recheck falls due, it goes first (193),
and by its end there is a new loss to report. `MaxArrivals` would hide that cycle,
so that the property says it: once losses stop, everything queued is yielded,
whatever the rechecks and the events. No document of the repository promises more.

## 4. Proofs

| Module | Theorem | Says |
|---|---|---|
| RegistryProofs | `RegistryCorrect` | `RegistrySpec => [](RegistryTypeOK /\ IndexExact /\ MatchExact)` |
| | `RegistryTypesCorrect`, `MatchingCorrect` | its parts `RegistryTypeOK` and `MatchExact` |
| GatewayProofs | `RegistrationCorrect` | `Spec => [](GatewayTypeOK /\ IndexExact /\ RegisteredWhileOpen)` |
| | `GatewayTypesCorrect` | its part `GatewayTypeOK` |
| | `NoSleepingOnLossHolds` | `Spec => []NoSleepingOnLoss` |
| | `RecheckNotStarvedHolds` | `Spec => RecheckNotStarved` |
| FifoProofs | `GatewayImplementsLossyFifo` | `Spec => ImplementsLossyFifo` |
| | `WantedInOrderHolds`, `ExactAccountingHolds` | `Spec => []WantedInOrder`, `Spec => []ExactAccounting` |
| | `SenderAgreesHolds` | `IsFiniteSet(Streams) /\ Spec => []SenderAgrees` |
| AuthProofs | `AuthTypesCorrect`, `VerdictsRecent`, `DenialsStand` | `Spec => []AuthTypeOK`, `[]AnswersRecent`, `[]DenialStands` |
| ListenProofs | `TypesCorrect`, `TasksReaped`, `ExitCodesJustified`, `CountsCorrect`, `DelaysEarned`, `SubscriptionCorrect` | `Spec =>` `[]ListenTypeOK`, `[]NoTaskOutlivesItsRound`, `[]ExitJustified`, `[]PlainCountExact`, `[]BackoffEarned`, `[]SubscriptionServesUntil` |
| SetupProofs | `SetupTypesCorrect`, `OneHookHolds`, `LastSecretHolds`, `OthersUntouchedHolds` | `Spec =>` `[]SetupTypeOK`, `[]OneHook`, `[]LastSecretIsLive`, `OthersUntouched` |
| SystemProofs | `SystemTypesCorrect`, `NothingSilentlyLostHolds`, `PrintedInOrderHolds`, `FramesIntactHolds`, `EventsExpectedHolds` | `SystemSpec =>` `[]SystemTypeOK`, `[]NothingSilentlyLost`, `[]PrintedInOrder`, `[]FramesIntact`, `[]EventsExpected` |
| | `SystemImplementsFifo` | `SystemSpec => ImplementsFifo` |

They hold for any set of streams, queries, deliveries, filters, callers, keys and
runs, any queue size (0 and below included, which asyncio takes as "no limit"), any
TTL, any page size and any value of the bounds, the number of failures and of lines
under way included. No proof uses fairness. `SenderAgrees` needs finitely many
streams: it is about a total over them. The
assumptions are those the modules name: `MaxIdAssumption`, `QueueAssumption`,
`QueriesAssumption` (the set `Filters` contains the filters of the queries),
`AuthAssumption`, `ListenAssumption` (a repository is given, and `--number` and
`--count` are integers: Typer sees to it), `SetupAssumption` and `SystemAssumption`
(the bounds are numbers, the wire has room for a ready frame, and `MaxPrinted`, the
bound on what a run prints, is not below that on what is published), and
`PlainNamesAssumption` (the empty name is not one that the client accepts, which is
why the server accepts every repository that the client does).

*RegistryProofs.* `RegistryTypeOK /\ IndexExact` is inductive: a registration adds
its id under exactly its keys, a removal takes it away under exactly its keys and
deletes the entries it empties. `MatchExact` follows from `IndexExact`, because
the filters that can select an event are filed under the event's key.

*GatewayProofs.* `RegisteredWhileOpen` alone is not inductive: nothing in it says
that the stream about to be admitted has passed the checks, that a stream without
a connection has none because its `conn` is 0, or that two streams never share an
id. `GatewayInv` adds `Admission` and `Ownership` for these. Most actions move one
program counter within a region and touch nothing that the invariant reads;
`QuietInv` deals with all of them at once.

`NoSleepingOnLoss` needs a reason why a loss seen after the count
was taken cannot be overlooked: an event is lost only when the queue is full, so
between taking the count (`lagging` to `lagged`) and looking at the queue a new
loss implies a queued event. That is `LossInv`.

*FifoProofs.* Each step maps to a step of LossyFifo or a stutter: `Accept` to
`Publish` (the index finds exactly the open subscriptions that want the event),
`Take` to `Receive`, `SendLag` to `Tell`, `Request` to `Ask`, `Admit` to `Open`,
`Close` to `Shut`; taking a count moves it from `dropped` to `lag` and changes
nothing.

What a stream's client sees is decided by the steps of LossyFifo
alone, so that `OrderInv` is proved over them and carried to Gateway by the
refinement: for each stream, what was yielded followed by what is queued is an
increasing sequence of wanted positions in the log since its registration
(`InOrder`), and together with the losses they are as many as were wanted
(`Counted`). The two lemmas about sequences that this rests on say what an event
offered does to the concatenation, and an event moved from the queue's head.

`SenderAgrees` is inductive once the types are known: an accepted webhook adds 1 to
the kept or to the lost events of exactly the streams it matches, and so as many to
the totals as it reports to GitHub.

*Sums.* The totals of `Gateway` and `System` are folds over finite sets, and a fold
is a recursive function. The prover cannot apply an induction principle that takes
a predicate, but it can use that the subsets of a finite set are well-founded: of
the subsets for which a fact about the sum fails, if there are any, one is
smallest. In this way `Sums` proves that the fold exists, that it does not depend
on the order it picks (`SumRemove`), and what an added, a renumbered and a removed
element do to it.

*AuthProofs.* A wrong verdict is old by the time since GitHub changed its mind, and
that depends on where it is: on its way to a call, in the cache, or answered.
`Recent` says of each place that the change cannot be older than that place
allows: than the call itself, which lasts at most `MaxLatency`, or than the entry's
expiry less the TTL and `MaxLatency`. `Stand` says why a denial stands that no
other call overlapped: GitHub still denies the key, the cache does not allow it,
and no call for it has `ALLOWED` on its way from the second request.

*ListenProofs.* `ListenInv` is `ListenTypeOK` with `Shape` (where the two tasks may
be in each state of main), `Cause` (what an outcome or an answer that may still
decide the run has to do with `reached`, `printed` and `trouble`), `Countdown`
(without `--until`, `remaining` is the count less the events printed, and 0 only
once the last stream has ended) and `Backoff` (the delay as a function of
`fruitless` and `ready`). `SubscriptionCorrect` is a lemma about command lines.

*SetupProofs.* `SetupBase` holds in all states: types, the order of the hooks' ids,
that the hook a run has found is ours if it is still there (`Owned`), and the
course of a request (`Flow`). `Calm`, required only while `disturbed` is false, is
the argument: only the last run is active (`Alone`), there is at most one hook
(`Single`), it is not on a page the run has already read (`Ahead`), a run about to
write has found it, or there is none (`Right`), and once the request has been
carried out its secret is the run's (`Live`). `OthersUntouched` needs only the base,
because ids are never used again and a hook never stops being ours.

*SystemProofs.* The inductive invariant is `SystemInv`: `ListenInv`, which holds
because each step of the client is one of `Listen`'s; `Checked`, that the command line served is a usable one; and `LinkInv`,
which relates the two ends:

- `SystemTypes`, and `RoundsCounted`: every stream but the present one has failed,
  each at its own cost in `faults`, and none that is still to come has a
  subscription;
- `FreshStream`: nothing is under way before the server has answered;
- `LinesWellFormed`: the lines under way, those that the parser holds included, are
  the lines of whole frames (`Grammar`), of which the last may lack its end once
  the connection is broken (`Ended`). This is why the parser never makes a frame
  that was not sent. The parser's state has to count as lines for it: it is not
  enough to look at the wire;
- `InOrder`: the positions printed, then those under way, then those queued, are an
  increasing sequence of wanted events in the log, and the latter two are beyond
  `since` (`PrintedRight`, `WireRight`, `QueueRight`). A reconnect keeps the first
  part because the new subscription begins at the end of the log;
- `Accounted`: the equation of `NothingSilentlyLost`, for every connection that is
  not broken and has a subscription, and not only for those where the client has
  already said that it is subscribed.

The proof goes by kinds of steps: those that touch neither the wire nor the server
(`AsideKeeps`), a new stream, the failures (`LossKeeps`, where a prefix of the lines
stays), and one lemma for each step of the server. `Read` is the hard one:
`ReadEffect` says what the parser makes of the first line in terms of `UnderWay`
(the line moves over, or a frame leaves its front), `HandleEffect` what the client
makes of the frame, and `Balance` that the sides of the equation then agree. That
needs sets of positions counted after a shift, and the sum of the lag counts after
one, hence the lemmas on `Plain`, `Named` and `LagIn`, and `Sums`.

**Only model-checked.** The liveness properties (`LossReported`, `QueuedIsYielded`,
`RecheckHappens`, `DisconnectUnregisters`, `ShownStateExits`,
`PlainDeadlineExits`, `KeepsUp`, `Resubscribes`, `RunsEnd`), which are out
of the prover's reach. Every invariant and every action property of section 3, and
both refinements, are proved.

## 5. Where the code departs from what it says

- **`leak`**: the registration (`app.py:172`) precedes the first await of the
  generator (175), and the `try` whose `finally` unregisters begins after it. A
  client that leaves in between stays registered for ever. The docs say that its
  filters are removed at once (`docs/specs/02-delivery.md:30`).
- **`auth_revoked`**: `verify` reads the cache before its requests and writes it
  after them (`auth.py:108`). A call that GitHub allowed before a revocation, but
  whose answer comes late, overwrites the denial that another call has recorded in
  between, and the key is allowed from the cache for a full TTL.
  `docs/specs/03-auth.md:41` says that after a revocation every later connection
  is denied. `DenialStands` shows that a denial stands if no
  other call for the key was in flight when it was given.
- **`listen_timeout`**: with `--until`, a `--timeout` that expires while the
  cancelled task is awaited (`listen.py:271-272`) is swallowed; if that round ends
  in a retry, `listen` runs on without a deadline. `README.md:213` of the
  repository says exit 124.
- **`listen_count`**: with `--until`, a stream that has just printed its last
  counted event loses its outcome if the poll fails in the same turn of the event
  loop (`listen.py:273-274`); `listen` reconnects and prints more.
- **`listen_reviews`**: the poll for `approved` and `changes_requested` reads one
  page of reviews (`until.py:42`), so a late review is never seen by polling,
  where `skills/gh-babysitter/reference/reliability.md:36` promises at most one
  poll interval.

## 6. Not modelled

- The HMAC of a webhook and the parsing of JSON: a delivery says whether it is
  signed and what shape its body has. Wording and formatting of what is printed.
- Settings: their precedence (flag, environment, file), the derivation of the API
  URL, and the validation of the server's settings, all pure functions of strings
  read once. Typer's wiring and `--version`; where a token is looked for (a run
  finds one or not). Packaging and the live test scripts hold no logic of the system.
- Times as numbers, except in `Auth`: a deadline passes at some moment, a sleep
  ends at some moment. So nothing is said about intervals that do not fit each
  other, as a `ping_interval` at or above the client's `stream_timeout`, with which
  every quiet stream would be torn down and reopened.
- A `recheck_interval` of 0 or below, which the code does not refuse: the model
  takes it to be positive, as every documented configuration has it.
- In `System`: what the server still sends on a dead connection, its late answer to
  a request that the client has given up on (both would only fill or empty a
  subscription that nobody reads), answers of GitHub that are not JSON, and what
  `Gateway` shows of the server's suspension points: `System` uses the abstract
  server that `Gateway` implements.
- In `Auth`, an answer of GitHub that names a user without a login.

## 7. What could come next

1. Several `listen` runs against `Gateway` itself, in one composition; it would add
   the leaked registrations of section 5 to what a client sees, at the price of a
   far larger state space.
2. The gateway with a recheck interval of 0, and a run with an unbounded queue
   (the proofs cover the latter).
3. The two refinements in one theorem: `System` with `Gateway` in the place of
   `LossyFifo`, of which each half is proved now.
