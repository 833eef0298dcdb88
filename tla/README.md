# Formal models of tekton-events-relay

tekton-events-relay receives Tekton CloudEvents over HTTP, runs each through a
chain (validator, filter, deduper, enricher, dispatcher) and calls the
configured action handlers: source-code hosts (SCM), chat, incident and
message-bus notifiers. Permanent failures go to a dead letter queue that an
operator can replay; the configuration is reloaded while events flow.

This directory holds TLA+ models of the parts in which concurrency, failure and
ordering decide whether the relay is correct, the TLC configurations that check
them on small instances, and TLAPS proofs of the most important results for
every value of the constants.

```
tlc -workers 2 -config RelayShared.cfg MCRelay     # a run
tlapm RelayProofs.tla                              # the proofs of a module
```

## 1. Inventory

| Component (source) | State | Operations | Interacts with | Hard behaviour | What makes it correct |
|---|---|---|---|---|---|
| HTTP handler, chain, dispatcher (`internal/http/handler.go`, `internal/pipeline`) | request goroutines; IDs in the dedupe store | receive, decode, validate, filter, dedupe, dispatch, answer 200/400/503 | store, handlers, queue | concurrent requests of one ID, cancelled clients, retransmission, crash between steps | an acknowledged event is delivered, queued or accounted for; one dispatch per ID |
| Key-value stores (`internal/store`) | recorded IDs, counters | FirstSeen, Get/Set, expiry | deduper, accumulator | lookup and insert in two steps in process; backend errors | first sight is decided once |
| Dead letter queue (`internal/dlq`) | a JSON-lines file | Enqueue, List, Remove, Scan, Size, purge | HTTP handler, replay, retention goroutine | crash during a rewrite, size bound, retention | one line per ID, whole operations, nothing accepted is lost |
| Replay and list endpoints (`internal/http/dlq.go`) | a snapshot of the queue | replay, page | queue, chain | races with live requests, dedupe of replayed IDs | only delivered entries leave the queue; a page is inside the list |
| Hot reload, startup, shutdown (`cmd/receiver`) | registry and chain pointers, debounce timer, config file | reload, swap, close, drain, exit | every handler | reload meets requests and shutdown; invalid config; handlers closed while in use | one configuration; handlers and store open while they are used; replaced ones closed and flushed; what is closed at exit was flushed |
| Batching wrapper (`internal/notifier/batch`) | channel, buffer, ticker, goroutine | Handle, flush, Close | chat and webhook notifiers, queue | send racing close, full channel, flush racing fill | accepted events leave once, in order, in bounded batches; Close leaves nothing |
| Accumulator (`internal/accumulator`) | LRU or store buffer, group table | Handle, flush, evict | SCM comment handlers | ends of a group's members racing, late TaskRuns, eviction, failed post | every TaskRun is in exactly one summary |
| SCM handlers (`internal/notifier/scm`) | none (GitHub: a label cache); the provider's page is the state | comment, upsert, thread, incident, deployment, check run, status, label | provider APIs, people | find-then-create races, lost replies, repeated POSTs, paging, half-done label sets | no unexplained duplicate; success means the page shows it; foreign items untouched |
| Retrying HTTP client (`internal/httpx`) | one shared client | DoWithRetryPolicy | most notifiers | calls configure the shared client concurrently | a call runs under its own policy |
| Notifier wrappers (`internal/notifier`, `internal/notifier/middleware`) | dedupe keys | condition, filter (SCM actions only), dedupe | dispatcher, handlers | recording before acting, shared names | an event is held back only where one of its name was let in |
| Chat and mail notifiers (`slack`, `discord`, `teams`, ...; `msgstore`) | message reference per run | post, update, reply, flush a batch | msgstore | load, post, save racing; references expiring or lost with the process | one message or one thread per run; it shows the last state |
| Alerting, annotation and issue notifiers (`pagerduty`, `opsgenie`, `incidentio`, `grafana`, `sentry`, `jira`) | none; the service's alert, release or issue is the state | trigger, resolve, annotate, release and deploy, create, transition | external services | retried trigger after a resolve, second of two requests failing | success means the service shows it |
| Metrics and stream notifiers (`datadog`, ..., `kafka`, `nats`, `rabbitmq`, `redispubsub`) | connection, closed flag | one send per event, Close | brokers | publish racing Close | nothing comes out after Close |
| Configuration (`internal/config`, `runValidation`) | the file; what runs | Load, defaults, Validate, ValidateAll, warn of what needs a restart | factories, reload | rules spread over validators, tags and factories; values read at start and at reload | what is accepted can be built; what runs is what a restart would run, or was warned of |
| Factories (`internal/factory`, `internal/secrets`) | the registry being built; goroutines and connections opened | BuildAll, one Build per kind, accumulator lookup | every handler | the n-th instance fails, names shared | nothing is left open but by a failed build; a dedupe key belongs to one instance |
| Clients and tokens (`app_client.go`, `oauth2`) | cached token and expiry | Token, refresh | SCM handlers | concurrent refresh | a used token is valid |
| HTTP middleware (`internal/http/middleware`) | limiter per client | auth, rate limit, body limit, recovery | handler | table bound, cleanup | limits hold |
| Decoders, CEL, metrics, tracing, logging | none between events | parse, evaluate, observe | all | - | functional |

`PROJECT.json` lists every component with its status, and under `hazards` each
place in the code where something can go wrong that a test would hardly reach.

## 2. Plan

Done, in this order:

1. `Relay` - the event path with dedupe, dead-lettering and replay (`RelayProofs`).
2. `QueueOps`, `DeadLetters`, `FileQueue` - the queue's file; `DeadLetters` is
   the abstract specification and `FileQueue` implements it (`FileQueueProofs`).
3. `Batch` (`BatchProofs`).
4. `Reload` (`ReloadProofs`): composes the watcher, requests and shutdown.
5. `Accumulator` (`AccumulatorProofs`).
6. `Scm` - all SCM action handlers as call sequences against a provider's page
   (`ScmProofs`).
7. `NotifyHandlers`, `Notify` - every notifier as a sequence of requests, the
   wrappers, the message store and the shared retrying client (`NotifyProofs`).
8. `ConfigChecks`, `Config` - validators and factories as operators over an
   instance of the configuration, composed into start, reload and `-validate`
   (`ConfigProofs`).

Next:

9. The client table of the rate limiter and the refresh of an installation
   token, as modules of their own.

## 3. Modules and how they correspond to the code

`MC*` modules only define constant values and symmetry for TLC. Definitions
whose comment begins with "Mutant" are deliberately wrong variants of the
definition after them; no specification uses them. Variables called history in
their comment, and `mark`, `latest`, `excused`, exist for the properties only.

**Relay.** A slot is a goroutine that runs the chain, for a request (`Receive`)
or for one entry of a replay (`ReplayEntry`). `Fate` and `Matched` stand for the
stateless front of the chain (parse, decode, validate, filter) and for the
dispatcher's match; `FirstSeen` is one step for a shared store and a lookup and
an `Add` for the in-process one. The handlers of a dispatch are called in any
order, each ends well, retryably or permanently; `Join` classifies as
`dispatcher.go` does, `Preserve` enqueues, `Remove` is the replay's deletion.
Faults are store errors, expiry, clients that go away, crashes, failing enqueue
and remove, purge. `mark` records which mishap happened to an event.

**QueueOps / DeadLetters / FileQueue.** `QueueOps` has the list functions of
`file.go` (`Upsert`, `Without`, `Unexpired`, `Compact`). `FileQueue` has the
mutex, the read, the line-by-line write of the temporary file, the rename, and
a crash at every point. An entry is an ID, a time, a retry count and a length;
the loops over the list are recursive functions of the position reached, in
the order of the code's loops.
The list endpoint reads `List` and `Size` in two critical sections and cuts a
page.

**Batch.** The check and the send of `Handle` are two steps, as the code
releases the mutex in between; `Receive`, `FlushFull`, `Tick`, `FlushSends`,
`FlushFails`, `EnqueueFailed` and `RunEnds` are the goroutine; `CloseCall`,
`CloseDrains`, `CloseFlushes` are `Close`.

**Reload.** `watchConfig` in its steps (trigger, debounce, load, build, swap of
the registry, swap of the chain, close of the old handlers), requests that load
the two pointers at different times, and the shutdown: the wait for requests,
which may run out, then `Look` at the registry of that moment, the `Close` of
its handlers in two steps (they are marked closed; what they held is sent and
their connections are shut), the store, and the exit, which waits for no reload.
A registry is one unit; what a failed build leaves open belongs to none and is
in `Config`.

**Accumulator.** One action per critical section of the buffer or command of
the store; the summary is in a goroutine's hand between flush and post.
`RunId` is a parameter: what the decoders put there decides one of the findings.

**Scm.** A page is a pull request, issue or commit with its handlers; `Pages`
enumerates every handler of the six providers. `Handler(...)` records what
distinguishes them: the procedure (create, upsert, thread, incident, deploy,
put, lookup), whether the listing is one page, whether the client repeats
calls, and the provider's word for each state. Each provider call is an action;
it may fail before or after its effect. Label handlers differ in order, in
leniency and in which labels they make. People comment and delete meanwhile.
`ran` tells of a call, for the properties, whether it had its slot to itself
and left nothing out (`alone`) or not (`disturbed`).
Conditions, filters and validation that keep an event from any call change nothing
and are left out, but the length check of label names is in it, because GitHub, Gitea and
Azure make it between calls. The model takes instances to be named after their
provider; GitLab and Gitea's status reporter look the limits up under the
instance's name and find none under another. The SourceHut build's exit code is
left out (it passes for every state but failure and error).

**Notify.** `NotifyHandlers` has one definition per handler: a record of what
distinguishes it (the procedure, on which states it acts and how, whether it
keeps a message reference, waits for its broker, has one or two requests).
`Notify` runs them: `Enter` and `Dedupe` are the wrappers, `Load`, `Save`,
`Evict` the message store, `SetPolicy` and `SetTransport` the writes of
`DoWithRetryPolicy` into the shared client, `Attempt` one attempt of a request
with its possible outcomes, `Annotate` Grafana's dashboards side by side,
`Check` and the two steps of `Close` the stream handlers. `NotOffered` is the
Jira transition that the issue's workflow does not list: the handler reports
success and does nothing. `Accepted` says what a service can take, `MayRefuse`
what it may refuse without a fault. A batch is an event
of several runs. A build is a replica or a configuration: each has a message
store of its own, and calls in flight stay in the build they started in. People
delete messages and close alerts; a process dies. What a service has is an item
with the event it came with (`of`) and what it shows (`about`); it is open,
resolved or deleted (`is`). A call carries in `met` whom it met on its way:
another call of its run, or another user of the shared client.

**ConfigChecks / Config.** An instance of the configuration is its kind, its
name, its switches and, for each setting, whether the value can be used, does
not compile or parse, needs the template helper functions, or names something
that is not there. `ConfigChecks` has a validator and a factory for each of the
26 kinds, in that language. `Config` puts them together: `LoadFails` and
`LoadSucceeds` are `config.Load`, `BuildInstance` is one factory call in
`BuildAll`'s order, `BuildLast` the accumulator, `Serve` the rest of `newApp`,
`Swap` and `CloseOld` the end of `reload`. A registry is the set of the handlers
registered, each with the build and the position of the instance it was made
of (0: the accumulator). `open` are the goroutines of batching
wrappers and the connections of stream notifiers. `Reload` has the
interleaving of the same reload with requests and shutdown, `Config` the
content of what is loaded.

## 4. Runs

| Run | Question | Bounds | Result |
|---|---|---|---|
| `relay_shared` | Is every acknowledged event accounted for, dispatched once per ID, and does the queue change only as it should? | 2 events, 2 handlers, 2 slots, 1 replay call, 2 sends each, any 2 faults | holds |
| `relay_memory` | With the two-step in-process store and events that leave the chain early: is every request answered and does every replay call end? The safety of this instance is the theorem `EveryAckAccounted`, as `DeadLettersMove` for both kinds of store. | 5 events, one per fate, 2 slots, 1 fault; of the events that leave early, one transmission each (`FrontOnce`) | holds |
| `relay_nothing_lost` | README: "Nothing lost" | 1 event, no fault | violated |
| `filequeue` | Does the file keep one line per ID, its bound and, until compaction evicts it, what it accepted, through enqueues that overlap, failed writes and crashes; is a file that can no longer be read left alone; does it implement `DeadLetters`; is a page inside the list? | 2 IDs, 2 callers, 3 operations, lengths 1-3 of which 3 exceeds the scanner, file of 3 | holds |
| `batch` | Are accepted events conserved, in order, all gone after Close, sent by the ticker at the latest, and do Handle and Close return when the channel is full? | 5 events, 2 closers, MaxSize 2, callers in the order of their names (`InOrder`) | holds |
| `batch_panic` | Does Handle survive a Close? | 2 events, 1 closer | violated |
| `reload` | Do chain and handlers come from one configuration; are handlers and store open under a request until the shutdown's time runs out; is every replaced registry closed and flushed; is everything flushed when the process ends but for a reload it overtakes; no way back; is the last change adopted? | 2 requests, 2 file changes, 1 signal | holds |
| `accumulator` | Is every TaskRun in one summary and is no complete group forgotten? | 3 PipelineRuns (2 in a group), 3 TaskRuns, 2 goroutines, 5 calls, 1 mishap | holds |
| `accumulator_keys` | The same with the run IDs the decoders give | 2 calls | violated |
| `scm` | Duplicates, reflected state, items changed or removed by others than their own handler, labels | every page, 2 runs, 2 workers, 3 events, 1 fault, pages of 1 comment and 2 labels | holds |
| `notify` | Second messages, threads, reported state (of a transition: moved, or not offered), dedupe, retry policy, publish against Close | each distinct handler alone, two that share a name, two with different policies; 2 runs, 2 workers, 2 builds, 3 calls, 1 fault | holds |
| `config` | What is accepted but cannot be built, what is left open, which handlers share a dedupe key, what a reload leaves stale | every kind with each single setting dropped, added, malformed or unreadable, pairs, accumulators, sections and limits: some 1150 files; start, one change to any of them, a second to a setting or a good file, 3 builds | holds |

Why the bounds are enough: every hazard listed takes at most two goroutines of
the same kind, one fault (two where a fault hides another), and as many events
as the longest chain of cause needs: first sight, duplicate and replay in
`Relay`; enqueue, replacement and compaction in `FileQueue`; a full channel and
one more in `Batch`; a run, a rival and a later event in `Scm` and `Notify`; a
start and two reloads, one of which may fail, in `Config`, whose rules look at
one setting or a pair that a good file has. Handlers that differ in wording
only are one in `notify`. `HasQueue = FALSE` of `Batch` is in the proofs and in
`batch_panic`. The proofs
remove the bounds for the main invariants. Deadlock checking is off because each
model ends when its bounded inputs are used up; the liveness properties check
that nothing hangs.

Every property of a passing run has a mutant in `PROJECT.json`: a plausible
error in one definition for which TLC reports that property. The type
invariants of `Relay`, `Batch`, `Reload` and `Accumulator`, and the size of a
batch, are theorems for every instance and in no cfg; those of `FileQueue`
(within `FileSound`), `Scm`, `Notify` and `Config` are checked.

### What the violations show

- `relay_nothing_lost`: the deduper records an ID before the dispatch and
  keeps it when the dispatch fails; the retransmission that a 503 asks for is
  answered 200 as a duplicate. `AckedAccounted` is the property that does
  hold: each loss has a named cause.
- `batch_panic`: `Handle` checks `closed`, unlocks and sends; `Close` may close
  the channel in between.
- `accumulator_keys`: TaskRun events carry the TaskRun's UID, the flush looks
  for the PipelineRun's, and no summary is posted.

### Disagreements met without a run of their own

- A replay inside the dedupe window is dropped by the deduper, counted as
  replayed and removed from the queue (`dlq.go:271`; the mark `swallowed` in
  `Relay`, excepted in `DeadLetterStep`).
- `FirstSeen` of the in-process store is a lookup and an insert; two requests
  can pass between them (`AtMostOncePerId` is therefore a property of `relay_shared` only).
- The list endpoint cuts its page by a size read after the list: if the queue
  grew in between the slice is out of range (`PageInBounds` excepts it).
- An entry that fails again keeps its old place in the file, so compaction
  drops by first, not last, failure; lines over the scanner's 4 MB cannot be
  read back although the file may hold 10 MB.
- The batch factories pass no queue: events of a failed flush are lost.
- A reload stores registry and chain one after the other, and closes replaced
  handlers while requests still use them, although `reload.go:68` says
  in-flight events keep the old chain.
- Comment upsert is called idempotent "across retries, restarts and multiple
  replicas" (`upsert.go:8-12`). `DuplicatesExplained` lists when it is not:
  overlapping events of one run, a failed or cut listing, a repeated POST.
- `discussion.go:111` promises an unresolved thread after a failure; a resolved
  one stays resolved.
- Gitea and GitLab read one page of labels; a label beyond it is not removed
  and is created again or refused.
- `DoWithRetryPolicy` "honoring the given RetryPolicy" sets that policy on a
  client shared by all calls; `OwnPolicy` holds of calls that do not overlap.
- The dedupe key of a handler is its `Name`, and every Slack instance is named
  "slack" (as other kinds have one name): of two instances with dedupe, one
  lets each event in and the other drops it. The mark is made before the inner
  handler's condition, so it may be that none reports the event
  (`OnlySeenDropped`, `KeyOfOne`).
- Slack and Discord in grouped mode save the ID of every message they post, a
  reply's too (`slack/notifier.go:322-324`), so a third message replies to a
  reply, where `slack/notifier.go:312-313` says "first event posts top-level,
  subsequent events reply in the thread". `OneThread` asks for one chain of
  replies.
- A Jira transition that is not offered is a success (`jira.go:215-217`,
  `236-239`), whether the issue was moved before or never can be: `Reported`
  excepts it.
- `template_validators.go:21` says that validation rejects malformed
  expressions before handlers are built. It does not for Grafana, Sentry,
  PagerDuty's severity, and the kinds that `validateNotifiers` leaves out;
  `AcceptedBuilds` names every such setting. Conversely an
  inline template that uses a helper function is refused by `Load` although
  its handler would compile it.
- The accumulator's provider is looked up by the handler's name, so that of a
  Slack instance called "ci" is "slack"; no validator looks at it.
- `reload.go:70` lists the sections that need a restart; retry, dedupe_size and
  parts of the listed ones (retention, timestamp checks, store credentials)
  need one too and are not warned of.
- A failed build leaves open what it had opened (`OpenAccounted`).

## 5. Fairness

Only what the Go runtime and the code guarantee is assumed.

- `Relay`: weak fairness of each goroutine's steps (a handler call ends, as
  the dispatcher gives it a deadline, 10 seconds by default), strong fairness of a replay loop
  taking its next entry, since other requests may occupy the slots meanwhile
  but a goroutine is never refused for good.
- `Batch`: weak fairness of the goroutine and of `Close`; strong fairness of
  each blocked send, because the runtime queues senders of a channel in order.
- `Reload`: weak fairness of `watchConfig`, the last flush of the handlers it
  replaces included, and of the debounce timer. Nothing is assumed of people,
  signals, requests, clients or the shutdown. That the shutdown ends is not
  stated: with a `Close` that is assumed to end it would follow from the
  fairness alone, and without that assumption it does not hold.

## 6. Proofs

All constants are arbitrary, within the named assumptions of each module:
bounds are natural numbers, the slots of `Relay` are finitely many, a caller of
`FileQueue` is not called None, the files of `Config` have the shape of a
configuration, the label lists of `Scm` name labels, the
handlers of `Notify` are told apart by their IDs. Each inductive invariant
was checked by TLC on the module's run before it was proved.

| Module | Theorems | Inductive invariant and why |
|---|---|---|
| `RelayProofs` | `TypeCorrect`, `EveryAckAccounted`, `DeadLettersMove`, `DispatchedOnce` | `AckedAccounted` speaks of acknowledged events; it needs `SlotsSound` (what a goroutine at each step knows of its event, so that its answer is justified) and `StoresSound` (an ID in the store means someone accounts for the event: otherwise a duplicate's 200 would not be). `DeadLettersMove` adds `ErrorsSound`: a goroutine has met no error before its dispatch, only permanent ones when it preserves an event and none when it removes an entry. `DispatchedOnce` counts: the calls made of a handler, with those still owed by goroutines past the deduper, are at most the times the store forgot the ID, and one more if it is recorded (`CallsPaid`). It assumes the shared store: the in-process one checks and adds in two steps |
| `FileQueueProofs` | `FileStaysSound`, `NoLetterLost`, `PageStaysInBounds`, `StuckLettersKept`, `QueueImplemented` | `IInv` of `FileQueue`: one caller holds the mutex (`Exclusive`), what is written so far is a prefix of what its operation makes of the file, which has not changed since it was read (`Writing`), and what `List` returned is all that the page may need unless the queue grew since (`PageFresh`). The lemmas before it say, for lists of any length, what replacing, removing, expiring and compacting leave, keep and bound |
| `BatchProofs` | `TypeCorrect`, `AcceptedConserved`, `BatchesBounded`, `CloseLeavesNothing` | `Conserved` needs `RunPhase` (where the goroutine is, and so which of batch and buffer may hold events) and `ClosePhase` (one closer finishes, after the goroutine ended); lemmas on concatenation move events between the queues |
| `ReloadProofs` | `TypeCorrect`, `ConfigurationsMatch`, `ServedWhileOpen`, `ReplacedAreClosed`, `ExitLeavesFlushed`, `ConfigurationAdvances` | `Pointers` (where the two pointers stand at each step of a reload), `OpenOnes` (which registries are closed and flushed then), `OpenStill` (what a request may still find open), `Ending` (how far the shutdown is with the registry it took), `InOrder` (versions grow) |
| `AccumulatorProofs` | `TypeCorrect`, `EveryTaskAccounted`, `CompleteGroupsPosted`, `NothingSummarised`, `NeverShownTwice` | `EntriesPlaced` (a TaskRun is under its own key), `HeldToPost` (what a goroutine holds it will post), `GroupsAttended` (a complete group has a goroutine on its way). `NothingSummarised` is the finding of `accumulator_keys` for every instance: under `OwnUids`, what the decoders do, no TaskRun without a group is ever in a summary. `Summarised`, which holds only with run IDs that the decoders do not give, is model-checked and not proved. `NeverShownTwice` counts the copies of a TaskRun that are shown, held or buffered against the calls that brought it (`CopiesPaid`) |
| `ScmProofs` | `TypeCorrect`, `OneEach`, `ReportsStand`, `OthersUntouched`, `LabelsAsAsked` | `IInv` of `Scm`. A page without an explained duplicate stays so because a call that is about to create found nothing and nobody else can have created since (`Vacant`, for calls without rivals; `Rivals`: calls that overlap are excused); what is reported is shown because the item a call goes on with is its own (`Found`) and an incident is closed only when it is the one open; labels converge by what each label call has done at its step (`Progress` in `Labelling`). A step changes the items of one slot only, so each action restores the parts for its own slot and one lemma gives the rest |
| `NotifyProofs` | `TypeCorrect`, `DuplicatesHaveReasons`, `ReportsStand`, `ThreadsHang`, `DropsOnlySeen`, `PolicyOfOwn`, `SilentAfterClose` | `IInv` of `Notify`, per handler and run. Without overlap, restart, eviction or a change of build one build has the reference and its only call uses it (`OneRef`); so the one message is what is referred to or about to be, and there is none when another is posted (`OneMessage`), and a reply is to the end of its thread (`Hanging`). With a shared store an event is recorded before it is told, and by one call (`ToldOnce`). Calls that overlap know it (`Rivals`), so what a call reports undisturbed is the last that was done (`Settled`, `Knows`). A call that has set its policy finds it until another sets its own (`PolicyFound`); what is closed is disconnected (`Detached`). Of a handler the proofs use only that it begins with a request of its kind and keeps to its client (`IsHandler`), which TLC evaluates for the handlers of the run, one of each kind |
| `ConfigProofs` | `TypeCorrect`, `ValidatedFilesBuild`, `NothingLeaksBut`, `DedupeKeysApart`, `ReloadedAsRestarted` | `IInv` of `Config`: which configurations have been loaded at each stage, and that what is serving differs from what a restart would serve only in warned sections (`Stages`); a registry holds what the factories make of its configuration's instances, is of one build, and owns what that build opened (`Registries`). `ValidatedFilesBuild` goes kind by kind: for each of the 26 factories, a setting it refuses is one its validator refuses, is absent from the environment, or is one that `Unchecked` or `UncheckedByLoad` names. It holds of files with any number of settings wrong at once, of which the run has only single ones and pairs |

No proof takes a recursive definition's value on trust: what the loops of
`QueueOps` and the counts of `Relay` and `Accumulator` compute is proved from
their definitions, by a least counterexample (`WFMin` of the library on the
natural numbers) in place of an induction rule, or from the library's facts on
cardinality.

Left to TLC: all liveness (fairness and `ENABLED` are beyond the prover), that
is `CallsEnd`, `AcceptedLeaves`, `CallsReturn` and `EventuallyCurrent`; and
`Summarised`.

## 7. Not modelled, and why

Formatting, JSON, URLs, metrics, traces and logs change nothing that the
properties speak of; of a template only whether it compiles matters. CEL is a
library: a condition is a predicate. Brokers, databases and provider APIs are
external and appear as far as the relay uses them. The rate limiter's table of
clients and the refresh of tokens are left for later.
Authentication, body limit and recovery keep no state. The wrapper that gives
each task its own status context only renames what a status handler of `Scm`
writes, and waiting for a rate limit only delays a call. The run of `Config`
has no file with two settings wrong at once in one instance, except a missing
file with a missing inferred one (the proofs cover all); `ValidateTokenReferences` is called by tests only.
A provider call that takes effect only after its caller has given up
and a later event has listed the page is not in `Scm`. The fallback
routing of `dispatcher.go` is not, as the binary never enables it.
