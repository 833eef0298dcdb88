------------------------------- MODULE Relay -------------------------------
(***************************************************************************)
(* The path of a CloudEvent through one relay process: the sender (the     *)
(* Tekton events controller) posts it, CloudEventsHandler runs the chain   *)
(* validator -> filter -> deduper -> enricher -> dispatcher, the handlers  *)
(* are called, and the request is answered 200, 400 or 503; an event that  *)
(* failed permanently goes to the dead letter queue, from which an         *)
(* operator replays it through the same chain.                             *)
(*                                                                         *)
(* Many requests and replays run at once, one goroutine each; a slot is    *)
(* one such goroutine. The enricher (it only fills a link), metrics, logs  *)
(* and tracing are left out. A handler's call and its return are one step; *)
(* the order in which a dispatch calls its handlers is left open, as the   *)
(* goroutines of the errgroup start in any order.                          *)
(***************************************************************************)
EXTENDS Naturals, FiniteSets

CONSTANTS
  Events,       \* CloudEvent IDs, one per envelope
  Handlers,     \* the registered action handlers
  Slots,        \* goroutines that can run the chain at the same time
  Jobs,         \* calls of POST /api/v1/dlq/replay
  OverrideId,   \* the CloudEventID every entry gets under a timestamp override
  Fate,         \* what the stateless front of the chain does with an event
  Matched,      \* the handlers whose provider or type matches the event
  DeadLetter,   \* is a dead letter queue configured?
  SharedStore,  \* valkey/olric (TRUE) or the in-process LRU (FALSE)
  Faults,       \* the kinds of fault the environment may inject
  MaxFaults,    \* bound on the number of faults
  MaxSends      \* bound on the transmissions of one event

Fates == {"unparsable", "undecodable", "invalid", "filtered", "ok"}
FaultKinds == {"storeError", "expire", "gone", "crash", "enqueueFails",
               "removeFails", "purge"}
Ids == Events \cup {OverrideId}

ASSUME RelayAssumption ==
  /\ Events # {} /\ OverrideId \notin Events
  /\ IsFiniteSet(Slots) /\ Slots \cap Jobs = {}
  /\ Fate \in [Events -> Fates]
  /\ Matched \in [Events -> SUBSET Handlers]
  /\ DeadLetter \in BOOLEAN /\ SharedStore \in BOOLEAN
  /\ Faults \subseteq FaultKinds
  /\ MaxFaults \in Nat /\ MaxSends \in Nat

\* the kind of a slot that serves a CloudEvent request (a replay's is its job)
Live == "event"
ASSUME LiveAssumption == Live \notin Jobs

VARIABLES
  sender,     \* what the sender knows of each event
  sends,      \* transmissions of each event so far
  pc, ev, id, kind, todo, errs, gone,   \* the goroutine in each slot
  seen,       \* IDs recorded in the dedupe store
  dlq,        \* events in the dead letter queue
  job,        \* state of each replay call
  jobTodo,    \* entries of its snapshot the replay call has not started
  jobGone,    \* replay calls whose client gave up
  faults,     \* faults injected so far
  delivered,  \* history: <<event, handler>> pairs handled without error
  invoked,    \* history: calls of each handler under each dedupe identity
  forgot,     \* history: times the store forgot, or never recorded, an ID
  mark        \* history: what happened to each event that may lose it

slotVars == <<pc, ev, id, kind, todo, errs, gone>>
histVars == <<delivered, invoked, forgot, mark>>
jobVars == <<job, jobTodo, jobGone>>
vars == <<sender, sends, slotVars, seen, dlq, jobVars, faults, histVars>>

SenderStates == {"new", "waiting", "retry", "acked", "rejected"}
Marks == {"backpressured", "crashed", "unpreserved", "swallowed", "purged"}
\* where a goroutine is; "add" is between Get and Add of the in-process LRU
Stages == {"idle", "received", "dedupe", "add", "dispatch", "preserve", "remove"}
ErrorKinds == {"retryable", "permanent"}

TypeOK ==
  /\ sender \in [Events -> SenderStates]
  /\ sends \in [Events -> Nat]
  /\ pc \in [Slots -> Stages]
  /\ ev \in [Slots -> Events]
  /\ id \in [Slots -> Ids]
  /\ kind \in [Slots -> Jobs \cup {Live}]
  /\ todo \in [Slots -> SUBSET Handlers]
  /\ errs \in [Slots -> SUBSET ErrorKinds]
  /\ gone \in [Slots -> BOOLEAN]
  /\ seen \subseteq Ids
  /\ dlq \subseteq Events
  /\ job \in [Jobs -> {"unused", "plain", "overridden"}]
  /\ jobTodo \in [Jobs -> SUBSET Events]
  /\ jobGone \subseteq Jobs
  /\ faults \in Nat
  /\ delivered \subseteq Events \X Handlers
  /\ invoked \in [Ids \X Handlers -> Nat]
  /\ forgot \in [Ids -> Nat]
  /\ mark \in [Events -> SUBSET Marks]

Init ==
  /\ sender = [e \in Events |-> "new"]
  /\ sends = [e \in Events |-> 0]
  /\ pc = [s \in Slots |-> "idle"]
  /\ ev \in [Slots -> {CHOOSE e \in Events : TRUE}]
  /\ id = ev
  /\ kind = [s \in Slots |-> Live]
  /\ todo = [s \in Slots |-> {}]
  /\ errs = [s \in Slots |-> {}]
  /\ gone = [s \in Slots |-> FALSE]
  /\ seen = {}
  /\ dlq = {}
  /\ job = [j \in Jobs |-> "unused"]
  /\ jobTodo = [j \in Jobs |-> {}]
  /\ jobGone = {}
  /\ faults = 0
  /\ delivered = {}
  /\ invoked = [c \in Ids \X Handlers |-> 0]
  /\ forgot = [i \in Ids |-> 0]
  /\ mark = [e \in Events |-> {}]

-----------------------------------------------------------------------------
(* The environment: faults, the sender, and the slots it starts.           *)

Fault(f) ==
  /\ f \in Faults
  /\ faults < MaxFaults
  /\ faults' = faults + 1

Stain(e, m) == mark' = [mark EXCEPT ![e] = @ \cup {m}]
Goto(s, stage) == pc' = [pc EXCEPT ![s] = stage]

\* A goroutine starts running the chain in a free slot.
Start(s, e, i, k, cancelled) ==
  /\ pc[s] = "idle"
  /\ Goto(s, "received")
  /\ ev' = [ev EXCEPT ![s] = e]
  /\ id' = [id EXCEPT ![s] = i]
  /\ kind' = [kind EXCEPT ![s] = k]
  /\ todo' = [todo EXCEPT ![s] = {}]
  /\ errs' = [errs EXCEPT ![s] = {}]
  /\ gone' = [gone EXCEPT ![s] = cancelled]

\* The sender posts an event, again if it saw no answer or a 503.
Send(e, s) ==
  /\ sender[e] \in {"new", "retry"}
  /\ sends[e] < MaxSends
  /\ sender' = [sender EXCEPT ![e] = "waiting"]
  /\ sends' = [sends EXCEPT ![e] = @ + 1]
  /\ Start(s, e, e, Live, FALSE)
  /\ UNCHANGED <<seen, dlq, jobVars, faults, histVars>>

\* The client of a request gives up: the context is cancelled, the goroutine
\* runs on.
ClientGone(s) ==
  /\ pc[s] # "idle" /\ kind[s] = Live /\ ~gone[s]
  /\ Fault("gone")
  /\ gone' = [gone EXCEPT ![s] = TRUE]
  /\ sender' = [sender EXCEPT ![ev[s]] = "retry"]
  /\ UNCHANGED <<sends, pc, ev, id, kind, todo, errs, seen, dlq, jobVars, histVars>>

\* The client of a replay gives up: all its goroutines share the context.
ReplayGone(j) ==
  /\ job[j] # "unused" /\ j \notin jobGone
  /\ Fault("gone")
  /\ jobGone' = jobGone \cup {j}
  /\ gone' = [s \in Slots |-> gone[s] \/ kind[s] = j]
  /\ UNCHANGED <<sender, sends, pc, ev, id, kind, todo, errs, seen, dlq, job, jobTodo,
                 histVars>>

\* The store forgets an ID: the TTL of a shared store, LRU eviction in memory.
Expire(i) ==
  /\ i \in seen
  /\ Fault("expire")
  /\ seen' = seen \ {i}
  /\ forgot' = [forgot EXCEPT ![i] = @ + 1]
  /\ UNCHANGED <<sender, sends, slotVars, dlq, jobVars, delivered, invoked, mark>>

\* The process dies and restarts. The queue is a file and survives; the
\* in-process dedupe cache does not.
Crash ==
  /\ Fault("crash")
  /\ pc' = [s \in Slots |-> "idle"]
  /\ sender' = [e \in Events |-> IF sender[e] = "waiting" THEN "retry" ELSE sender[e]]
  /\ jobTodo' = [j \in Jobs |-> {}]
  /\ mark' = [e \in Events |->
                IF \E s \in Slots : pc[s] # "idle" /\ ev[s] = e
                THEN mark[e] \cup {"crashed"} ELSE mark[e]]
  /\ \/ SharedStore /\ UNCHANGED <<seen, forgot>>
     \/ /\ ~SharedStore
        /\ seen' = {}
        /\ forgot' = [i \in Ids |-> IF i \in seen THEN forgot[i] + 1 ELSE forgot[i]]
  /\ UNCHANGED <<sends, ev, id, kind, todo, errs, gone, dlq, job, jobGone, delivered, invoked>>

\* Retention or the size bound drops an entry of the queue.
Purge(e) ==
  /\ e \in dlq
  /\ Fault("purge")
  /\ dlq' = dlq \ {e}
  /\ Stain(e, "purged")
  /\ UNCHANGED <<sender, sends, slotVars, seen, jobVars, delivered, invoked, forgot>>

-----------------------------------------------------------------------------
(* One goroutine running the chain.                                        *)

\* The response of a request; nobody hears it once the client is gone.
Respond(s, answer) ==
  sender' = IF gone[s] THEN sender ELSE [sender EXCEPT ![ev[s]] = answer]

\* The chain returned nil: a request is answered 200, a replay goes on to
\* remove its entry.
ChainOK(s) ==
  IF kind[s] = Live
  THEN Goto(s, "idle") /\ Respond(s, "acked")
  ELSE Goto(s, "remove") /\ UNCHANGED sender

\* Mutant: a replay removes its entry whatever the chain returned.
ChainPermanentRemoves(s) ==
  /\ Goto(s, IF kind[s] = Live THEN "preserve" ELSE "remove")
  /\ UNCHANGED sender

\* The chain returned a permanent error: a request preserves the event, a
\* replay leaves the entry where it is.
ChainPermanent(s) ==
  /\ Goto(s, IF kind[s] = Live THEN "preserve" ELSE "idle")
  /\ UNCHANGED sender

\* The chain returned a retryable error: 503, or a replay that failed.
ChainRetryable(s) ==
  /\ Goto(s, "idle")
  /\ \/ kind[s] = Live /\ Respond(s, "retry") /\ Stain(ev[s], "backpressured")
     \/ kind[s] # Live /\ UNCHANGED <<sender, mark>>

\* CloudEventsHandler: a request that carries no CloudEvent is answered 400.
ParseFails(s) ==
  Fate[ev[s]] = "unparsable" /\ Goto(s, "idle") /\ Respond(s, "rejected")

\* decodeEvent: no decoder for the type, or the decoder refuses it.
DecodeFails(s) ==
  Fate[ev[s]] = "undecodable" /\ Goto(s, "idle") /\ Respond(s, "acked")

\* Validator.Handle: a required field is missing.
Validator(s) == Fate[ev[s]] = "invalid" /\ ChainPermanent(s)

\* EventFilter.Handle: resource, state or namespace is not wanted.
EventFilter(s) == Fate[ev[s]] = "filtered" /\ ChainOK(s)

\* The stateless front of the chain, in this order. A replayed envelope is
\* already decoded and enters at the validator.
Receive(s) ==
  /\ pc[s] = "received"
  /\ \/ ParseFails(s)
     \/ DecodeFails(s)
     \/ Validator(s)
     \/ EventFilter(s)
     \/ Fate[ev[s]] = "ok" /\ Goto(s, "dedupe") /\ UNCHANGED sender
  /\ UNCHANGED <<sends, ev, id, kind, todo, errs, gone, seen, dlq, jobVars,
                 faults, histVars>>

\* The deduper lets the event through: the dispatcher takes its snapshot of
\* the matching handlers.
Admit(s) ==
  /\ Goto(s, "dispatch")
  /\ todo' = [todo EXCEPT ![s] = Matched[ev[s]]]
  /\ UNCHANGED <<sender, mark>>

\* A duplicate: the chain stops here and returns nil.
Duplicate(s) ==
  /\ id[s] \in seen
  /\ ChainOK(s)
  /\ mark' = IF kind[s] = Live THEN mark
             ELSE [mark EXCEPT ![ev[s]] = @ \cup {"swallowed"}]
  /\ UNCHANGED <<todo, seen>>

\* Mutant: every store answers FirstSeen with a lookup and a later write.
FirstSeenLookup(s) ==
  /\ pc[s] = "dedupe"
  /\ \/ Duplicate(s)
     \/ id[s] \notin seen /\ Goto(s, "add") /\ UNCHANGED <<sender, todo, seen, mark>>
  /\ UNCHANGED <<sends, ev, id, kind, errs, gone, dlq, jobVars, faults,
                 delivered, invoked, forgot>>

\* FirstSeen of a shared store, one SETNX or Put NX; the LRU only looks up.
FirstSeen(s) ==
  /\ pc[s] = "dedupe"
  /\ \/ Duplicate(s)
     \/ /\ id[s] \notin seen /\ SharedStore
        /\ seen' = seen \cup {id[s]}
        /\ Admit(s)
     \/ /\ id[s] \notin seen /\ ~SharedStore
        /\ Goto(s, "add")
        /\ UNCHANGED <<sender, todo, seen, mark>>
  /\ UNCHANGED <<sends, ev, id, kind, errs, gone, dlq, jobVars, faults,
                 delivered, invoked, forgot>>

\* The LRU's Add, in a step of its own.
AddSeen(s) ==
  /\ pc[s] = "add"
  /\ seen' = seen \cup {id[s]}
  /\ Admit(s)
  /\ UNCHANGED <<sends, ev, id, kind, errs, gone, dlq, jobVars, faults,
                 delivered, invoked, forgot>>

\* The store fails, perhaps after it recorded the ID: the deduper fails open.
StoreError(s) ==
  /\ pc[s] = "dedupe" /\ SharedStore
  /\ Fault("storeError")
  /\ seen' \in {seen, seen \cup {id[s]}}
  /\ forgot' = [forgot EXCEPT ![id[s]] = @ + 1]
  /\ Admit(s)
  /\ UNCHANGED <<sends, ev, id, kind, errs, gone, dlq, jobVars, delivered, invoked>>

\* One handler of the dispatch is called and returns.
CallHandler(s, h) ==
  /\ pc[s] = "dispatch" /\ h \in todo[s]
  /\ todo' = [todo EXCEPT ![s] = @ \ {h}]
  /\ invoked' = [invoked EXCEPT ![<<id[s], h>>] = @ + 1]
  /\ \/ delivered' = delivered \cup {<<ev[s], h>>} /\ UNCHANGED errs
     \/ \E k \in ErrorKinds : /\ errs' = [errs EXCEPT ![s] = @ \cup {k}]
                              /\ UNCHANGED delivered
  /\ UNCHANGED <<sender, sends, pc, ev, id, kind, gone, seen, dlq, jobVars,
                 faults, forgot, mark>>

\* A handler whose goroutine starts after the cancellation is not called; the
\* dispatch fails with ctx.Err, which is not retryable.
SkipHandler(s, h) ==
  /\ pc[s] = "dispatch" /\ h \in todo[s] /\ gone[s]
  /\ todo' = [todo EXCEPT ![s] = @ \ {h}]
  /\ errs' = [errs EXCEPT ![s] = @ \cup {"permanent"}]
  /\ UNCHANGED <<sender, sends, pc, ev, id, kind, gone, seen, dlq, jobVars,
                 faults, histVars>>

\* Mutant: only one class of errors is collected, the wait for the other
\* never ends.
JoinWaits(s) ==
  /\ pc[s] = "dispatch" /\ todo[s] = {} /\ "retryable" \notin errs[s]
  /\ \/ errs[s] = {} /\ ChainOK(s)
     \/ errs[s] = {"permanent"} /\ ChainPermanent(s)
  /\ UNCHANGED <<sends, ev, id, kind, todo, errs, gone, seen, dlq, jobVars,
                 faults, histVars>>

\* IsRetryable finds a RetryableError anywhere in the joined error.
IsRetryable(kinds) == "retryable" \in kinds

\* All handlers returned: the errors are joined and the whole is retryable
\* as soon as one of them is.
Join(s) ==
  /\ pc[s] = "dispatch" /\ todo[s] = {}
  /\ \/ errs[s] = {} /\ ChainOK(s) /\ UNCHANGED mark
     \/ IsRetryable(errs[s]) /\ ChainRetryable(s)
     \/ errs[s] # {} /\ ~IsRetryable(errs[s]) /\ ChainPermanent(s) /\ UNCHANGED mark
  /\ UNCHANGED <<sends, ev, id, kind, todo, errs, gone, seen, dlq, jobVars,
                 faults, delivered, invoked, forgot>>

\* Mutant: an event whose client is gone is answered without being queued.
PreserveUnlessGone(s) ==
  /\ pc[s] = "preserve"
  /\ Goto(s, "idle")
  /\ Respond(s, "acked")
  /\ dlq' = IF DeadLetter /\ ~gone[s] THEN dlq \cup {ev[s]} ELSE dlq
  /\ UNCHANGED <<sends, ev, id, kind, todo, errs, gone, seen, jobVars, faults,
                 histVars>>

\* preserveInDLQ, then 200 whether the event could be queued or not.
Preserve(s) ==
  /\ pc[s] = "preserve"
  /\ Goto(s, "idle")
  /\ Respond(s, "acked")
  /\ \/ /\ DeadLetter
        /\ dlq' = dlq \cup {ev[s]}
        /\ UNCHANGED <<mark, faults>>
     \/ /\ DeadLetter /\ Fault("enqueueFails")
        /\ Stain(ev[s], "unpreserved")
        /\ UNCHANGED dlq
     \/ /\ ~DeadLetter
        /\ Stain(ev[s], "unpreserved")
        /\ UNCHANGED <<dlq, faults>>
  /\ UNCHANGED <<sends, ev, id, kind, todo, errs, gone, seen, jobVars,
                 delivered, invoked, forgot>>

-----------------------------------------------------------------------------
(* Replay of the dead letter queue.                                        *)

\* The call takes its snapshot of the queue, narrowed by the request's filter;
\* a timestamp override gives every replayed envelope the same new ID.
StartReplay(j, over, chosen) ==
  /\ DeadLetter /\ job[j] = "unused" /\ chosen \subseteq dlq
  /\ job' = [job EXCEPT ![j] = IF over THEN "overridden" ELSE "plain"]
  /\ jobTodo' = [jobTodo EXCEPT ![j] = chosen]
  /\ UNCHANGED <<sender, sends, slotVars, seen, dlq, jobGone, faults, histVars>>

\* One goroutine per entry; the entry itself may be gone by now.
ReplayEntry(j, e, s) ==
  /\ e \in jobTodo[j]
  /\ jobTodo' = [jobTodo EXCEPT ![j] = @ \ {e}]
  /\ Start(s, e, IF job[j] = "overridden" THEN OverrideId ELSE e, j, j \in jobGone)
  /\ UNCHANGED <<sender, sends, seen, dlq, job, jobGone, faults, histVars>>

\* The replay succeeded as far as the chain tells: its entry is removed.
Remove(s) ==
  /\ pc[s] = "remove"
  /\ Goto(s, "idle")
  /\ \/ dlq' = dlq \ {ev[s]} /\ UNCHANGED faults
     \/ Fault("removeFails") /\ UNCHANGED dlq
  /\ UNCHANGED <<sender, sends, ev, id, kind, todo, errs, gone, seen, jobVars,
                 histVars>>

-----------------------------------------------------------------------------
SlotStep(s) ==
  \/ Receive(s)
  \/ FirstSeen(s)
  \/ AddSeen(s)
  \/ \E h \in Handlers : CallHandler(s, h) \/ SkipHandler(s, h)
  \/ Join(s)
  \/ Preserve(s)
  \/ Remove(s)

Environment ==
  \/ \E s \in Slots : ClientGone(s) \/ StoreError(s)
  \/ \E j \in Jobs : ReplayGone(j)
  \/ \E i \in Ids : Expire(i)
  \/ \E e \in Events : Purge(e)
  \/ Crash

Next ==
  \/ \E s \in Slots : SlotStep(s)
  \/ \E e \in Events, s \in Slots : Send(e, s)
  \/ \E j \in Jobs, over \in BOOLEAN, chosen \in SUBSET Events : StartReplay(j, over, chosen)
  \/ \E j \in Jobs, e \in Events, s \in Slots : ReplayEntry(j, e, s)
  \/ Environment

Spec == Init /\ [][Next]_vars

\* Goroutines are scheduled fairly and every handler call returns (it runs
\* under handlerTimeout); the replay loop goes on when a slot is free.
FairSpec ==
  /\ Spec
  /\ \A s \in Slots : WF_vars(SlotStep(s))
  /\ \A j \in Jobs : SF_vars(\E e \in Events, s \in Slots : ReplayEntry(j, e, s))
-----------------------------------------------------------------------------
(* Properties.                                                             *)

\* The event reached every handler it matches.
DeliveredAll(e) == Fate[e] = "ok" /\ \A h \in Matched[e] : <<e, h>> \in delivered

\* The event is delivered, or kept where an operator can replay it.
Settled(e) == DeliveredAll(e) \/ e \in dlq

\* Settled, or one of the marked mishaps explains why not.
Explained(e) == Settled(e) \/ mark[e] # {}

\* A request that was let through by the deduper still works on the event.
InFlight(e) ==
  \E s \in Slots : /\ ev[s] = e /\ kind[s] = Live
                   /\ pc[s] \in {"add", "dispatch", "preserve"}

\* Should the event be delivered at all?
Wanted(e) == Fate[e] \in {"ok", "invalid"}

Accounted(e) == Explained(e) \/ InFlight(e)

\* An event the sender was told 200 for is delivered, in the dead letter
\* queue, being worked on, or one of five things happened to it: a 503 was
\* answered for it, the process died with it in hand, it could not be queued,
\* a replay dropped it as a duplicate, or the queue purged it. So the
\* composition of deduper, dispatcher, preserveInDLQ and replay has no other
\* way to lose an acknowledged event, cancellations included.
AckedAccounted ==
  \A e \in Events : sender[e] = "acked" /\ Wanted(e) => Accounted(e)

\* What makes AckedAccounted inductive: a goroutine past the validator works
\* on a deliverable event, a dispatch without errors has delivered to every
\* handler it is done with, a replay works on an event that is explained, and
\* it is about to remove an entry only if the event was delivered or marked.
SlotSound(s) ==
  /\ kind[s] = Live => id[s] = ev[s]
  /\ kind[s] # Live => id[s] \in {ev[s], OverrideId}
  /\ pc[s] # "idle" /\ kind[s] # Live => Wanted(ev[s]) /\ Explained(ev[s])
  /\ pc[s] \in {"dedupe", "add", "dispatch"} => Fate[ev[s]] = "ok"
  /\ pc[s] = "dispatch" /\ errs[s] = {} =>
       \A h \in Matched[ev[s]] \ todo[s] : <<ev[s], h>> \in delivered
  /\ pc[s] = "preserve" => kind[s] = Live /\ Wanted(ev[s])
  /\ pc[s] = "remove" => /\ kind[s] # Live
                         /\ DeliveredAll(ev[s]) \/ mark[ev[s]] # {}

SlotsSound == \A s \in Slots : SlotSound(s)

\* Entries of the queue and of a replay's snapshot are explained, and so is
\* every event whose ID the store holds.
StoresSound ==
  /\ \A e \in dlq : Wanted(e)
  /\ \A j \in Jobs : \A e \in jobTodo[j] : Wanted(e) /\ Explained(e)
  /\ \A e \in Events : e \in seen => Accounted(e)

IInv == TypeOK /\ SlotsSound /\ StoresSound /\ AckedAccounted

\* Under one dedupe identity no handler is called more often than the store
\* lost the ID plus once: concurrent requests, retransmissions and replays of
\* one CloudEvent ID (and all entries of an overridden replay, which share
\* one) are dispatched once. Holds for a FirstSeen that is atomic.
AtMostOncePerId ==
  \A i \in Ids, h \in Handlers : invoked[<<i, h>>] <= 1 + forgot[i]

\* Goroutines that are about to call the handler under the identity.
Pending(i, h) == {s \in Slots : pc[s] = "dispatch" /\ id[s] = i /\ h \in todo[s]}

\* What makes AtMostOncePerId inductive: calls made and calls to come are paid
\* for by the store, one while it holds the ID and one for each time it lost
\* it. No goroutine is between a lookup and a write.
CallsPaid ==
  /\ \A s \in Slots : pc[s] # "add"
  /\ \A i \in Ids, h \in Handlers :
       invoked[<<i, h>>] + Cardinality(Pending(i, h))
         <= forgot[i] + (IF i \in seen THEN 1 ELSE 0)

\* What one step may do to the queue.
LettersMove ==
  /\ \A e \in dlq' \ dlq :
       /\ Wanted(e)
       /\ \E s \in Slots : pc[s] = "preserve" /\ ev[s] = e /\ errs[s] \subseteq {"permanent"}
  /\ \A e \in dlq \ dlq' :
       \/ "purged" \in mark'[e]
       \/ \E s \in Slots : /\ kind[s] \in Jobs /\ ev[s] = e /\ errs[s] = {}
                           /\ DeliveredAll(e) \/ "swallowed" \in mark[e]

\* An entry is in the queue only after a request for it failed permanently;
\* it is never an event the chain drops silently, and an event whose only
\* failures were retryable is not in it. An entry leaves the queue only by
\* a replay whose chain returned nil, or by the queue's own bounds.
DeadLetterStep == [][LettersMove]_vars

\* What makes it a step property: a goroutine has met no error before its
\* dispatch, only permanent ones when it preserves the event, none when it
\* removes the entry, and then the event was delivered or swallowed.
ErrorSound(s) ==
  /\ pc[s] \in {"received", "dedupe", "add", "remove"} => errs[s] = {}
  /\ pc[s] = "preserve" => errs[s] \subseteq {"permanent"}
  /\ pc[s] = "remove" => DeliveredAll(ev[s]) \/ "swallowed" \in mark[ev[s]]

ErrorsSound == \A s \in Slots : ErrorSound(s)

\* README: overload is answered 503 and Tekton retransmits, permanent
\* failures go to the dead letter queue: nothing is lost. An acknowledged
\* event that nobody works on any more is delivered or queued.
NothingLost ==
  \A e \in Events : sender[e] = "acked" /\ Wanted(e) => Settled(e) \/ InFlight(e)

\* Every request is answered and every replay call finishes: no interleaving
\* of requests, replays and cancellations leaves a goroutine stuck.
EventuallyAnswered ==
  \A e \in Events : sender[e] = "waiting" ~> sender[e] # "waiting"

ReplayFinishes ==
  \A j \in Jobs :
    job[j] # "unused" ~> /\ jobTodo[j] = {}
                         /\ \A s \in Slots : kind[s] = j => pc[s] = "idle"

\* Both: whatever the handlers return, and whichever call is cancelled or
\* meets a failing store, dispatcher, request handler and replay call end.
CallsEnd == EventuallyAnswered /\ ReplayFinishes
=============================================================================
