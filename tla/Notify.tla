------------------------------- MODULE Notify -------------------------------
(***************************************************************************)
(* internal/notifier: chat, mail, alerting, annotation, issue tracker and  *)
(* stream handlers, the wrappers around them (condition and dedupe),       *)
(* the store that remembers which message belongs to a run, and the        *)
(* retrying HTTP client of internal/httpx that they share.                 *)
(*                                                                         *)
(* A build is the handlers a factory has made: one per replica and         *)
(* configuration load, each with a message store of its own. After a       *)
(* reload the calls in flight go on in the old build. An event is a run    *)
(* that enters a state; the same event may be handed over again, by a      *)
(* retransmission or from the dead letter queue.                           *)
(***************************************************************************)
EXTENDS NotifyHandlers, SequencesExt

CONSTANTS
  Runs,       \* RunIDs
  Workers,    \* dispatcher goroutines of all builds
  Builds,     \* replicas, and configurations loaded one after the other
  Events,     \* functions from the runs of a batch, mostly one, to their states
  Setups,     \* the sets of handlers configured together
  MaxEvents,  \* bound on the calls of Handle
  MaxFaults   \* bound on what fails, is forgotten, or is done by people

ASSUME NotifyAssumption ==
  /\ \A ev \in Events : DOMAIN ev # {} /\ IsFiniteSet(DOMAIN ev) /\ DOMAIN ev \subseteq Runs
                        /\ \A r \in DOMAIN ev : ev[r] \in AllStates
  /\ \A setup \in Setups :
       /\ IsFiniteSet(setup) /\ \A h \in setup : IsHandler(h)
       /\ \A g, h \in setup : g.id = h.id => g = h
  /\ Builds # {} /\ "shared" \notin Builds
  /\ MaxEvents \in Nat /\ MaxFaults \in Nat

VARIABLES
  on,        \* the handlers configured
  items,     \* what the services have, in the order it came
  refs,      \* msgstore: the message of each run, per build (0: none)
  seen,      \* dedupe store
  client,    \* the shared retrying client: how often, over which transport
  closed,    \* Close of a build's stream handlers: not called, "closing" or "closed"
  connected, \* builds whose connection to the broker is open
  work,      \* the Handle call each worker is in
  latest,    \* for the properties: the event last reported, if nothing since
  excused,   \* for the properties: <<slot, why a second item may be there>>
  tried,     \* for the properties: events that got past the dedupe wrapper
  dropped,   \* for the properties: events that did not
  events, faults

vars == <<on, items, refs, seen, client, closed, connected, work, latest, excused, tried,
          dropped, events, faults>>

streams == <<closed, connected>>
history == <<tried, dropped, events>>

Idle == [at |-> "idle"]
At(w, step) == work[w].at = step
Busy == {w \in Workers : ~At(w, "idle")}

Ids == {h.id : h \in on}
Slots == Ids \X Runs
HandlerOf(id) == CHOOSE h \in on : h.id = id

\* What a call is about: an event, or the events of a batch.
SlotsOf(w) == {<<work[w].h.id, r>> : r \in DOMAIN work[w].event}
TheRun(w) == CHOOSE r \in DOMAIN work[w].event : TRUE

Live == {i \in DOMAIN items : items[i].is # "deleted"}
ItemsOf(slot) == {i \in Live : items[i].by = slot[1] /\ slot[2] \in DOMAIN items[i].of}
Mine(w) == UNION {ItemsOf(slot) : slot \in SlotsOf(w)}

Init ==
  /\ on \in Setups
  /\ items = <<>>
  /\ refs = [b \in Builds |-> [slot \in Slots |-> 0]]
  /\ seen = {}
  /\ client = [max |-> 0, http |-> "none"]
  /\ closed = [b \in Builds |-> "open"] /\ connected = Builds
  /\ work = [w \in Workers |-> Idle]
  /\ latest = [slot \in Slots |-> "none"]
  /\ excused = {} /\ tried = {} /\ dropped = {}
  /\ events = 0 /\ faults = 0

-----------------------------------------------------------------------------
(* How a call moves on.                                                    *)

Fault == faults < MaxFaults /\ faults' = faults + 1

\* The call of w goes on as the given record.
Goto(w, call) == work' = [work EXCEPT ![w] = call] /\ UNCHANGED latest

\* Handle returns nil. What it reports stands if no other call of the run
\* was under way and nothing was left out.
Return(w) ==
  /\ work' = [work EXCEPT ![w] = Idle]
  /\ latest' = [slot \in Slots |->
                  IF "run" \notin work[w].met /\ slot \in SlotsOf(w) THEN work[w].event[slot[2]]
                  ELSE latest[slot]]

\* Handle returns an error, or nil for an event it leaves out.
Leave(w) == work' = [work EXCEPT ![w] = Idle] /\ UNCHANGED latest

Excuse(slots, why) == excused' = excused \cup (slots \X {why})

\* The next request of the call.
Request(w, doing) ==
  Goto(w, [work[w] EXCEPT !.at = IF work[w].h.via = "client" THEN "policy" ELSE "attempt",
                          !.doing = doing, !.tries = 0, !.met = @ \ {"client"}])

\* Condition and the handler's own choice of states. (Only SCM actions are
\* built with an allow and deny filter.)
Wanted(h, s) == s \in DOMAIN h.acts

\* They keep references to the messages of runs.
Keepers == {"upsert", "repost", "thread", "mail"}

FirstStep(h) ==
  CASE h.does \in Keepers -> "load"
    [] h.does = "stream" -> "check"
    [] h.does = "each" -> "each"
    [] h.via = "client" -> "policy"
    [] OTHER -> "attempt"

\* The call that has got through the wrappers to the handler's first step;
\* an event that is not wanted ends here. A batch is formed inside the
\* wrappers: all of its events are wanted. (An error in the condition, the
\* template or the credentials ends the call as a refused request does.)
Entered(call) ==
  LET r == CHOOSE r \in DOMAIN call.event : TRUE
  IN  IF \A q \in DOMAIN call.event : Wanted(call.h, call.event[q])
      THEN [call EXCEPT !.at = FirstStep(call.h), !.doing = call.h.acts[call.event[r]]]
      ELSE Idle

\* A handler that keeps nothing in its process is the same in every build.
Stateful(h) == h.does \in Keepers \cup {"stream"} \/ h.store = "memory"
BuildsOf(h) == IF Stateful(h) THEN Builds ELSE {CHOOSE b \in Builds : TRUE}

\* Handle of the outermost wrapper is called.
Start(w, h, b, ev) ==
  LET slots == {<<h.id, r>> : r \in DOMAIN ev}
      rivals == {v \in Busy : SlotsOf(v) \cap slots # {}}
      call == [at |-> "dedupe", h |-> h, build |-> b, event |-> ev, doing |-> "", ref |-> 0,
               tries |-> 0, met |-> IF rivals = {} THEN {} ELSE {"run"}]
      first == IF h.store = "none" THEN Entered(call) ELSE call
      elsewhere == {slot \in slots : \E c \in Builds \ {b} : refs[c][slot] # 0}
  IN  /\ At(w, "idle") /\ events < MaxEvents /\ first # Idle
      /\ h.does = "flush" \/ Cardinality(DOMAIN ev) = 1
      /\ work' = [v \in Workers |-> IF v = w THEN first
                                    ELSE IF v \in rivals THEN [work[v] EXCEPT !.met = @ \cup {"run"}]
                                    ELSE work[v]]
      /\ latest' = [slot \in Slots |-> IF slot \in slots THEN "none" ELSE latest[slot]]
      /\ excused' = excused \cup (IF rivals = {} THEN {} ELSE slots \X {"overlap"})
                            \cup (elsewhere \X {"elsewhere"})
      /\ events' = events + 1
      /\ UNCHANGED <<on, items, refs, seen, client, streams, tried, dropped, faults>>

-----------------------------------------------------------------------------
(* The wrappers.                                                           *)

\* compositeKey: the handler's Name and the CloudEvent's ID, in a store that
\* all replicas share or that each process keeps for itself. (A reload keeps
\* the store of its process: of such a handler, builds are processes.)
compositeKey(w) ==
  <<IF work[w].h.store = "memory" THEN work[w].build ELSE "shared", work[w].h.name, work[w].event>>

EventOf(w) == <<work[w].h.id, work[w].event>>

Enter(w) == Goto(w, Entered(work[w]))

\* Mutant: the entry is made under the run, whatever the event.
DedupePerRun(w) ==
  LET key == <<"shared", work[w].h.name, [r \in DOMAIN work[w].event |-> "any"]>>
  IN  /\ At(w, "dedupe")
      /\ IF key \in seen
         THEN Leave(w) /\ dropped' = dropped \cup {EventOf(w)} /\ UNCHANGED <<seen, tried>>
         ELSE Enter(w) /\ seen' = seen \cup {key} /\ tried' = tried \cup {EventOf(w)}
                               /\ UNCHANGED dropped
      /\ UNCHANGED <<on, items, refs, client, streams, excused, events, faults>>

\* DedupeHandler.Handle asks the store and, in the same step where the store
\* is shared, leaves its mark. A store that cannot answer lets the event in.
Dedupe(w) ==
  /\ At(w, "dedupe")
  /\ \/ /\ compositeKey(w) \in seen
        /\ Leave(w)
        /\ dropped' = dropped \cup {EventOf(w)}
        /\ UNCHANGED <<seen, excused, tried, faults>>
     \/ /\ compositeKey(w) \notin seen
        /\ IF work[w].h.store = "memory"
           THEN Goto(w, [work[w] EXCEPT !.at = "mark"]) /\ UNCHANGED <<seen, tried>>
           ELSE /\ Enter(w)
                /\ seen' = seen \cup {compositeKey(w)}
                /\ tried' = tried \cup {EventOf(w)}
        /\ UNCHANGED <<excused, dropped, faults>>
     \/ /\ Fault /\ work[w].h.store = "shared"
        /\ Enter(w)
        /\ Excuse(SlotsOf(w), "store")
        /\ tried' = tried \cup {EventOf(w)}
        /\ UNCHANGED <<seen, dropped>>
  /\ UNCHANGED <<on, items, refs, client, streams, events>>

\* The in-process store looks the entry up and adds it in two steps.
Mark(w) ==
  /\ At(w, "mark")
  /\ Enter(w)
  /\ seen' = seen \cup {compositeKey(w)}
  /\ tried' = tried \cup {EventOf(w)}
  /\ UNCHANGED <<on, items, refs, client, streams, excused, dropped, events, faults>>

-----------------------------------------------------------------------------
(* The message reference of a run.                                         *)

\* Mutant: the store is asked for any message of the handler.
RefOfAnyRun(w) ==
  Max({refs[work[w].build][slot] : slot \in {slot \in Slots : slot[1] = work[w].h.id}})

Ref(w) == refs[work[w].build][<<work[w].h.id, TheRun(w)>>]

\* Mutant: a message reference is dropped when the run has ended.
LoadUnlessEnded(w) ==
  LET ended == work[w].h.does = "upsert" /\ work[w].event[TheRun(w)] = "success"
      ref == IF ended THEN 0 ELSE Ref(w)
  IN  /\ At(w, "load")
      /\ Goto(w, [work[w] EXCEPT !.at = "attempt", !.ref = ref, !.tries = 0,
                                 !.doing = IF work[w].h.does \in {"upsert", "repost"} /\ ref # 0
                                           THEN "edit" ELSE "post"])
      /\ UNCHANGED <<on, items, refs, seen, client, streams, excused, history, faults>>

\* MessageStore.Load: in the upsert modes the message is edited, in thread
\* mode and in mail it is replied to.
Load(w) ==
  /\ At(w, "load")
  /\ Goto(w, [work[w] EXCEPT !.at = "attempt", !.ref = Ref(w), !.tries = 0,
                             !.doing = IF work[w].h.does \in {"upsert", "repost"} /\ Ref(w) # 0
                                       THEN "edit" ELSE "post"])
  /\ UNCHANGED <<on, items, refs, seen, client, streams, excused, history, faults>>

\* Mutant: mails refer to the last mail of the run, as chat replies do.
SaveLast(w) ==
  /\ At(w, "save")
  /\ refs' = [refs EXCEPT ![work[w].build][<<work[w].h.id, TheRun(w)>>] = work[w].ref]
  /\ Return(w)
  /\ UNCHANGED <<on, items, seen, client, streams, excused, history, faults>>

\* MessageStore.Save after a post. A mail is remembered only if it is the
\* first; a reply takes the place of what it replied to.
Save(w) ==
  /\ At(w, "save")
  /\ refs' = IF work[w].h.does = "mail" /\ Ref(w) # 0 THEN refs
             ELSE [refs EXCEPT ![work[w].build][<<work[w].h.id, TheRun(w)>>] = work[w].ref]
  /\ Return(w)
  /\ UNCHANGED <<on, items, seen, client, streams, excused, history, faults>>

\* The store's TTL or its capacity: one reference is gone.
Evict(b, slot) ==
  /\ Fault /\ refs[b][slot] # 0
  /\ refs' = [refs EXCEPT ![b][slot] = 0]
  /\ Excuse({slot}, "forgot")
  /\ UNCHANGED <<on, items, seen, client, streams, work, latest, history>>

\* A process dies: its calls end where they are, its stores are empty.
Restart(b) ==
  LET dying == {w \in Busy : work[w].build = b}
  IN  /\ Fault
      /\ work' = [w \in Workers |-> IF w \in dying THEN Idle ELSE work[w]]
      /\ refs' = [refs EXCEPT ![b] = [slot \in Slots |-> 0]]
      /\ seen' = {k \in seen : k[1] # b}
      /\ Excuse({slot \in Slots : refs[b][slot] # 0} \cup UNION {SlotsOf(w) : w \in dying}, "forgot")
      /\ UNCHANGED <<on, items, client, streams, latest, history>>

\* The dedupe entry expires.
Expire(k) ==
  /\ Fault /\ seen' = seen \ {k}
  /\ Excuse({slot \in Slots : HandlerOf(slot[1]).name = k[2] /\ slot[2] \in DOMAIN k[3]}, "store")
  /\ UNCHANGED <<on, items, refs, client, streams, work, latest, history>>

-----------------------------------------------------------------------------
(* The shared retrying client: DoWithRetryPolicy writes the caller's        *)
(* policy and transport into it, unlocked, and the attempts read them.      *)

\* A write reaches every call that has made its own and is not through.
Others(w, call) ==
  [v \in Workers |-> IF v = w THEN call
                     ELSE IF work[v].at \in {"transport", "attempt"} /\ work[v].h.via = "client"
                     THEN [work[v] EXCEPT !.met = @ \cup {"client"}]
                     ELSE work[v]]

\* Mutant: a client that was set up once is left as it is.
SetPolicyOnce(w) ==
  /\ At(w, "policy")
  /\ client' = IF client.http = "none" THEN [client EXCEPT !.max = work[w].h.attempts - 1] ELSE client
  /\ work' = Others(w, [work[w] EXCEPT !.at = "transport"])
  /\ UNCHANGED <<on, items, refs, seen, streams, latest, excused, history, faults>>

SetPolicy(w) ==
  /\ At(w, "policy")
  /\ client' = [client EXCEPT !.max = work[w].h.attempts - 1]
  /\ work' = Others(w, [work[w] EXCEPT !.at = "transport"])
  /\ UNCHANGED <<on, items, refs, seen, streams, latest, excused, history, faults>>

SetTransport(w) ==
  /\ At(w, "transport")
  /\ client' = [client EXCEPT !.http = work[w].h.id]
  /\ work' = Others(w, [work[w] EXCEPT !.at = "attempt"])
  /\ UNCHANGED <<on, items, refs, seen, streams, latest, excused, history, faults>>

-----------------------------------------------------------------------------
(* The services, as far as the handlers depend on them.                    *)

\* An item is open, resolved (an alert) or deleted. It tells about the runs
\* of the event it came with; an edit changes what it says about them.
About(w) == [r \in DOMAIN work[w].event |-> work[w].h.words[work[w].event[r]]]
Item(w, kind) ==
  [by |-> work[w].h.id, kind |-> kind, is |-> "open", to |-> 0, of |-> work[w].event,
   about |-> About(w)]

OfKind(w, kind) == {i \in Mine(w) : items[i].kind = kind}
OpenAlerts(w) == {i \in Mine(w) : items[i].is = "open"}

\* What a service can take: an edit of a message that is there, a deploy of
\* a release it has, and from a stream whatever comes over an open connection
\* (NATS drains its own in the background).
Accepted(w) ==
  CASE work[w].doing = "edit"    -> work[w].ref \in Live
    [] work[w].doing = "deploy"  -> OfKind(w, "release") # {}
    [] work[w].doing = "publish" -> work[w].build \in connected \/ work[w].h.name = "nats"
    [] OTHER -> TRUE

\* It refuses the rest, a transition that is no longer open to the issue, and
\* perhaps a reply to a message that is gone. (Discord does, Slack and mail
\* do not.)
MayRefuse(w) ==
  \/ ~Accepted(w)
  \/ work[w].doing = "move"
  \/ work[w].doing = "post" /\ work[w].h.does = "thread" /\ work[w].ref # 0 /\ work[w].ref \notin Live

Shown(i, w) == [items EXCEPT ![i].about = About(w)]

\* What a request that gets through leaves at the service. Alerts and
\* incidents go by the run's key, releases by commit, links by their ID.
Effect(w) ==
  CASE work[w].doing = "post" ->
         Append(items, [Item(w, "message") EXCEPT !.to = IF work[w].h.does \in {"thread", "mail"}
                                                         THEN work[w].ref ELSE 0])
    [] work[w].doing = "edit" -> Shown(work[w].ref, w)
    [] work[w].doing = "trigger" ->
         IF OpenAlerts(w) # {} THEN Shown(Max(OpenAlerts(w)), w) ELSE Append(items, Item(w, "alert"))
    [] work[w].doing = "resolve" ->
         [i \in DOMAIN items |-> IF i \in Mine(w) THEN [items[i] EXCEPT !.is = "resolved"] ELSE items[i]]
    [] work[w].doing \in {"declare", "release"} ->
         IF OfKind(w, work[w].doing) # {} THEN items ELSE Append(items, Item(w, work[w].doing))
    [] work[w].doing = "link" ->
         IF Mine(w) # {} THEN Shown(Max(Mine(w)), w) ELSE Append(items, Item(w, "link"))
    [] work[w].doing \in {"acknowledge", "search", "list"} -> items
    [] OTHER -> Append(items, Item(w, work[w].doing))

\* What the handler does with the answer. The ID of a posted message is its
\* place in items.
Answered(w) ==
  CASE work[w].doing = "post" /\ FirstStep(work[w].h) = "load" ->
         Goto(w, [work[w] EXCEPT !.at = "save", !.ref = Len(items) + 1])
    [] work[w].doing = "release" -> Request(w, "deploy")
    [] work[w].doing = "search" -> IF Mine(w) # {} THEN Return(w) ELSE Request(w, "create")
    [] work[w].doing = "list" -> Request(w, "move")
    [] OTHER -> Return(w)

\* The transitions listed are those the workflow allows the issue now: if the
\* handler's is not among them, Handle returns nil and nothing is requested,
\* whether the issue has been moved before or never can be.
NotOffered(w) ==
  /\ work[w].doing = "list" /\ Return(w)
  /\ IF Mine(w) = {} THEN Excuse(SlotsOf(w), "not offered") ELSE UNCHANGED excused

\* Mutant: the error of the second of two requests is dropped.
RefusedDeploy(w) == IF work[w].doing = "deploy" THEN Return(w) ELSE Leave(w)

\* A request that has failed for good is an error of the handler. Discord
\* posts a new message instead of an edit that failed.
Refused(w) ==
  IF work[w].h.does = "repost" /\ work[w].doing = "edit" THEN Request(w, "post") ELSE Leave(w)

\* After a network error, a 408, 429 or 5xx: another attempt, as often as
\* the client says at that moment, or an error.
Retry(w) ==
  IF work[w].h.via = "client" /\ client.max - work[w].tries > 0
  THEN Goto(w, [work[w] EXCEPT !.tries = @ + 1])
  ELSE Refused(w)

\* One attempt of a request: it gets through, is refused (other 4xx), or
\* fails in a way that is worth another attempt, having had its effect or
\* not. A stream that does not wait for its broker may lose the message.
Attempt(w) ==
  /\ At(w, "attempt")
  /\ \/ Accepted(w) /\ items' = Effect(w) /\ Answered(w) /\ UNCHANGED <<excused, faults>>
     \/ MayRefuse(w) /\ Refused(w) /\ UNCHANGED <<items, excused, faults>>
     \/ NotOffered(w) /\ UNCHANGED <<items, faults>>
     \/ /\ Fault /\ UNCHANGED items
        /\ Refused(w) \/ Retry(w)
        /\ IF work[w].doing = "edit" THEN Excuse(SlotsOf(w), "edit failed") ELSE UNCHANGED excused
     \/ /\ Fault /\ Accepted(w) /\ items' = Effect(w)
        /\ Retry(w)
        /\ Excuse(SlotsOf(w), IF work[w].doing = "edit" THEN "edit failed" ELSE "repeated")
     \/ Fault /\ ~work[w].h.keeps /\ Return(w) /\ UNCHANGED <<items, excused>>
  /\ UNCHANGED <<on, refs, seen, client, streams, history>>

-----------------------------------------------------------------------------
(* Grafana's dashboards and the streams.                                   *)

\* The annotations of some dashboards, in some order.
Noted(w, got) == items \o SetToSeq({Item(w, d) : d \in got})

\* sendForDashboard for every dashboard side by side, and an error if one of
\* them failed, whether or not it had its effect.
Annotate(w) ==
  /\ At(w, "each")
  /\ \/ items' = Noted(w, work[w].h.on) /\ Return(w) /\ UNCHANGED faults
     \/ \E got \in SUBSET work[w].h.on : Fault /\ items' = Noted(w, got) /\ Leave(w)
  /\ UNCHANGED <<on, refs, seen, client, streams, excused, history>>

\* Stream handlers look at closed under the mutex and publish without it.
Check(w) ==
  /\ At(w, "check")
  /\ IF closed[work[w].build] # "open" THEN Leave(w) ELSE Request(w, "publish")
  /\ UNCHANGED <<on, items, refs, seen, client, streams, excused, history, faults>>

\* Close, by a reload or at shutdown, sets the flag under the mutex,
Close(b) ==
  /\ \E h \in on : h.does = "stream"
  /\ Fault /\ closed[b] = "open"
  /\ closed' = [closed EXCEPT ![b] = "closing"]
  /\ UNCHANGED <<on, items, refs, seen, client, connected, work, latest, excused, history>>

\* Mutant: Close leaves the connection to whoever still uses it.
DisconnectNothing(b) ==
  /\ closed[b] = "closing"
  /\ closed' = [closed EXCEPT ![b] = "closed"]
  /\ UNCHANGED <<on, items, refs, seen, client, connected, work, latest, excused, history, faults>>

\* closes the writer, channel or connection, and returns. Nobody waits for
\* a Handle that has found the flag unset.
Disconnect(b) ==
  /\ closed[b] = "closing"
  /\ closed' = [closed EXCEPT ![b] = "closed"]
  /\ connected' = connected \ {b}
  /\ UNCHANGED <<on, items, refs, seen, client, work, latest, excused, history, faults>>

-----------------------------------------------------------------------------
\* Somebody deletes a message, closes an alert or moves an issue back.
Delete(i) ==
  LET slots == {slot \in Slots : i \in ItemsOf(slot)}
  IN  /\ Fault /\ i \in Live
      /\ items' = [items EXCEPT ![i].is = "deleted"]
      /\ latest' = [slot \in Slots |-> IF slot \in slots THEN "none" ELSE latest[slot]]
      /\ work' = [w \in Workers |-> IF w \in Busy /\ SlotsOf(w) \cap slots # {}
                                    THEN [work[w] EXCEPT !.met = @ \cup {"run"}] ELSE work[w]]
      /\ UNCHANGED <<on, refs, seen, client, streams, excused, history>>

Next ==
  \/ \E w \in Workers :
       \/ \E h \in on, ev \in Events : \E b \in BuildsOf(h) : Start(w, h, b, ev)
       \/ Dedupe(w) \/ Mark(w) \/ Load(w) \/ Save(w)
       \/ SetPolicy(w) \/ SetTransport(w) \/ Attempt(w) \/ Annotate(w) \/ Check(w)
  \/ \E b \in Builds, slot \in Slots : Evict(b, slot)
  \/ \E b \in Builds : Restart(b) \/ Close(b) \/ Disconnect(b)
  \/ \E k \in seen : Expire(k)
  \/ \E i \in DOMAIN items : Delete(i)

Spec == Init /\ [][Next]_vars

-----------------------------------------------------------------------------
(* Properties.                                                             *)

Excused(slot, reasons) == \E why \in reasons : <<slot, why>> \in excused

Waiting == {"dedupe", "mark"}
Requests ==
  {"", "post", "edit", "trigger", "resolve", "acknowledge", "declare", "release", "deploy", "list",
   "move", "search", "create", "link", "publish"}

\* The steps of a handler past its wrappers, and the requests it makes.
Procedure(h) ==
  CASE h.does \in Keepers   -> {"load", "attempt", "save"}
    [] h.does = "stream" -> {"check", "attempt"}
    [] h.does = "each"   -> {"each"}
    [] h.via = "client"  -> {"policy", "transport", "attempt"}
    [] OTHER             -> {"attempt"}
RequestsOf(h) ==
  FirstRequests(h.does) \cup
  CASE h.does \in {"upsert", "repost"} -> {"edit"}
    [] h.does = "release" -> {"deploy"}
    [] h.does = "move"    -> {"move"}
    [] h.does = "issue"   -> {"create"}
    [] OTHER              -> {}

Calls ==
  [at : Waiting \cup {"load", "save", "check", "each", "policy", "transport", "attempt"},
   h : on, build : Builds, event : Events, doing : Requests, ref : Nat, tries : Nat,
   met : SUBSET {"run", "client"}]

\* A call waits at a step of its handler's procedure, for an event that the
\* handler wants, and knows a message of the same run.
IsCall(call) ==
  /\ call \in Calls
  /\ call.h.does # "flush" => \E r \in Runs : DOMAIN call.event = {r}
  /\ call.at \in Waiting =>
       call.h.store # "none" /\ call.ref = 0 /\ (call.at = "mark" => call.h.store = "memory")
  /\ call.at \notin Waiting =>
       /\ call.at \in Procedure(call.h) /\ call.doing \in RequestsOf(call.h)
       /\ \A r \in DOMAIN call.event : Wanted(call.h, call.event[r])
  /\ call.at \in Waiting \cup {"policy", "transport"} => call.tries = 0
  /\ (call.at = "attempt" /\ call.doing = "edit") \/ call.at = "save" => call.ref # 0
  /\ call.ref # 0 => /\ call.ref \in DOMAIN items /\ items[call.ref].by = call.h.id
                     /\ DOMAIN items[call.ref].of = DOMAIN call.event

\* What a service has: about an event that the handler wants, in the
\* handler's words for a state that it acts on.
Words == UNION {{h.words[s] : s \in DOMAIN h.acts} : h \in on}
Items ==
  [by : Ids, kind : Requests \cup {"message", "alert"} \cup UNION {h.on : h \in on},
   is : {"open", "resolved", "deleted"}, to : Nat, of : Events,
   about : UNION {[DOMAIN ev -> Words] : ev \in Events}]
IsItem(h, item) ==
  /\ h.does # "flush" => \E r \in Runs : DOMAIN item.of = {r}
  /\ DOMAIN item.about = DOMAIN item.of
  /\ \A r \in DOMAIN item.of : \E s \in DOMAIN h.acts : item.about[r] = h.words[s]

\* A message replies to an earlier one of the same run.
ItemsOK ==
  /\ items \in Seq(Items)
  /\ \A i \in DOMAIN items :
       /\ IsItem(HandlerOf(items[i].by), items[i]) /\ items[i].to < i
       /\ items[i].to # 0 => /\ items[items[i].to].by = items[i].by
                             /\ DOMAIN items[items[i].to].of = DOMAIN items[i].of

\* A reference names a message of its own run.
RefsOK ==
  /\ refs \in [Builds -> [Slots -> Nat]]
  /\ \A b \in Builds, slot \in Slots :
       refs[b][slot] # 0 => /\ refs[b][slot] \in DOMAIN items
                            /\ items[refs[b][slot]].by = slot[1]
                            /\ DOMAIN items[refs[b][slot]].of = {slot[2]}

CallsOK == work \in [Workers -> Calls \cup {Idle}] /\ \A w \in Busy : IsCall(work[w])

\* The state is well formed; in particular, references and replies stay with
\* their run, a call is at a step of its handler's procedure, and what a
\* service has is about events that the handler acts on.
TypeOK ==
  /\ on \in Setups /\ ItemsOK /\ RefsOK /\ CallsOK
  /\ client \in [max : {0} \cup {h.attempts - 1 : h \in on}, http : Ids \cup {"none"}]
  /\ connected \subseteq Builds /\ closed \in [Builds -> {"open", "closing", "closed"}]
  /\ latest \in [Slots -> AllStates \cup {"none"}]
  /\ tried \subseteq Ids \X Events /\ dropped \subseteq Ids \X Events
  /\ events \in Nat /\ faults \in Nat

\* A run has a second message of an upsert handler, or a second issue, only
\* where that has an explanation: calls for the run overlapped, or went to
\* different builds, the reference was evicted or lost in a restart, Discord
\* gave up an edit, or a post was reported failed that had its effect. A
\* handler with dedupe reports an event twice only where its store failed or
\* forgot, a request was repeated, or the store is in the process and not
\* shared.
DuplicatesExplained ==
  \A slot \in Slots :
    LET h == HandlerOf(slot[1])
    IN  /\ h.does \in {"upsert", "repost", "issue"} =>
             \/ Cardinality(ItemsOf(slot)) <= 1
             \/ Excused(slot, {"overlap", "elsewhere", "forgot", "edit failed", "repeated"})
        /\ h.store = "shared" /\ h.does = "post" =>
             \/ \A i, j \in ItemsOf(slot) : items[i].of = items[j].of => i = j
             \/ Excused(slot, {"store", "repeated"})

\* The items that show what is last reported of a slot.
Showing(slot) ==
  {i \in ItemsOf(slot) : items[i].about[slot[2]] = HandlerOf(slot[1]).words[latest[slot]]}

Tells(slot) ==
  LET s == latest[slot]
      h == HandlerOf(slot[1])
      its == ItemsOf(slot)
  IN  /\ h.does = "alert" =>
           /\ h.acts[s] = "trigger" => \E i \in its : items[i].is = "open"
           /\ h.acts[s] = "resolve" => \A i \in its : items[i].is # "open"
      /\ h.does \in {"declare", "issue"} => its # {}
      /\ h.does = "move" => its # {} \/ Excused(slot, {"not offered"})
      /\ h.does = "release" => \E i \in its : items[i].kind = "deploy"
      /\ h.does = "each" => \A d \in h.on : \E i \in Showing(slot) : items[i].kind = d
      /\ h.does \in {"post", "flush", "link", "stream"} \cup Keepers => Showing(slot) # {}
      /\ h.does \in {"upsert", "repost"} =>
           \/ Showing(slot) = its
           \/ Excused(slot, {"overlap", "elsewhere", "forgot", "edit failed", "repeated"})

Stands(slot) == latest[slot] # "none" /\ HandlerOf(slot[1]).keeps => Tells(slot)

\* Once Handle has returned nil for a run, undisturbed, and until its next
\* event, the service tells what the handler was given: a failed run has an
\* open alert or an issue, a run that succeeded has no open alert, a release
\* has its deploy, all dashboards have the annotation, a linked issue was
\* moved unless Jira once did not offer the transition (Handle returns nil
\* then too), and a message shows the state. Of an upsert handler no other
\* message shows an older one, unless there may be two.
Reported == \A slot \in Slots : Stands(slot)

\* "First event posts top-level, subsequent events reply in the thread": the
\* messages of a run hang together. All but one reply to an earlier one of
\* the same run: mails to the first, chat messages to the one before. A
\* second start of a thread has an explanation.
OneThread ==
  \A slot \in Slots :
    LET its == {i \in DOMAIN items : items[i].by = slot[1] /\ slot[2] \in DOMAIN items[i].of}
        replies == {i \in its : items[i].to # 0}
    IN  HandlerOf(slot[1]).does \in {"thread", "mail"} =>
          /\ \A i \in replies : items[i].to \in its
          /\ \/ Excused(slot, {"overlap", "elsewhere", "forgot", "repeated"})
             \/ /\ Cardinality(its \ replies) <= 1
                /\ \A i \in replies :
                     IF HandlerOf(slot[1]).does = "mail" THEN items[i].to \in its \ replies
                     ELSE items[i].to = Max({j \in its : j < i})

\* The dedupe wrapper holds back no event but one that some wrapper of that
\* name has let in. (Handlers that share a name, as all Slack instances do,
\* share their entries: the event gets past one of their wrappers, and the
\* condition behind that one may still leave it out, so that possibly none of
\* them reports it.)
OnlySeenDropped ==
  \A d \in dropped : \E t \in tried : t[2] = d[2] /\ HandlerOf(t[1]).name = HandlerOf(d[1]).name

\* As long as no other call has set up the shared client meanwhile, the
\* attempts of a call follow its own retry policy and use its own transport;
\* and no call ever makes more attempts than the most generous policy allows.
OwnPolicy ==
  \A w \in Busy :
    At(w, "attempt") /\ work[w].h.via = "client" =>
      /\ "client" \notin work[w].met => /\ client.max = work[w].h.attempts - 1
                           /\ client.http = work[w].h.id
      /\ \E h \in on : work[w].tries < h.attempts

\* After Close has returned, nothing comes out of a stream handler any more,
\* not even from a Handle that had found it open. NATS drains its connection
\* in the background and may still take a message.
NothingAfterClose ==
  [][\A w \in Busy :
       (At(w, "attempt") /\ work[w].doing = "publish" /\ work[w].h.name # "nats"
          /\ closed[work[w].build] = "closed" /\ work'[w] = Idle) => items' = items]_vars

-----------------------------------------------------------------------------
(* The inductive invariant: why the properties hold.                       *)

AllOf(slot) == {i \in DOMAIN items : items[i].by = slot[1] /\ slot[2] \in DOMAIN items[i].of}
CallsOf(slot) == {w \in Busy : slot \in SlotsOf(w)}
Inside(slot) == {w \in CallsOf(slot) : work[w].at \notin Waiting}

\* Calls that overlap on a run know it. What is reported of a run is the
\* last that was done about it.
Rivals ==
  \A v, w \in Busy : v # w =>
    \A slot \in SlotsOf(v) \cap SlotsOf(w) : "run" \in work[v].met /\ Excused(slot, {"overlap"})
Settled == \A slot \in Slots : latest[slot] # "none" => CallsOf(slot) = {}

\* What the dedupe store has has been let in. What is closed is disconnected.
Registered ==
  \A k \in seen : \E t \in tried : t[2] = k[3] /\ HandlerOf(t[1]).name = k[2]
Detached == \A b \in Builds : closed[b] = "closed" => b \notin connected

\* A call that has set its policy finds it until another sets its own.
PolicyFound ==
  \A w \in Busy :
    At(w, "transport") /\ "client" \notin work[w].met => client.max = work[w].h.attempts - 1

\* With a shared store, an event is seen before it is told, by one call.
ToldOnce(slot) ==
  LET h == HandlerOf(slot[1])
  IN  \/ h.store # "shared" \/ h.does # "post" \/ Excused(slot, {"store", "repeated"})
      \/ /\ \A i \in AllOf(slot) : <<"shared", h.name, items[i].of>> \in seen
         /\ \A i, j \in AllOf(slot) : items[i].of = items[j].of => i = j
         /\ \A w \in Inside(slot) :
              /\ <<"shared", h.name, work[w].event>> \in seen
              /\ \A i \in AllOf(slot) : items[i].of # work[w].event
              /\ \A v \in Inside(slot) : work[v].event = work[w].event => v = w

\* One build has the run's reference, and its calls use it.
OneRef(slot) ==
  \/ HandlerOf(slot[1]).does \notin Keepers
  \/ Excused(slot, {"overlap", "elsewhere", "forgot"})
  \/ /\ \A b, c \in Builds : refs[b][slot] # 0 /\ refs[c][slot] # 0 => b = c
     /\ \A w \in CallsOf(slot) :
          /\ \A b \in Builds : refs[b][slot] # 0 => b = work[w].build
          /\ At(w, "attempt") => work[w].ref = Ref(w)

\* A run has one message, the one that is referred to or that a call is
\* about to refer to, and none when another is posted; or one issue.
OneMessage(slot) ==
  \/ HandlerOf(slot[1]).does \notin {"upsert", "repost", "issue"}
  \/ Excused(slot, {"overlap", "elsewhere", "forgot", "edit failed", "repeated"})
  \/ /\ \A i, j \in ItemsOf(slot) : i = j
     /\ HandlerOf(slot[1]).does # "issue" =>
          \A i \in ItemsOf(slot) :
            \/ \E b \in Builds : refs[b][slot] = i
            \/ \E w \in CallsOf(slot) : At(w, "save") /\ work[w].ref = i
     /\ \A w \in Inside(slot) :
          /\ At(w, "save") => ItemsOf(slot) \subseteq {work[w].ref}
          /\ work[w].doing = "create" \/ (At(w, "attempt") /\ work[w].doing = "post")
               => ItemsOf(slot) = {}

\* The messages of a run hang together; the reference, or the one that a
\* call is about to save, is the end of the thread, or the first mail.
IsMail(slot) == HandlerOf(slot[1]).does = "mail"
Replying(slot) ==
  \A i \in AllOf(slot) :
    /\ items[i].to = 0 => \A j \in AllOf(slot) : i <= j
    /\ items[i].to # 0 => IF IsMail(slot) THEN items[items[i].to].to = 0
                          ELSE \A j \in AllOf(slot) : j < i => j <= items[i].to
Referring(slot) ==
  /\ \A b \in Builds : IsMail(slot) /\ refs[b][slot] # 0 => items[refs[b][slot]].to = 0
  /\ \/ AllOf(slot) = {}
     \/ \E b \in Builds : refs[b][slot] # 0 /\ (IsMail(slot) \/ \A j \in AllOf(slot) : j <= refs[b][slot])
     \/ \E w \in CallsOf(slot) : At(w, "save")
Saving(slot) ==
  \A w \in CallsOf(slot) :
    At(w, "save") => IF IsMail(slot) THEN Ref(w) = 0 => items[work[w].ref].to = 0
                     ELSE \A j \in AllOf(slot) : j <= work[w].ref
Hanging(slot) ==
  \/ HandlerOf(slot[1]).does \notin {"thread", "mail"}
  \/ Excused(slot, {"overlap", "elsewhere", "forgot", "repeated"})
  \/ Replying(slot) /\ Referring(slot) /\ Saving(slot)

\* An undisturbed call knows what it has done.
Knows(w) ==
  /\ ~At(w, "dedupe") /\ ~At(w, "mark") /\ work[w].h.does = "alert" =>
       \A r \in DOMAIN work[w].event : work[w].doing = work[w].h.acts[work[w].event[r]]
  /\ At(w, "save") /\ "run" \notin work[w].met =>
       /\ work[w].ref \in Live
       /\ items[work[w].ref].about = About(w)

IInv ==
  /\ TypeOK /\ Rivals /\ Settled /\ Registered /\ Detached /\ PolicyFound
  /\ \A slot \in Slots :
       ToldOnce(slot) /\ OneRef(slot) /\ OneMessage(slot) /\ Hanging(slot)
  /\ \A w \in Busy : Knows(w)
  /\ Reported /\ OnlySeenDropped /\ OwnPolicy
=============================================================================
