---------------------------- MODULE NotifyProofs ----------------------------
(***************************************************************************)
(* Proofs about Notify, for every set of handlers that IsHandler allows,   *)
(* every number of runs, workers and builds, and any number of events and  *)
(* failures.                                                               *)
(***************************************************************************)
EXTENDS Notify, FiniteSetTheorems, NaturalsInduction, WellFoundedInduction, TLAPS

-----------------------------------------------------------------------------
(* Handlers, calls and items.                                              *)

\* The handlers of a setup go by their IDs.
LEMMA HandlersByID ==
  ASSUME on \in Setups
  PROVE  /\ \A h \in on : IsHandler(h) /\ h.id \in Ids /\ HandlerOf(h.id) = h
         /\ \A id \in Ids : HandlerOf(id) \in on /\ HandlerOf(id).id = id
         /\ IsFiniteSet(on)
<1>1. /\ \A h \in on : IsHandler(h)
      /\ \A g, h \in on : g.id = h.id => g = h
      /\ IsFiniteSet(on)
  BY NotifyAssumption
<1>2. \A id \in Ids : HandlerOf(id) \in on /\ HandlerOf(id).id = id
  BY DEF Ids, HandlerOf
<1>3. \A h \in on : h.id \in Ids
  BY DEF Ids
<1>4. \A h \in on : HandlerOf(h.id) = h
  BY <1>1, <1>2, <1>3
<1> QED
  BY <1>1, <1>2, <1>3, <1>4

\* The steps of a call.
Steps == Waiting \cup {"load", "save", "check", "each", "policy", "transport", "attempt"}

\* The call c with other fields, other than what it is about.
Call(c, at, doing, ref, tries, met) ==
  [at |-> at, h |-> c.h, build |-> c.build, event |-> c.event, doing |-> doing, ref |-> ref,
   tries |-> tries, met |-> met]

\* A call is such a record.
LEMMA CallIs ==
  ASSUME NEW c \in Calls
  PROVE  c = Call(c, c.at, c.doing, c.ref, c.tries, c.met)
  BY DEF Calls, Call

\* The rewritings of several fields.
LEMMA RewrittenEntry ==
  ASSUME NEW c \in Calls, NEW at, NEW doing
  PROVE  [c EXCEPT !.at = at, !.doing = doing]
           = Call(c, at, doing, c.ref, c.tries, c.met)
<1>1. c = Call(c, c.at, c.doing, c.ref, c.tries, c.met)
  BY CallIs
<1>2. PICK a : a = [c EXCEPT !.at = at]
  OBVIOUS
<1>3. a = Call(c, at, c.doing, c.ref, c.tries, c.met)
  BY <1>1, <1>2, SMT DEF Call
<1>4. [c EXCEPT !.at = at, !.doing = doing]
        = [a EXCEPT !.doing = doing]
  BY <1>2
<1> QED
  BY <1>3, <1>4, SMT DEF Call

\* The request of a call has been answered.
LEMMA RewrittenAnswer ==
  ASSUME NEW c \in Calls, NEW at, NEW ref
  PROVE  [c EXCEPT !.at = at, !.ref = ref]
           = Call(c, at, c.doing, ref, c.tries, c.met)
<1>1. c = Call(c, c.at, c.doing, c.ref, c.tries, c.met)
  BY CallIs
<1>2. PICK a : a = [c EXCEPT !.at = at]
  OBVIOUS
<1>3. a = Call(c, at, c.doing, c.ref, c.tries, c.met)
  BY <1>1, <1>2, SMT DEF Call
<1>4. [c EXCEPT !.at = at, !.ref = ref]
        = [a EXCEPT !.ref = ref]
  BY <1>2
<1> QED
  BY <1>3, <1>4, SMT DEF Call

Loaded(c, at, ref, tries, doing) ==
  [c EXCEPT !.at = at, !.ref = ref, !.tries = tries, !.doing = doing]

\* The reference of a run has been loaded.
LEMMA RewrittenLoad ==
  ASSUME NEW c \in Calls, NEW at, NEW ref, NEW tries, NEW doing
  PROVE  Loaded(c, at, ref, tries, doing) = Call(c, at, doing, ref, tries, c.met)
<1>1. c = Call(c, c.at, c.doing, c.ref, c.tries, c.met)
  BY CallIs
<1>2. PICK a : a = [c EXCEPT !.at = at]
  OBVIOUS
<1>3. a = Call(c, at, c.doing, c.ref, c.tries, c.met)
  BY <1>1, <1>2, SMT DEF Call
<1>4. PICK b : b = [a EXCEPT !.ref = ref]
  OBVIOUS
<1>5. b = Call(c, at, c.doing, ref, c.tries, c.met)
  BY <1>3, <1>4, SMT DEF Call
<1>6. PICK d : d = [b EXCEPT !.tries = tries]
  OBVIOUS
<1>7. d = Call(c, at, c.doing, ref, tries, c.met)
  BY <1>5, <1>6, SMT DEF Call
<1>8. Loaded(c, at, ref, tries, doing) = [d EXCEPT !.doing = doing]
  BY <1>2, <1>4, <1>6 DEF Loaded
<1> QED
  BY <1>7, <1>8, SMT DEF Call

\* What such a record is.
LEMMA CallFields ==
  ASSUME NEW c \in Calls, NEW at \in Steps, NEW doing \in Requests, NEW ref \in Nat,
         NEW tries \in Nat, NEW met \in SUBSET {"run", "client"},
         NEW d, d = Call(c, at, doing, ref, tries, met)
  PROVE  /\ d \in Calls /\ d # Idle
         /\ d.at = at /\ d.doing = doing /\ d.ref = ref /\ d.tries = tries /\ d.met = met
         /\ d.h = c.h /\ d.build = c.build /\ d.event = c.event
<1>1. /\ d.at = at /\ d.doing = doing /\ d.ref = ref /\ d.tries = tries /\ d.met = met
      /\ d.h = c.h /\ d.build = c.build /\ d.event = c.event
  BY DEF Call
<1>2. c.h \in on /\ c.build \in Builds /\ c.event \in Events
  BY DEF Calls
<1>3. d \in Calls
  BY <1>2 DEF Calls, Call, Steps
<1>4. d # Idle
  <2>1. d.at # "idle"
    BY <1>1 DEF Steps, Waiting
  <2> QED
    BY <2>1 DEF Idle
<1> QED
  BY <1>1, <1>3, <1>4

\* What is known of a call that is running.
LEMMA CallOf ==
  ASSUME TypeOK, NEW w \in Workers, ~At(w, "idle")
  PROVE  /\ work[w] \in Calls /\ IsCall(work[w])
         /\ work[w].at \in Steps /\ work[w].h \in on /\ work[w].build \in Builds
         /\ work[w].event \in Events /\ work[w].doing \in Requests
         /\ work[w].ref \in Nat /\ work[w].tries \in Nat
         /\ work[w].met \in SUBSET {"run", "client"}
         /\ IsHandler(work[w].h) /\ work[w].h.id \in Ids /\ HandlerOf(work[w].h.id) = work[w].h
         /\ DOMAIN work[w].event \subseteq Runs /\ DOMAIN work[w].event # {}
         /\ \A r \in DOMAIN work[w].event : work[w].event[r] \in AllStates
<1>1. work[w] \in Calls \cup {Idle} /\ work[w] # Idle
  BY DEF TypeOK, CallsOK, At, Idle
<1>2. work[w] \in Calls /\ IsCall(work[w])
  BY <1>1 DEF TypeOK, CallsOK, Busy, At
<1>3. /\ work[w].at \in Steps /\ work[w].h \in on /\ work[w].build \in Builds
      /\ work[w].event \in Events /\ work[w].doing \in Requests
      /\ work[w].ref \in Nat /\ work[w].tries \in Nat
      /\ work[w].met \in SUBSET {"run", "client"}
  BY <1>2 DEF Calls, Steps
<1>4. IsHandler(work[w].h) /\ work[w].h.id \in Ids /\ HandlerOf(work[w].h.id) = work[w].h
  BY <1>3, HandlersByID DEF TypeOK
<1> QED
  BY <1>2, <1>3, <1>4, NotifyAssumption

\* The slots of a call are those of its handler and its runs.
LEMMA SlotsOfCall ==
  ASSUME TypeOK, NEW w \in Workers, ~At(w, "idle")
  PROVE  /\ SlotsOf(w) \subseteq Slots /\ SlotsOf(w) # {}
         /\ \A slot \in Slots :
              slot \in SlotsOf(w) <=> slot[1] = work[w].h.id /\ slot[2] \in DOMAIN work[w].event
         /\ \A slot \in SlotsOf(w) :
              /\ slot = <<work[w].h.id, slot[2]>> /\ slot[2] \in DOMAIN work[w].event
              /\ HandlerOf(slot[1]) = work[w].h
         /\ work[w].h.does # "flush" =>
              \E r \in Runs : /\ DOMAIN work[w].event = {r} /\ TheRun(w) = r
                              /\ SlotsOf(w) = {<<work[w].h.id, r>>}
<1>1. /\ work[w].h.id \in Ids /\ HandlerOf(work[w].h.id) = work[w].h /\ IsCall(work[w])
      /\ DOMAIN work[w].event \subseteq Runs /\ DOMAIN work[w].event # {}
  BY CallOf
<1>2. \A slot \in Slots : slot = <<slot[1], slot[2]>>
  BY DEF Slots
<1>3. SlotsOf(w) \subseteq Slots /\ SlotsOf(w) # {}
  <2>1. \A r \in DOMAIN work[w].event : <<work[w].h.id, r>> \in Slots
    BY <1>1 DEF Slots
  <2> QED
    BY <1>1, <2>1 DEF SlotsOf
<1>4. \A slot \in SlotsOf(w) : /\ slot = <<work[w].h.id, slot[2]>> /\ slot[2] \in DOMAIN work[w].event
                               /\ slot[1] = work[w].h.id
  BY DEF SlotsOf
<1>5. \A slot \in Slots :
        slot \in SlotsOf(w) <=> slot[1] = work[w].h.id /\ slot[2] \in DOMAIN work[w].event
  BY <1>2, <1>4 DEF SlotsOf
<1>6. ASSUME work[w].h.does # "flush"
      PROVE  \E r \in Runs : /\ DOMAIN work[w].event = {r} /\ TheRun(w) = r
                             /\ SlotsOf(w) = {<<work[w].h.id, r>>}
  <2>1. PICK r \in Runs : DOMAIN work[w].event = {r}
    BY <1>1, <1>6 DEF IsCall
  <2>2. TheRun(w) = r
    BY <2>1 DEF TheRun
  <2>3. SlotsOf(w) = {<<work[w].h.id, r>>}
    BY <2>1 DEF SlotsOf
  <2> QED
    BY <2>1, <2>2, <2>3
<1> QED
  BY <1>1, <1>3, <1>4, <1>5, <1>6

-----------------------------------------------------------------------------
(* What a step of one call leaves alone.                                   *)

\* A call before and after a step that is not its own.
Alike(c, d) ==
  /\ d.at = c.at /\ d.h = c.h /\ d.build = c.build /\ d.event = c.event
  /\ d.doing = c.doing /\ d.ref = c.ref /\ d.tries = c.tries /\ c.met \subseteq d.met

\* Another call may learn of a rival.
Kept(v) ==
  \/ At(v, "idle") /\ work'[v] = work[v]
  \/ ~At(v, "idle") /\ work'[v] \in Calls /\ Alike(work[v], work'[v])

\* Items stay where and whose they are.
Grown ==
  /\ DOMAIN items \subseteq DOMAIN items'
  /\ \A i \in DOMAIN items :
       items'[i].by = items[i].by /\ items'[i].of = items[i].of /\ items'[i].to = items[i].to

\* The step of w changes and adds what is about its own runs.
Own(w) ==
  /\ on' = on /\ TypeOK' /\ Grown
  /\ \A v \in Workers \ {w} : Kept(v)
  /\ \/ work'[w] = Idle
     \/ /\ work'[w] \in Calls /\ work'[w].h = work[w].h /\ work'[w].build = work[w].build
        /\ work'[w].event = work[w].event
        /\ "run" \in work[w].met => "run" \in work'[w].met
  /\ \A i \in DOMAIN items :
       items'[i] = items[i] \/ (items[i].by = work[w].h.id /\ DOMAIN items[i].of = DOMAIN work[w].event)
  /\ \A i \in DOMAIN items' \ DOMAIN items :
       items'[i].by = work[w].h.id /\ items'[i].of = work[w].event
  /\ \A b \in Builds : \A slot \in Slots \ SlotsOf(w) : refs'[b][slot] = refs[b][slot]
  /\ \A slot \in Slots :
       latest'[slot] = latest[slot]
       \/ (slot \in SlotsOf(w) /\ work'[w] = Idle /\ "run" \notin work[w].met)
  /\ seen \subseteq seen' /\ excused \subseteq excused'

\* A slot that a step leaves alone.
Untouched(slot) ==
  /\ AllOf(slot)' = AllOf(slot) /\ \A i \in AllOf(slot) : items'[i] = items[i]
  /\ CallsOf(slot)' = CallsOf(slot) /\ \A v \in CallsOf(slot) : Alike(work[v], work'[v])
  /\ \A b \in Builds : refs'[b][slot] = refs[b][slot]
  /\ excused \subseteq excused'
  /\ \/ <<slot, "store">> \in excused'
     \/ \A ev : slot[2] \in DOMAIN ev /\ <<"shared", HandlerOf(slot[1]).name, ev>> \in seen
               => <<"shared", HandlerOf(slot[1]).name, ev>> \in seen'

\* The handlers do not change.
LEMMA SameHandlers ==
  ASSUME on' = on
  PROVE  /\ Ids' = Ids /\ Slots' = Slots /\ Calls' = Calls /\ Items' = Items
         /\ \A id : HandlerOf(id)' = HandlerOf(id)
<1>1. Ids' = Ids /\ \A id : HandlerOf(id)' = HandlerOf(id)
  BY DEF Ids, HandlerOf
<1>2. Slots' = Slots
  BY <1>1 DEF Slots
<1>3. Calls' = Calls
  BY DEF Calls
<1>4. Words' = Words
  BY DEF Words
<1>5. Items' = Items
  BY <1>1, <1>4 DEF Items
<1> QED
  BY <1>1, <1>2, <1>3, <1>5

\* A call that is not idle is a record of Calls.
LEMMA NotIdle ==
  ASSUME NEW c \in Calls
  PROVE  c # Idle /\ c.at # "idle"
  BY DEF Calls, Idle, Waiting

\* A call that is kept is still well formed, and about the same runs.
LEMMA KeptCall ==
  ASSUME TypeOK, on' = on, Grown, NEW v \in Workers, ~At(v, "idle"), Kept(v)
  PROVE  /\ IsCall(work[v])' /\ Alike(work[v], work'[v]) /\ work'[v] \in Calls
         /\ ~At(v, "idle")' /\ SlotsOf(v)' = SlotsOf(v) /\ TheRun(v)' = TheRun(v)
<1>1. work'[v] \in Calls /\ Alike(work[v], work'[v])
  BY DEF Kept
<1>2. IsCall(work[v])
  BY CallOf
<1>3. Calls' = Calls
  BY SameHandlers
<1>4. ~At(v, "idle")'
  BY <1>1, NotIdle DEF At
<1>5. SlotsOf(v)' = SlotsOf(v) /\ TheRun(v)' = TheRun(v)
  BY <1>1 DEF Alike, SlotsOf, TheRun
<1>6. IsCall(work[v])'
  <2>1. work[v].ref # 0 => /\ work[v].ref \in DOMAIN items' /\ items'[work[v].ref].by = work[v].h.id
                           /\ DOMAIN items'[work[v].ref].of = DOMAIN work[v].event
    BY <1>2 DEF Grown, IsCall
  <2>2. Procedure(work[v].h)' = Procedure(work[v].h) /\ RequestsOf(work[v].h)' = RequestsOf(work[v].h)
    BY <1>1 DEF Alike, Procedure, RequestsOf
  <2> QED
    BY <1>1, <1>2, <1>3, <2>1, <2>2 DEF Alike, IsCall
<1> QED
  BY <1>1, <1>4, <1>5, <1>6

\* The calls after a step of w.
LEMMA CallsTyped ==
  ASSUME TypeOK, on' = on, Grown, NEW w \in Workers, \A v \in Workers \ {w} : Kept(v),
         work' \in [Workers -> Calls \cup {Idle}], work'[w] = Idle \/ IsCall(work[w])'
  PROVE  CallsOK'
<1>1. Calls' = Calls
  BY SameHandlers
<1>2. ASSUME NEW v \in Workers, ~At(v, "idle")'
      PROVE  IsCall(work[v])'
  <2>1. CASE v = w
    BY <1>2, <2>1 DEF At, Idle
  <2>2. CASE v # w
    <3>1. ~At(v, "idle")
      BY <1>2, <2>2 DEF Kept, At
    <3> QED
      BY <2>2, <3>1, KeptCall
  <2> QED
    BY <2>1, <2>2
<1> QED
  BY <1>1, <1>2 DEF CallsOK, Busy

\* What is known of an item.
LEMMA ItemOf ==
  ASSUME TypeOK, NEW i \in DOMAIN items
  PROVE  /\ items[i] \in Items /\ IsItem(HandlerOf(items[i].by), items[i]) /\ DOMAIN items = 1..Len(items)
         /\ Len(items) \in Nat /\ i \in Nat /\ i >= 1 /\ i # 0
         /\ items[i].by \in Ids /\ items[i].of \in Events /\ items[i].to \in Nat
         /\ items[i].is \in {"open", "resolved", "deleted"}
         /\ DOMAIN items[i].of \subseteq Runs /\ DOMAIN items[i].of # {}
<1>1. items \in Seq(Items) /\ IsItem(HandlerOf(items[i].by), items[i])
  BY DEF TypeOK, ItemsOK
<1>2. /\ items[i] \in Items /\ DOMAIN items = 1..Len(items) /\ Len(items) \in Nat
      /\ i \in Nat /\ i >= 1 /\ i # 0
  BY <1>1
<1>3. /\ items[i].by \in Ids /\ items[i].of \in Events /\ items[i].to \in Nat
      /\ items[i].is \in {"open", "resolved", "deleted"}
  BY <1>2 DEF Items
<1> QED
  BY <1>1, <1>2, <1>3, NotifyAssumption

\* The calls of a slot, after the step of w.
LEMMA OwnCalls ==
  ASSUME TypeOK, NEW w \in Workers, ~At(w, "idle"), Own(w)
  PROVE  /\ \A v \in Busy' : v \in Busy /\ SlotsOf(v)' = SlotsOf(v) /\ TheRun(v)' = TheRun(v)
         /\ \A v \in Busy \ {w} : v \in Busy' /\ Alike(work[v], work'[v]) /\ work'[v] \in Calls
         /\ w \in Busy' <=> work'[w] # Idle
         /\ w \in Busy' => /\ work'[w] \in Calls /\ work'[w].h = work[w].h
                           /\ work'[w].build = work[w].build /\ work'[w].event = work[w].event
                           /\ "run" \in work[w].met => "run" \in work'[w].met
<1>1. \A v \in Workers \ {w} : ~At(v, "idle")' => ~At(v, "idle")
  BY DEF Own, Kept, At
<1>2. \A v \in Workers \ {w} : ~At(v, "idle") =>
        /\ Alike(work[v], work'[v]) /\ work'[v] \in Calls /\ ~At(v, "idle")'
        /\ SlotsOf(v)' = SlotsOf(v) /\ TheRun(v)' = TheRun(v)
  BY KeptCall DEF Own
<1>3. ~At(w, "idle")' <=> work'[w] # Idle
  BY NotIdle DEF Own, At, Idle
<1>4. ~At(w, "idle")' => /\ work'[w] \in Calls /\ work'[w].h = work[w].h
                         /\ work'[w].build = work[w].build /\ work'[w].event = work[w].event
                         /\ "run" \in work[w].met => "run" \in work'[w].met
  BY <1>3 DEF Own
<1>5. ~At(w, "idle")' => SlotsOf(w)' = SlotsOf(w) /\ TheRun(w)' = TheRun(w)
  BY <1>4 DEF SlotsOf, TheRun
<1> QED
  BY <1>1, <1>2, <1>3, <1>4, <1>5 DEF Busy

\* Calls that overlap go on knowing it, and what is reported is undisturbed.
LEMMA OwnRivals ==
  ASSUME IInv, NEW w \in Workers, ~At(w, "idle"), Own(w)
  PROVE  Rivals' /\ Settled'
<1>1. TypeOK /\ Rivals /\ Settled
  BY DEF IInv
<1>2. /\ \A v \in Busy' : v \in Busy /\ SlotsOf(v)' = SlotsOf(v)
      /\ \A v \in Busy \ {w} : v \in Busy' /\ Alike(work[v], work'[v])
      /\ w \in Busy' <=> work'[w] # Idle
      /\ w \in Busy' => ("run" \in work[w].met => "run" \in work'[w].met)
  BY <1>1, OwnCalls
<1>3. \A v \in Busy' : "run" \in work[v].met => "run" \in work'[v].met
  BY <1>2 DEF Alike
<1>4. Rivals'
  BY <1>1, <1>2, <1>3 DEF Rivals, Excused, Own
<1>5. ASSUME NEW slot \in Slots, latest'[slot] # "none"
      PROVE  CallsOf(slot)' = {}
  <2>1. CASE latest'[slot] = latest[slot]
    BY <1>1, <1>2, <1>5, <2>1 DEF Settled, CallsOf
  <2>2. CASE slot \in SlotsOf(w) /\ work'[w] = Idle /\ "run" \notin work[w].met
    <3>1. w \in Busy
      BY DEF Busy
    <3>2. \A v \in Busy \ {w} : slot \notin SlotsOf(v)
      BY <1>1, <2>2, <3>1 DEF Rivals
    <3> QED
      BY <1>2, <2>2, <3>2 DEF CallsOf
  <2> QED
    BY <2>1, <2>2 DEF Own
<1>6. Slots' = Slots
  BY SameHandlers DEF Own
<1> QED
  BY <1>4, <1>5, <1>6 DEF Settled

\* The slots of other calls are left alone.
LEMMA OwnUntouched ==
  ASSUME TypeOK, NEW w \in Workers, ~At(w, "idle"), Own(w), NEW slot \in Slots, slot \notin SlotsOf(w)
  PROVE  Untouched(slot) /\ latest'[slot] = latest[slot]
<1>1. slot[1] # work[w].h.id \/ slot[2] \notin DOMAIN work[w].event
  BY SlotsOfCall
<1>2. \A i \in DOMAIN items : items'[i].by = items[i].by /\ items'[i].of = items[i].of /\ i \in DOMAIN items'
  BY DEF Own, Grown
<1>3. AllOf(slot)' = AllOf(slot)
  <2>1. \A i \in DOMAIN items' \ DOMAIN items : i \notin AllOf(slot)'
    BY <1>1 DEF Own, AllOf
  <2> QED
    BY <1>2, <2>1 DEF AllOf
<1>4. \A i \in AllOf(slot) : items'[i] = items[i]
  BY <1>1 DEF Own, AllOf
<1>5. /\ CallsOf(slot)' = CallsOf(slot) /\ \A v \in CallsOf(slot) : Alike(work[v], work'[v])
  <2>1. /\ \A v \in Busy' : v \in Busy /\ SlotsOf(v)' = SlotsOf(v)
        /\ \A v \in Busy \ {w} : v \in Busy' /\ Alike(work[v], work'[v])
    BY OwnCalls
  <2> QED
    BY <2>1 DEF CallsOf
<1>6. \A b \in Builds : refs'[b][slot] = refs[b][slot]
  BY DEF Own
<1>7. latest'[slot] = latest[slot] /\ excused \subseteq excused' /\ seen \subseteq seen'
  BY DEF Own
<1>8. \A ev : slot[2] \in DOMAIN ev /\ <<"shared", HandlerOf(slot[1]).name, ev>> \in seen
             => <<"shared", HandlerOf(slot[1]).name, ev>> \in seen'
  BY <1>7
<1> QED
  BY <1>3, <1>4, <1>5, <1>6, <1>7, <1>8 DEF Untouched

-----------------------------------------------------------------------------
(* A slot that is left alone keeps what holds of it.                       *)

\* What the parts of the invariant look at.
LEMMA UntouchedViews ==
  ASSUME TypeOK, on' = on, NEW slot \in Slots, Untouched(slot)
  PROVE  /\ HandlerOf(slot[1])' = HandlerOf(slot[1])
         /\ ItemsOf(slot)' = ItemsOf(slot) /\ ItemsOf(slot) \subseteq AllOf(slot)
         /\ Inside(slot)' = Inside(slot)
         /\ \A reasons : Excused(slot, reasons) => Excused(slot, reasons)'
<1>1. HandlerOf(slot[1])' = HandlerOf(slot[1])
  BY SameHandlers
<1>2. ItemsOf(slot) = {i \in AllOf(slot) : items[i].is # "deleted"}
  BY DEF ItemsOf, AllOf, Live
<1>3. ItemsOf(slot)' = {i \in AllOf(slot)' : items'[i].is # "deleted"}
  BY DEF ItemsOf, AllOf, Live
<1>4. ItemsOf(slot)' = ItemsOf(slot)
  BY <1>2, <1>3 DEF Untouched
<1>5. Inside(slot)' = Inside(slot)
  BY DEF Untouched, Inside, Alike
<1>6. \A reasons : Excused(slot, reasons) => Excused(slot, reasons)'
  BY DEF Untouched, Excused
<1> QED
  BY <1>1, <1>2, <1>4, <1>5, <1>6

\* What is told once of a slot stays so where nothing touches it.
LEMMA UntouchedToldOnce ==
  ASSUME TypeOK, on' = on, NEW slot \in Slots, Untouched(slot), ToldOnce(slot)
  PROVE  ToldOnce(slot)'
<1>1. /\ HandlerOf(slot[1])' = HandlerOf(slot[1]) /\ Inside(slot)' = Inside(slot)
      /\ Excused(slot, {"store", "repeated"}) => Excused(slot, {"store", "repeated"})'
  BY UntouchedViews
<1>2. AllOf(slot)' = AllOf(slot) /\ \A i \in AllOf(slot) : items'[i] = items[i]
  BY DEF Untouched
<1>3. \A v \in Inside(slot) : work'[v].event = work[v].event /\ slot[2] \in DOMAIN work[v].event
  <2>1. \A v \in Inside(slot) : work'[v].event = work[v].event
    BY DEF Inside, Untouched, Alike
  <2>2. \A v \in Inside(slot) : v \in Workers /\ ~At(v, "idle") /\ slot \in SlotsOf(v)
    BY DEF Inside, CallsOf, Busy
  <2> QED
    BY <2>1, <2>2, SlotsOfCall
<1>4. \/ Excused(slot, {"store", "repeated"})'
      \/ \A ev : slot[2] \in DOMAIN ev /\ <<"shared", HandlerOf(slot[1]).name, ev>> \in seen
                => <<"shared", HandlerOf(slot[1]).name, ev>> \in seen'
  BY DEF Untouched, Excused
<1>5. \A i \in AllOf(slot) : slot[2] \in DOMAIN items[i].of
  BY DEF AllOf
<1>6. PICK name : name = HandlerOf(slot[1]).name /\ name = HandlerOf(slot[1])'.name
  BY <1>1
<1>7. SUFFICES ASSUME ~Excused(slot, {"store", "repeated"})', HandlerOf(slot[1]).store = "shared",
                      HandlerOf(slot[1]).does = "post"
               PROVE  ToldOnce(slot)'
  BY <1>1 DEF ToldOnce
<1>8. /\ \A i \in AllOf(slot) : <<"shared", name, items[i].of>> \in seen
      /\ \A i, j \in AllOf(slot) : items[i].of = items[j].of => i = j
      /\ \A w \in Inside(slot) :
           /\ <<"shared", name, work[w].event>> \in seen
           /\ \A i \in AllOf(slot) : items[i].of # work[w].event
           /\ \A v \in Inside(slot) : work[v].event = work[w].event => v = w
  BY <1>1, <1>6, <1>7 DEF ToldOnce
<1>9. \A i \in AllOf(slot)' : <<"shared", name, items'[i].of>> \in seen'
  BY <1>2, <1>4, <1>5, <1>6, <1>7, <1>8
<1>10. \A v \in Inside(slot)' : <<"shared", name, work'[v].event>> \in seen'
  BY <1>1, <1>3, <1>4, <1>6, <1>7, <1>8
<1>11. \A i, j \in AllOf(slot)' : items'[i].of = items'[j].of => i = j
  BY <1>2, <1>8
<1>12. \A w \in Inside(slot)' :
         /\ \A i \in AllOf(slot)' : items'[i].of # work'[w].event
         /\ \A v \in Inside(slot)' : work'[v].event = work'[w].event => v = w
  BY <1>1, <1>2, <1>3, <1>8, ZenonT(40)
<1> QED
  BY <1>6, <1>9, <1>10, <1>11, <1>12 DEF ToldOnce

\* So does its reference,
LEMMA UntouchedOneRef ==
  ASSUME TypeOK, on' = on, NEW slot \in Slots, Untouched(slot), OneRef(slot)
  PROVE  OneRef(slot)'
<1>1. /\ HandlerOf(slot[1])' = HandlerOf(slot[1])
      /\ Excused(slot, {"overlap", "elsewhere", "forgot"}) =>
           Excused(slot, {"overlap", "elsewhere", "forgot"})'
  BY UntouchedViews
<1>2. SUFFICES ASSUME HandlerOf(slot[1]).does \in Keepers,
                      ~Excused(slot, {"overlap", "elsewhere", "forgot"})
               PROVE  OneRef(slot)'
  BY <1>1 DEF OneRef
<1>3. /\ CallsOf(slot)' = CallsOf(slot) /\ \A v \in CallsOf(slot) : Alike(work[v], work'[v])
      /\ \A b \in Builds : refs'[b][slot] = refs[b][slot]
  BY DEF Untouched
<1>4. ASSUME NEW v \in CallsOf(slot), At(v, "attempt")'
      PROVE  work'[v].ref = Ref(v)'
  <2>1. At(v, "attempt") /\ work'[v].ref = work[v].ref /\ work'[v].build = work[v].build
        /\ work'[v].h = work[v].h /\ work'[v].event = work[v].event
    BY <1>3, <1>4 DEF Alike, At
  <2>2. work[v].ref = Ref(v)
    BY <1>2, <2>1 DEF OneRef
  <2>3. v \in Workers /\ ~At(v, "idle") /\ slot \in SlotsOf(v)
    BY DEF CallsOf, Busy
  <2>4. <<work[v].h.id, TheRun(v)>> = slot
    <3>1. HandlerOf(slot[1]) = work[v].h
      BY <2>3, SlotsOfCall
    <3>2. work[v].h.does # "flush"
      BY <1>2, <3>1 DEF Keepers
    <3> QED
      BY <2>3, <3>2, SlotsOfCall
  <2>5. TheRun(v)' = TheRun(v) /\ work[v].build \in Builds
    BY <2>1, <2>3, CallOf DEF TheRun
  <2> QED
    BY <1>3, <2>1, <2>2, <2>4, <2>5 DEF Ref
<1> QED
  BY <1>1, <1>2, <1>3, <1>4 DEF OneRef, Alike

\* its message or issue,
LEMMA UntouchedOneMessage ==
  ASSUME TypeOK, on' = on, NEW slot \in Slots, Untouched(slot), OneMessage(slot)
  PROVE  OneMessage(slot)'
<1> DEFINE Why == {"overlap", "elsewhere", "forgot", "edit failed", "repeated"}
<1>1. /\ HandlerOf(slot[1])' = HandlerOf(slot[1]) /\ Inside(slot)' = Inside(slot)
      /\ ItemsOf(slot)' = ItemsOf(slot) /\ (Excused(slot, Why) => Excused(slot, Why)')
  BY UntouchedViews
<1>2. /\ CallsOf(slot)' = CallsOf(slot) /\ \A v \in CallsOf(slot) : Alike(work[v], work'[v])
      /\ \A b \in Builds : refs'[b][slot] = refs[b][slot]
  BY DEF Untouched
<1>3. Inside(slot) \subseteq CallsOf(slot)
  BY DEF Inside
<1>4. \A v \in CallsOf(slot) : /\ work'[v].ref = work[v].ref /\ work'[v].doing = work[v].doing
                               /\ \A step : At(v, step)' <=> At(v, step)
  BY <1>2 DEF Alike, At
<1> QED
  BY <1>1, <1>2, <1>3, <1>4 DEF OneMessage

\* What a message replies to is an earlier one of its slot.
LEMMA RepliesOf ==
  ASSUME TypeOK, NEW slot \in Slots
  PROVE  \A i \in AllOf(slot) : items[i].to # 0 => items[i].to \in AllOf(slot) /\ items[i].to < i
<1>1. SUFFICES ASSUME NEW i \in AllOf(slot), items[i].to # 0
               PROVE  items[i].to \in AllOf(slot) /\ items[i].to < i
  OBVIOUS
<1>2. i \in DOMAIN items /\ items[i].by = slot[1] /\ slot[2] \in DOMAIN items[i].of
  BY DEF AllOf
<1>3. /\ items[items[i].to].by = items[i].by /\ DOMAIN items[items[i].to].of = DOMAIN items[i].of
      /\ items[i].to < i
  BY <1>1, <1>2 DEF TypeOK, ItemsOK
<1>4. items[i].to \in DOMAIN items
  BY <1>1, <1>2, <1>3, ItemOf
<1> QED
  BY <1>2, <1>3, <1>4 DEF AllOf

\* A reference is to a message of its slot.
LEMMA RefsOf ==
  ASSUME TypeOK, NEW slot \in Slots
  PROVE  \A b \in Builds : refs[b][slot] # 0 => refs[b][slot] \in AllOf(slot)
  BY DEF TypeOK, RefsOK, AllOf

\* and its thread.
LEMMA UntouchedHanging ==
  ASSUME TypeOK, on' = on, NEW slot \in Slots, Untouched(slot), Hanging(slot)
  PROVE  Hanging(slot)'
<1> DEFINE Why == {"overlap", "elsewhere", "forgot", "repeated"}
<1>1. /\ HandlerOf(slot[1])' = HandlerOf(slot[1])
      /\ Excused(slot, Why) => Excused(slot, Why)'
  BY UntouchedViews
<1>2. SUFFICES ASSUME HandlerOf(slot[1]).does \in {"thread", "mail"}, ~Excused(slot, Why)
               PROVE  Hanging(slot)'
  BY <1>1 DEF Hanging
<1>3. /\ CallsOf(slot)' = CallsOf(slot) /\ \A v \in CallsOf(slot) : Alike(work[v], work'[v])
      /\ \A b \in Builds : refs'[b][slot] = refs[b][slot]
      /\ AllOf(slot)' = AllOf(slot) /\ \A i \in AllOf(slot) : items'[i] = items[i]
  BY DEF Untouched
<1>4. \A v \in CallsOf(slot) : /\ work'[v].ref = work[v].ref
                               /\ \A step : At(v, step)' <=> At(v, step)
  BY <1>3 DEF Alike, At
<1>5. \A v \in CallsOf(slot) : /\ Ref(v)' = Ref(v)
                               /\ work[v].ref # 0 => work[v].ref \in AllOf(slot)
                               /\ At(v, "save") => work[v].ref # 0
  <2>1. SUFFICES ASSUME NEW v \in CallsOf(slot)
                 PROVE  /\ Ref(v)' = Ref(v)
                        /\ work[v].ref # 0 => work[v].ref \in AllOf(slot)
                        /\ At(v, "save") => work[v].ref # 0
    OBVIOUS
  <2>2. v \in Workers /\ ~At(v, "idle") /\ slot \in SlotsOf(v)
    BY DEF CallsOf, Busy
  <2>3. /\ work'[v].build = work[v].build /\ work'[v].h = work[v].h /\ work'[v].event = work[v].event
        /\ work[v].build \in Builds /\ IsCall(work[v])
    BY <1>3, <2>2, CallOf DEF Alike
  <2>4. <<work[v].h.id, TheRun(v)>> = slot /\ slot[1] = work[v].h.id
        /\ slot[2] \in DOMAIN work[v].event
    <3>1. HandlerOf(slot[1]) = work[v].h
      BY <2>2, SlotsOfCall
    <3>2. work[v].h.does # "flush"
      BY <1>2, <3>1
    <3> QED
      BY <2>2, <3>2, SlotsOfCall
  <2>5. Ref(v)' = Ref(v)
    BY <1>3, <2>3, <2>4 DEF Ref, TheRun
  <2>6. work[v].ref # 0 => work[v].ref \in AllOf(slot)
    BY <2>3, <2>4 DEF IsCall, AllOf
  <2>7. At(v, "save") => work[v].ref # 0
    BY <2>3 DEF IsCall, At
  <2> QED
    BY <2>5, <2>6, <2>7
<1>6. \A i \in AllOf(slot) : items[i].to # 0 => items[i].to \in AllOf(slot)
  BY RepliesOf
<1>7. \A b \in Builds : refs[b][slot] # 0 => refs[b][slot] \in AllOf(slot)
  BY RefsOf
<1>8. Replying(slot) /\ Referring(slot) /\ Saving(slot) /\ (IsMail(slot)' <=> IsMail(slot))
  BY <1>1, <1>2 DEF Hanging, IsMail
<1>9. Replying(slot)'
  BY <1>3, <1>6, <1>8 DEF Replying
<1>10. Referring(slot)'
  BY <1>3, <1>4, <1>7, <1>8 DEF Referring
<1>11. Saving(slot)'
  BY <1>3, <1>4, <1>5, <1>8 DEF Saving
<1> QED
  BY <1>9, <1>10, <1>11 DEF Hanging

\* What is reported stands while the items of the slot stay.
LEMMA SameStands ==
  ASSUME TypeOK, on' = on, NEW slot \in Slots, Stands(slot), latest'[slot] = latest[slot],
         ItemsOf(slot)' = ItemsOf(slot), \A i \in ItemsOf(slot) : items'[i] = items[i],
         excused \subseteq excused'
  PROVE  Stands(slot)'
<1> DEFINE Why == {"overlap", "elsewhere", "forgot", "edit failed", "repeated"}
<1>1. HandlerOf(slot[1])' = HandlerOf(slot[1]) /\ (Excused(slot, Why) => Excused(slot, Why)')
      /\ (Excused(slot, {"not offered"}) => Excused(slot, {"not offered"})')
  BY SameHandlers DEF Excused
<1>2. \A i \in ItemsOf(slot) : items'[i] = items[i]
  OBVIOUS
<1>3. Showing(slot)' = Showing(slot)
  BY <1>1, <1>2 DEF Showing
<1>4. Showing(slot) \subseteq ItemsOf(slot)
  BY DEF Showing
<1>5. Tells(slot) => Tells(slot)'
  <2>1. PICK h, s : h = HandlerOf(slot[1]) /\ h = HandlerOf(slot[1])' /\ s = latest[slot] /\ s = latest'[slot]
    BY <1>1
  <2>2. /\ \A x : (\E i \in ItemsOf(slot)' : items'[i].is = x) <=> (\E i \in ItemsOf(slot) : items[i].is = x)
        /\ \A x : (\E i \in ItemsOf(slot)' : items'[i].kind = x) <=> (\E i \in ItemsOf(slot) : items[i].kind = x)
        /\ \A x : (\E i \in Showing(slot)' : items'[i].kind = x) <=> (\E i \in Showing(slot) : items[i].kind = x)
    BY <1>1, <1>2, <1>3, <1>4
  <2> QED
    BY <1>1, <1>3, <2>1, <2>2, ZenonT(40) DEF Tells
<1> QED
  BY <1>1, <1>5 DEF Stands

\* It stands where nothing touches the slot.
LEMMA UntouchedStands ==
  ASSUME TypeOK, on' = on, NEW slot \in Slots, Untouched(slot), Stands(slot),
         latest'[slot] = latest[slot]
  PROVE  Stands(slot)'
<1>1. ItemsOf(slot)' = ItemsOf(slot) /\ ItemsOf(slot) \subseteq AllOf(slot)
  BY UntouchedViews
<1> QED
  BY <1>1, SameStands DEF Untouched

\* What a call knows stands, unless it is disturbed.
LEMMA UntouchedKnows ==
  ASSUME TypeOK, on' = on, Grown, NEW v \in Workers, ~At(v, "idle"), Kept(v), Knows(v),
         \/ "run" \in work'[v].met \/ ~At(v, "save")
         \/ \A slot \in SlotsOf(v) : Untouched(slot)
  PROVE  Knows(v)'
<1>1. Alike(work[v], work'[v])
  BY KeptCall
<1>2. (~At(v, "dedupe") /\ ~At(v, "mark") /\ work[v].h.does = "alert")' =>
        (\A r \in DOMAIN work[v].event : work[v].doing = work[v].h.acts[work[v].event[r]])'
  BY <1>1 DEF Alike, Knows, At
<1>3. ASSUME At(v, "save")', "run" \notin work'[v].met
      PROVE  work'[v].ref \in Live' /\ items'[work'[v].ref].about = About(v)'
  <2>1. At(v, "save") /\ "run" \notin work[v].met
    BY <1>1, <1>3 DEF Alike, At
  <2>2. work[v].ref \in Live /\ items[work[v].ref].about = About(v)
    BY <2>1 DEF Knows
  <2>3. PICK slot \in SlotsOf(v) : Untouched(slot)
    BY <1>3, <2>1, SlotsOfCall
  <2>4. work[v].ref \in AllOf(slot)
    BY <2>1, CallOf, SlotsOfCall DEF IsCall, AllOf, At
  <2>5. items'[work[v].ref] = items[work[v].ref] /\ work[v].ref \in AllOf(slot)'
    BY <2>3, <2>4 DEF Untouched
  <2>6. About(v)' = About(v) /\ work'[v].ref = work[v].ref
    BY <1>1 DEF Alike, About
  <2> QED
    BY <2>2, <2>5, <2>6 DEF Live, AllOf
<1> QED
  BY <1>2, <1>3 DEF Knows

\* A step of w restores the invariant if it does so for its own slots.
LEMMA OwnStep ==
  ASSUME IInv, NEW w \in Workers, ~At(w, "idle"), Own(w),
         Registered', Detached', PolicyFound', OnlySeenDropped', OwnPolicy',
         \A slot \in SlotsOf(w) :
           /\ ToldOnce(slot)' /\ OneRef(slot)' /\ OneMessage(slot)' /\ Hanging(slot)'
           /\ Stands(slot)',
         work'[w] # Idle => Knows(w)'
  PROVE  IInv'
<1>1. TypeOK /\ on' = on /\ Grown /\ TypeOK'
  BY DEF IInv, Own
<1>2. Rivals' /\ Settled'
  BY OwnRivals
<1>3. \A slot \in Slots \ SlotsOf(w) : Untouched(slot) /\ latest'[slot] = latest[slot]
  BY <1>1, OwnUntouched
<1>4. \A slot \in Slots \ SlotsOf(w) :
        /\ ToldOnce(slot)' /\ OneRef(slot)' /\ OneMessage(slot)' /\ Hanging(slot)'
        /\ Stands(slot)'
  BY <1>1, <1>3, UntouchedToldOnce, UntouchedOneRef, UntouchedOneMessage, UntouchedHanging,
     UntouchedStands DEF IInv, Reported
<1>5. Slots' = Slots
  BY <1>1, SameHandlers
<1>6. ASSUME NEW v \in Busy'
      PROVE  Knows(v)'
  <2>1. CASE v = w
    BY <1>1, <1>6, <2>1, OwnCalls
  <2>2. CASE v # w
    <3>1. v \in Workers /\ ~At(v, "idle") /\ Kept(v) /\ Alike(work[v], work'[v]) /\ v \in Busy
      BY <1>1, <1>6, <2>2, OwnCalls DEF Busy, Own
    <3>2. Knows(v)
      BY <3>1 DEF IInv
    <3>3. CASE SlotsOf(v) \cap SlotsOf(w) = {}
      <4>1. \A slot \in SlotsOf(v) : Untouched(slot)
        BY <1>1, <1>3, <3>1, <3>3, SlotsOfCall
      <4> QED
        BY <1>1, <3>1, <3>2, <4>1, UntouchedKnows
    <3>4. CASE SlotsOf(v) \cap SlotsOf(w) # {}
      <4>1. w \in Busy
        BY DEF Busy
      <4>2. "run" \in work[v].met
        BY <2>2, <3>1, <3>4, <4>1 DEF IInv, Rivals
      <4>3. "run" \in work'[v].met
        BY <3>1, <4>2 DEF Alike
      <4> QED
        BY <1>1, <3>1, <3>2, <4>3, UntouchedKnows
    <3> QED
      BY <3>3, <3>4
  <2> QED
    BY <2>1, <2>2
<1> QED
  BY <1>1, <1>2, <1>4, <1>5, <1>6 DEF IInv, Reported

-----------------------------------------------------------------------------
(* How a call goes on.                                                     *)

\* The call has been undisturbed and its events are reported.
Reports(w) ==
  latest' = [slot \in Slots |-> IF "run" \notin work[w].met /\ slot \in SlotsOf(w)
                                THEN work[w].event[slot[2]] ELSE latest[slot]]

\* The call of w goes on, or ends; the others are kept.
Continues(w) ==
  /\ work' \in [Workers -> Calls \cup {Idle}] /\ \A v \in Workers \ {w} : Kept(v)
  /\ \/ work'[w] = Idle /\ (latest' = latest \/ Reports(w))
     \/ /\ work'[w] \in Calls /\ work'[w].h = work[w].h /\ work'[w].build = work[w].build
        /\ work'[w].event = work[w].event
        /\ "run" \in work[w].met => "run" \in work'[w].met
        /\ IsCall(work[w])' /\ latest' = latest

\* What else is typed.
Beside ==
  /\ client' \in [max : {0} \cup {h.attempts - 1 : h \in on}, http : Ids \cup {"none"}]
  /\ connected' \subseteq Builds /\ closed' \in [Builds -> {"open", "closing", "closed"}]
  /\ tried' \subseteq Ids \X Events /\ dropped' \subseteq Ids \X Events
  /\ events' \in Nat /\ faults' \in Nat /\ seen \subseteq seen' /\ excused \subseteq excused'

\* What an item step of w does.
ItemStep(w) ==
  /\ ItemsOK' /\ Grown
  /\ \A i \in DOMAIN items :
       items'[i] = items[i] \/ (items[i].by = work[w].h.id /\ DOMAIN items[i].of = DOMAIN work[w].event)
  /\ \A i \in DOMAIN items' \ DOMAIN items :
       items'[i].by = work[w].h.id /\ items'[i].of = work[w].event

\* A step of w that is well formed in its parts touches only its own runs.
LEMMA OwnBy ==
  ASSUME TypeOK, NEW w \in Workers, ~At(w, "idle"), on' = on, ItemStep(w), RefsOK',
         \A b \in Builds : \A slot \in Slots \ SlotsOf(w) : refs'[b][slot] = refs[b][slot],
         Continues(w), Beside
  PROVE  Own(w)
<1>1. CallsOK'
  BY CallsTyped DEF Continues, ItemStep
<1>2. /\ latest' \in [Slots -> AllStates \cup {"none"}]
      /\ \A slot \in Slots :
           latest'[slot] = latest[slot]
           \/ (slot \in SlotsOf(w) /\ work'[w] = Idle /\ "run" \notin work[w].met)
  <2>1. latest \in [Slots -> AllStates \cup {"none"}]
    BY DEF TypeOK
  <2>2. CASE latest' = latest
    BY <2>1, <2>2
  <2>3. CASE Reports(w) /\ work'[w] = Idle
    <3>1. \A slot \in SlotsOf(w) : work[w].event[slot[2]] \in AllStates
      BY CallOf, SlotsOfCall
    <3>2. \A slot \in Slots : latest'[slot] = IF "run" \notin work[w].met /\ slot \in SlotsOf(w)
                                              THEN work[w].event[slot[2]] ELSE latest[slot]
      BY <2>3 DEF Reports
    <3>3. latest' \in [Slots -> AllStates \cup {"none"}]
      BY <2>1, <2>3, <3>1 DEF Reports
    <3> QED
      BY <2>3, <3>2, <3>3
  <2> QED
    BY <2>2, <2>3 DEF Continues
<1>3. TypeOK'
  BY <1>1, <1>2, SameHandlers DEF TypeOK, ItemStep, Beside
<1>4. /\ \A v \in Workers \ {w} : Kept(v)
      /\ \/ work'[w] = Idle
         \/ /\ work'[w] \in Calls /\ work'[w].h = work[w].h /\ work'[w].build = work[w].build
            /\ work'[w].event = work[w].event
            /\ "run" \in work[w].met => "run" \in work'[w].met
  BY DEF Continues
<1> QED
  BY <1>2, <1>3, <1>4 DEF Own, ItemStep, Beside

\* A step without effect on the services.
LEMMA NoItemStep ==
  ASSUME TypeOK, NEW w, on' = on, items' = items
  PROVE  ItemStep(w) /\ Grown
<1>1. ItemsOK
  BY DEF TypeOK
<1>2. Items' = Items /\ \A id : HandlerOf(id)' = HandlerOf(id)
  BY SameHandlers
<1>3. ItemsOK'
  BY <1>1, <1>2 DEF ItemsOK
<1> QED
  BY <1>3 DEF ItemStep, Grown

\* References that stay, to items that stay.
LEMMA RefsStay ==
  ASSUME TypeOK, on' = on, Grown, refs' = refs
  PROVE  /\ RefsOK'
         /\ \A b \in Builds, slot \in Slots : refs'[b][slot] = refs[b][slot]
<1>1. RefsOK /\ Slots' = Slots
  BY SameHandlers DEF TypeOK
<1> QED
  BY <1>1 DEF RefsOK, Grown

\* The call becomes c.
LEMMA Became ==
  ASSUME TypeOK, NEW w \in Workers, ~At(w, "idle"), NEW c \in Calls \cup {Idle},
         work' = [work EXCEPT ![w] = c]
  PROVE  /\ work' \in [Workers -> Calls \cup {Idle}] /\ work'[w] = c
         /\ \A v \in Workers \ {w} : Kept(v) /\ work'[v] = work[v]
<1>1. work \in [Workers -> Calls \cup {Idle}]
  BY DEF TypeOK, CallsOK
<1>2. /\ work' \in [Workers -> Calls \cup {Idle}] /\ work'[w] = c
      /\ \A v \in Workers \ {w} : work'[v] = work[v]
  BY <1>1
<1>3. ASSUME NEW v \in Workers \ {w}
      PROVE  Kept(v)
  <2>1. work'[v] = work[v]
    BY <1>2
  <2>2. ~At(v, "idle") => work[v] \in Calls
    BY CallOf
  <2> QED
    BY <2>1, <2>2 DEF Kept, Alike
<1> QED
  BY <1>2, <1>3

\* A call ends.
LEMMA Ended ==
  ASSUME TypeOK, NEW w \in Workers, ~At(w, "idle"), Leave(w) \/ Return(w)
  PROVE  /\ Continues(w) /\ work'[w] = Idle
         /\ \A v \in Workers \ {w} : work'[v] = work[v]
         /\ Leave(w) => latest' = latest
         /\ Return(w) => Reports(w)
<1>1. work' = [work EXCEPT ![w] = Idle]
  BY DEF Leave, Return
<1>2. /\ work' \in [Workers -> Calls \cup {Idle}] /\ work'[w] = Idle
      /\ \A v \in Workers \ {w} : Kept(v) /\ work'[v] = work[v]
  BY <1>1, Became
<1>3. (Leave(w) => latest' = latest) /\ (Return(w) => Reports(w))
  BY DEF Leave, Return, Reports
<1> QED
  BY <1>2, <1>3 DEF Continues

\* A call goes on with other fields.
GoesOn(w, at, doing, ref, tries, met) ==
  /\ work'[w] \in Calls /\ work'[w].h = work[w].h /\ work'[w].build = work[w].build
  /\ work'[w].event = work[w].event /\ work'[w].at = at /\ work'[w].doing = doing
  /\ work'[w].ref = ref /\ work'[w].tries = tries /\ work'[w].met = met

\* What the procedure of the handler allows.
Fits(w, at, doing, ref, tries) ==
  /\ at \in Procedure(work[w].h) /\ doing \in RequestsOf(work[w].h) /\ at \notin Waiting
  /\ at \in {"policy", "transport"} => tries = 0
  /\ (at = "attempt" /\ doing = "edit") \/ at = "save" => ref # 0
  /\ ref # 0 => /\ ref \in DOMAIN items' /\ items'[ref].by = work[w].h.id
                /\ DOMAIN items'[ref].of = DOMAIN work[w].event
  /\ \A r \in DOMAIN work[w].event : Wanted(work[w].h, work[w].event[r])

\* Where a handler's procedure begins, and its first request, are parts of it.
LEMMA ProcedureFacts ==
  ASSUME NEW h, IsHandler(h)
  PROVE  /\ FirstStep(h) \in Procedure(h) /\ FirstStep(h) \notin Waiting
         /\ Procedure(h) \subseteq Steps \ Waiting /\ RequestsOf(h) \subseteq Requests
         /\ FirstRequests(h.does) \subseteq RequestsOf(h)
         /\ FirstStep(h) # "save" /\ "edit" \notin FirstRequests(h.does)
<1>1. h.does \in Ways /\ h.via \in {"client", "sdk"}
  BY DEF IsHandler
<1>2. FirstStep(h) \in Procedure(h) /\ FirstStep(h) \notin Waiting /\ FirstStep(h) # "save"
  BY <1>1 DEF FirstStep, Procedure, Waiting, Ways
<1>3. Procedure(h) \subseteq Steps \ Waiting
  BY <1>1 DEF Procedure, Steps, Waiting, Ways
<1>4. FirstRequests(h.does) \subseteq Requests /\ "edit" \notin FirstRequests(h.does)
  BY <1>1 DEF FirstRequests, Requests, Ways
<1>5. RequestsOf(h) \subseteq Requests /\ FirstRequests(h.does) \subseteq RequestsOf(h)
  BY <1>1, <1>4 DEF RequestsOf, Requests, Ways
<1> QED
  BY <1>2, <1>3, <1>4, <1>5

\* A call that goes on as its procedure allows is well formed.
LEMMA Went ==
  ASSUME TypeOK, NEW w \in Workers, ~At(w, "idle"), on' = on, Grown,
         NEW at, NEW doing, NEW ref \in Nat, NEW tries \in Nat, NEW met \in SUBSET {"run", "client"},
         Fits(w, at, doing, ref, tries), "run" \in work[w].met => "run" \in met,
         latest' = latest, work' \in [Workers -> Calls \cup {Idle}],
         \A v \in Workers \ {w} : Kept(v),
         work'[w] = Call(work[w], at, doing, ref, tries, met)
  PROVE  Continues(w) /\ GoesOn(w, at, doing, ref, tries, met) /\ work'[w] # Idle
<1>1. /\ work[w] \in Calls /\ IsCall(work[w]) /\ IsHandler(work[w].h)
  BY CallOf
<1>2. at \in Steps /\ doing \in Requests
  BY <1>1, ProcedureFacts DEF Fits
<1>3. GoesOn(w, at, doing, ref, tries, met) /\ work'[w] # Idle
  BY <1>1, <1>2, CallFields DEF GoesOn
<1>4. Calls' = Calls /\ Procedure(work[w].h)' = Procedure(work[w].h)
      /\ RequestsOf(work[w].h)' = RequestsOf(work[w].h)
  BY <1>3, SameHandlers DEF GoesOn, Procedure, RequestsOf
<1>5. IsCall(work[w])'
  BY <1>1, <1>3, <1>4 DEF IsCall, GoesOn, Fits, Waiting
<1> QED
  BY <1>3, <1>5 DEF Continues, GoesOn

-----------------------------------------------------------------------------
(* The slots of the call that takes the step.                              *)

\* The slots of w after a step of its own.
LEMMA OwnSlot ==
  ASSUME TypeOK, NEW w \in Workers, ~At(w, "idle"), Own(w), NEW slot \in SlotsOf(w)
  PROVE  /\ slot \in Slots /\ HandlerOf(slot[1]) = work[w].h /\ HandlerOf(slot[1])' = work[w].h
         /\ w \in CallsOf(slot) /\ CallsOf(slot)' \subseteq CallsOf(slot)
         /\ w \in CallsOf(slot)' <=> work'[w] # Idle
         /\ \A v \in CallsOf(slot) \ {w} : v \in CallsOf(slot)' /\ Alike(work[v], work'[v])
         /\ \A v \in CallsOf(slot)' : work'[v].event = work[v].event /\ work'[v].build = work[v].build
         /\ \A reasons : Excused(slot, reasons) => Excused(slot, reasons)'
<1>1. slot \in Slots /\ HandlerOf(slot[1]) = work[w].h
  BY SlotsOfCall
<1>2. HandlerOf(slot[1])' = work[w].h
  BY <1>1, SameHandlers DEF Own
<1>3. w \in CallsOf(slot)
  BY DEF CallsOf, Busy
<1>4. /\ \A v \in Busy' : v \in Busy /\ SlotsOf(v)' = SlotsOf(v)
      /\ \A v \in Busy \ {w} : v \in Busy' /\ Alike(work[v], work'[v])
      /\ w \in Busy' <=> work'[w] # Idle
      /\ w \in Busy' => work'[w].build = work[w].build /\ work'[w].event = work[w].event
  BY OwnCalls
<1>5. /\ CallsOf(slot)' \subseteq CallsOf(slot) /\ (w \in CallsOf(slot)' <=> work'[w] # Idle)
      /\ \A v \in CallsOf(slot) \ {w} : v \in CallsOf(slot)' /\ Alike(work[v], work'[v])
  BY <1>3, <1>4 DEF CallsOf
<1>6. \A v \in CallsOf(slot)' : work'[v].event = work[v].event /\ work'[v].build = work[v].build
  BY <1>4, <1>5 DEF CallsOf, Alike
<1>7. \A reasons : Excused(slot, reasons) => Excused(slot, reasons)'
  BY DEF Own, Excused
<1> QED
  BY <1>1, <1>2, <1>3, <1>5, <1>6, <1>7

\* A call whose slot is not excused is alone.
LEMMA Alone ==
  ASSUME IInv, NEW w \in Workers, ~At(w, "idle"), Own(w), NEW slot \in SlotsOf(w),
         ~Excused(slot, {"overlap"})
  PROVE  /\ CallsOf(slot) = {w}
         /\ CallsOf(slot)' = IF work'[w] = Idle THEN {} ELSE {w}
         /\ Inside(slot) \subseteq {w} /\ Inside(slot)' \subseteq {w}
<1>1. TypeOK /\ Rivals /\ w \in Busy
  BY DEF IInv, Busy
<1>2. CallsOf(slot) = {w}
  BY <1>1 DEF Rivals, CallsOf
<1>3. CallsOf(slot)' = IF work'[w] = Idle THEN {} ELSE {w}
  BY <1>1, <1>2, OwnSlot
<1> QED
  BY <1>2, <1>3 DEF Inside

\* Reasons among others.
LEMMA NotExcused ==
  ASSUME NEW slot, NEW reasons, NEW fewer, fewer \subseteq reasons, ~Excused(slot, reasons)'
  PROVE  ~Excused(slot, fewer)'
  BY DEF Excused

\* The reference that a call of a keeper looks up.
LEMMA RefIs ==
  ASSUME TypeOK, NEW w \in Workers, ~At(w, "idle"), work[w].h.does # "flush", NEW slot \in SlotsOf(w)
  PROVE  Ref(w) = refs[work[w].build][slot] /\ SlotsOf(w) = {slot}
         /\ <<work[w].h.id, TheRun(w)>> = slot /\ DOMAIN work[w].event = {slot[2]}
<1>1. PICK r \in Runs : /\ DOMAIN work[w].event = {r} /\ TheRun(w) = r
                        /\ SlotsOf(w) = {<<work[w].h.id, r>>}
  BY SlotsOfCall
<1> QED
  BY <1>1 DEF Ref

-----------------------------------------------------------------------------
(* Steps that change neither items nor references.                         *)

\* The items of every slot stay.
LEMMA QuietViews ==
  ASSUME TypeOK, on' = on, items' = items, NEW slot
  PROVE  AllOf(slot)' = AllOf(slot) /\ ItemsOf(slot)' = ItemsOf(slot) /\ Live' = Live
  BY DEF AllOf, ItemsOf, Live

\* No event gets past the wrappers: what is told once stays so.
LEMMA QuietToldOnce ==
  ASSUME IInv, NEW w \in Workers, ~At(w, "idle"), Own(w), items' = items, NEW slot \in SlotsOf(w),
         \/ work'[w] = Idle \/ work'[w].at \in Waiting
         \/ work[w].at \notin Waiting \/ work[w].h.store # "shared" \/ work[w].h.does # "post"
         \/ Excused(slot, {"store", "repeated"})'
  PROVE  ToldOnce(slot)'
<1>1. TypeOK /\ on' = on /\ seen \subseteq seen'
  BY DEF IInv, Own
<1>2. /\ slot \in Slots /\ HandlerOf(slot[1]) = work[w].h /\ HandlerOf(slot[1])' = work[w].h
      /\ w \in CallsOf(slot) /\ CallsOf(slot)' \subseteq CallsOf(slot)
      /\ w \in CallsOf(slot)' <=> work'[w] # Idle
      /\ \A v \in CallsOf(slot) \ {w} : v \in CallsOf(slot)' /\ Alike(work[v], work'[v])
      /\ \A v \in CallsOf(slot)' : work'[v].event = work[v].event
      /\ Excused(slot, {"store", "repeated"}) => Excused(slot, {"store", "repeated"})'
  BY <1>1, OwnSlot
<1>3. SUFFICES ASSUME work[w].h.store = "shared", work[w].h.does = "post",
                      ~Excused(slot, {"store", "repeated"})'
               PROVE  ToldOnce(slot)'
  BY <1>2 DEF ToldOnce
<1>4. ToldOnce(slot) /\ AllOf(slot)' = AllOf(slot)
  BY <1>1, <1>2, QuietViews DEF IInv
<1>5. Inside(slot)' \subseteq Inside(slot)
  BY <1>2, <1>3 DEF Inside, Alike
<1>6. \A v \in Inside(slot)' : work'[v].event = work[v].event
  BY <1>2 DEF Inside
<1> QED
  BY <1>1, <1>2, <1>3, <1>4, <1>5, <1>6 DEF ToldOnce

\* The call keeps to the reference that it has, or has just loaded.
LEMMA QuietOneRef ==
  ASSUME IInv, NEW w \in Workers, ~At(w, "idle"), Own(w), refs' = refs, NEW slot \in SlotsOf(w),
         work'[w] # Idle /\ work'[w].at = "attempt" /\ work[w].h.does \in Keepers =>
           work'[w].ref = Ref(w)
           \/ (work[w].at = "attempt" /\ work'[w].ref = work[w].ref)
  PROVE  OneRef(slot)'
<1> DEFINE Why == {"overlap", "elsewhere", "forgot"}
<1>1. TypeOK /\ on' = on
  BY DEF IInv, Own
<1>2. /\ slot \in Slots /\ HandlerOf(slot[1]) = work[w].h /\ HandlerOf(slot[1])' = work[w].h
      /\ \A v \in CallsOf(slot)' : work'[v].event = work[v].event /\ work'[v].build = work[v].build
      /\ \A reasons : Excused(slot, reasons) => Excused(slot, reasons)'
  BY <1>1, OwnSlot
<1>3. SUFFICES ASSUME work[w].h.does \in Keepers, ~Excused(slot, Why)'
               PROVE  OneRef(slot)'
  BY <1>2 DEF OneRef
<1>4. ~Excused(slot, {"overlap"}) /\ ~Excused(slot, Why)
  BY <1>2, <1>3, NotExcused
<1>5. CallsOf(slot) = {w} /\ CallsOf(slot)' \subseteq {w}
  BY <1>4, Alone
<1>6. w \in CallsOf(slot)' => work'[w] # Idle
  BY <1>1, OwnSlot
<1>7. OneRef(slot)
  BY <1>2 DEF IInv
<1>8. ASSUME w \in CallsOf(slot)', At(w, "attempt")'
      PROVE  work'[w].ref = Ref(w)'
  <2>1. work[w].at = "attempt" => work[w].ref = Ref(w)
    BY <1>2, <1>3, <1>4, <1>5, <1>7 DEF OneRef, At
  <2>2. work'[w].ref = Ref(w)
    BY <1>3, <1>6, <1>8, <2>1 DEF At
  <2>3. Ref(w)' = Ref(w)
    BY <1>8, OwnCalls, <1>1, <1>2, <1>6 DEF Ref, CallsOf, TheRun
  <2> QED
    BY <2>2, <2>3
<1> QED
  BY <1>2, <1>3, <1>4, <1>5, <1>7, <1>8 DEF OneRef

\* No second message is about to be posted, and none to be saved.
LEMMA QuietOneMessage ==
  ASSUME IInv, NEW w \in Workers, ~At(w, "idle"), Own(w), items' = items, refs' = refs,
         NEW slot \in SlotsOf(w), ~At(w, "save"),
         work'[w] # Idle =>
           /\ work'[w].at # "save"
           /\ (work'[w].at \notin Waiting /\ work[w].h.does \in {"upsert", "repost", "issue"}
               /\ (work'[w].doing = "create" \/ (work'[w].at = "attempt" /\ work'[w].doing = "post"))) =>
                \/ work[w].at \notin Waiting /\ work[w].doing = "create"
                \/ work[w].at = "attempt" /\ work[w].doing = "post"
                \/ ItemsOf(slot) = {}
                \/ Excused(slot, {"overlap", "elsewhere", "forgot", "edit failed", "repeated"})'
  PROVE  OneMessage(slot)'
<1> DEFINE Why == {"overlap", "elsewhere", "forgot", "edit failed", "repeated"}
<1>1. TypeOK /\ on' = on
  BY DEF IInv, Own
<1>2. /\ slot \in Slots /\ HandlerOf(slot[1]) = work[w].h /\ HandlerOf(slot[1])' = work[w].h
      /\ \A reasons : Excused(slot, reasons) => Excused(slot, reasons)'
      /\ w \in CallsOf(slot)' <=> work'[w] # Idle
      /\ w \in CallsOf(slot)
  BY <1>1, OwnSlot
<1>3. SUFFICES ASSUME work[w].h.does \in {"upsert", "repost", "issue"}, ~Excused(slot, Why)'
               PROVE  OneMessage(slot)'
  BY <1>2 DEF OneMessage
<1>4. ~Excused(slot, {"overlap"}) /\ ~Excused(slot, Why)
  <2>1. ~Excused(slot, {"overlap"})'
    BY <1>3 DEF Excused
  <2> QED
    BY <1>2, <1>3, <2>1
<1>5. CallsOf(slot) = {w} /\ CallsOf(slot)' \subseteq {w}
  BY <1>4, Alone
<1>6. OneMessage(slot) /\ ItemsOf(slot)' = ItemsOf(slot)
  BY <1>1, <1>2, QuietViews DEF IInv
<1>7. /\ \A i, j \in ItemsOf(slot) : i = j
      /\ work[w].h.does # "issue" => \A i \in ItemsOf(slot) : \E b \in Builds : refs[b][slot] = i
      /\ work[w].at \notin Waiting /\ (work[w].doing = "create" \/ (At(w, "attempt") /\ work[w].doing = "post"))
           => ItemsOf(slot) = {}
  BY <1>2, <1>3, <1>4, <1>5, <1>6 DEF OneMessage, Inside
<1>8. ASSUME w \in Inside(slot)'
      PROVE  /\ ~At(w, "save")'
             /\ (work[w].doing = "create" \/ (At(w, "attempt") /\ work[w].doing = "post"))' =>
                  ItemsOf(slot) = {}
  <2>1. work'[w] # Idle /\ work'[w].at \notin Waiting
    BY <1>2, <1>8 DEF Inside
  <2>2. "attempt" \notin Waiting
    BY DEF Waiting
  <2> QED
    BY <1>3, <1>7, <2>1, <2>2 DEF At
<1>9. Inside(slot)' \subseteq {w}
  BY <1>5 DEF Inside
<1> QED
  BY <1>2, <1>3, <1>6, <1>7, <1>8, <1>9 DEF OneMessage

\* No message is about to be saved.
LEMMA QuietHanging ==
  ASSUME IInv, NEW w \in Workers, ~At(w, "idle"), Own(w), items' = items, refs' = refs,
         NEW slot \in SlotsOf(w), ~At(w, "save"), work'[w] # Idle => work'[w].at # "save"
  PROVE  Hanging(slot)'
<1> DEFINE Why == {"overlap", "elsewhere", "forgot", "repeated"}
<1>1. TypeOK /\ on' = on
  BY DEF IInv, Own
<1>2. /\ slot \in Slots /\ HandlerOf(slot[1]) = work[w].h /\ HandlerOf(slot[1])' = work[w].h
      /\ \A reasons : Excused(slot, reasons) => Excused(slot, reasons)'
      /\ w \in CallsOf(slot)' <=> work'[w] # Idle
  BY <1>1, OwnSlot
<1>3. SUFFICES ASSUME work[w].h.does \in {"thread", "mail"}, ~Excused(slot, Why)'
               PROVE  Hanging(slot)'
  BY <1>2 DEF Hanging
<1>4. ~Excused(slot, {"overlap"}) /\ ~Excused(slot, Why)
  BY <1>2, <1>3, NotExcused
<1>5. CallsOf(slot) = {w} /\ CallsOf(slot)' \subseteq {w}
  BY <1>4, Alone
<1>6. /\ Replying(slot) /\ Referring(slot) /\ AllOf(slot)' = AllOf(slot)
      /\ IsMail(slot)' <=> IsMail(slot)
  BY <1>1, <1>2, <1>3, <1>4, QuietViews DEF IInv, Hanging, IsMail
<1>7. \A v \in CallsOf(slot)' : ~At(v, "save")'
  BY <1>2, <1>5 DEF At
<1>8. Replying(slot)'
  BY <1>6 DEF Replying
<1>9. Referring(slot)'
  BY <1>5, <1>6 DEF Referring
<1>10. Saving(slot)'
  BY <1>7 DEF Saving
<1> QED
  BY <1>8, <1>9, <1>10 DEF Hanging

\* Nothing is reported of a slot while a call of it is running.
LEMMA OwnSilent ==
  ASSUME IInv, NEW w \in Workers, ~At(w, "idle"), NEW slot \in SlotsOf(w), latest' = latest
  PROVE  Stands(slot)'
<1>1. slot \in Slots /\ w \in CallsOf(slot)
  BY SlotsOfCall DEF IInv, CallsOf, Busy
<1>2. latest[slot] = "none"
  BY <1>1 DEF IInv, Settled
<1> QED
  BY <1>2 DEF Stands

\* The dedupe entries, where a step makes none.
LEMMA SameEntries ==
  ASSUME IInv, on' = on, seen' \subseteq seen, dropped' = dropped, tried \subseteq tried'
  PROVE  Registered' /\ OnlySeenDropped'
<1>1. \A id : HandlerOf(id)' = HandlerOf(id)
  BY SameHandlers
<1>2. Registered'
  <2>1. SUFFICES ASSUME NEW k \in seen
                 PROVE  \E t \in tried' : t[2] = k[3] /\ HandlerOf(t[1])'.name = k[2]
    BY DEF Registered
  <2>2. PICK t \in tried : t[2] = k[3] /\ HandlerOf(t[1]).name = k[2]
    BY DEF IInv, Registered
  <2> QED
    BY <1>1, <2>2
<1>3. OnlySeenDropped'
  <2>1. SUFFICES ASSUME NEW d \in dropped
                 PROVE  \E t \in tried' : t[2] = d[2] /\ HandlerOf(t[1])'.name = HandlerOf(d[1])'.name
    BY DEF OnlySeenDropped
  <2>2. PICK t \in tried : t[2] = d[2] /\ HandlerOf(t[1]).name = HandlerOf(d[1]).name
    BY DEF IInv, OnlySeenDropped
  <2> QED
    BY <1>1, <2>2
<1> QED
  BY <1>2, <1>3

\* The policy, where a step of w does not set it.
LEMMA SamePolicy ==
  ASSUME IInv, NEW w \in Workers, ~At(w, "idle"), Own(w), client' = client,
         work'[w] # Idle => work'[w].at # "transport",
         (work'[w] # Idle /\ work'[w].at = "attempt" /\ work[w].h.via = "client") =>
           /\ work[w].at = "attempt" /\ work[w].met = work'[w].met
           /\ \E h \in on : work'[w].tries < h.attempts
  PROVE  PolicyFound' /\ OwnPolicy'
<1>1. TypeOK /\ on' = on /\ PolicyFound /\ OwnPolicy
  BY DEF IInv, Own
<1>2. /\ \A v \in Busy' : v \in Busy
      /\ \A v \in Busy \ {w} : v \in Busy' /\ Alike(work[v], work'[v])
      /\ w \in Busy' <=> work'[w] # Idle
      /\ w \in Busy' => work'[w].h = work[w].h
  BY <1>1, OwnCalls
<1>3. PolicyFound'
  BY <1>1, <1>2 DEF PolicyFound, Alike, At
<1>4. ASSUME NEW v \in Busy', At(v, "attempt")', work'[v].h.via = "client"
      PROVE  /\ "client" \notin work'[v].met => /\ client'.max = work'[v].h.attempts - 1
                                                /\ client'.http = work'[v].h.id
             /\ \E h \in on : work'[v].tries < h.attempts
  <2>1. CASE v = w
    BY <1>1, <1>2, <1>4, <2>1 DEF OwnPolicy, At
  <2>2. CASE v # w
    BY <1>1, <1>2, <1>4, <2>2 DEF OwnPolicy, At, Alike
  <2> QED
    BY <2>1, <2>2
<1> QED
  BY <1>1, <1>3, <1>4 DEF OwnPolicy

\* What stays typed where it stays.
LEMMA BesideSame ==
  ASSUME TypeOK
  PROVE  /\ UNCHANGED client => client' \in [max : {0} \cup {h.attempts - 1 : h \in on}, http : Ids \cup {"none"}]
         /\ UNCHANGED streams =>
              connected' \subseteq Builds /\ closed' \in [Builds -> {"open", "closing", "closed"}]
         /\ UNCHANGED history =>
              /\ tried' \subseteq Ids \X Events /\ dropped' \subseteq Ids \X Events
              /\ events' \in Nat /\ tried' = tried /\ dropped' = dropped
         /\ Fault \/ UNCHANGED faults => faults' \in Nat
  BY DEF TypeOK, streams, history, Fault

\* Nothing is closed.
LEMMA SameStreams ==
  ASSUME IInv, UNCHANGED streams
  PROVE  Detached'
  BY DEF IInv, Detached, streams

-----------------------------------------------------------------------------
(* The wrappers.                                                           *)

\* The call gets through to the handler or is not wanted.
LEMMA EnteredCall ==
  ASSUME TypeOK, NEW w \in Workers, ~At(w, "idle"), work[w].at \in Waiting, on' = on, items' = items,
         Enter(w)
  PROVE  /\ Continues(w) /\ latest' = latest /\ \A v \in Workers \ {w} : work'[v] = work[v]
         /\ \/ work'[w] = Idle
            \/ \E doing \in FirstRequests(work[w].h.does) :
                 /\ GoesOn(w, FirstStep(work[w].h), doing, 0, 0, work[w].met) /\ work'[w] # Idle
                 /\ \A r \in DOMAIN work[w].event :
                      work[w].h.does = "alert" => doing = work[w].h.acts[work[w].event[r]]
<1>1. /\ work[w] \in Calls /\ IsCall(work[w]) /\ IsHandler(work[w].h)
      /\ DOMAIN work[w].event # {} /\ work[w].met \in SUBSET {"run", "client"}
  BY CallOf
<1>2. work' = [work EXCEPT ![w] = Entered(work[w])] /\ latest' = latest
  BY DEF Enter, Goto
<1>3. work[w].ref = 0 /\ work[w].tries = 0
  BY <1>1 DEF IsCall
<1>4. CASE ~\A q \in DOMAIN work[w].event : Wanted(work[w].h, work[w].event[q])
  <2>1. Entered(work[w]) = Idle
    BY <1>4 DEF Entered
  <2>2. Leave(w)
    BY <1>2, <2>1 DEF Leave
  <2> QED
    BY <1>2, <2>2, Ended
<1>5. CASE \A q \in DOMAIN work[w].event : Wanted(work[w].h, work[w].event[q])
  <2>1. PICK doing : doing = work[w].h.acts[work[w].event[TheRun(w)]]
    OBVIOUS
  <2>2. Entered(work[w]) = [work[w] EXCEPT !.at = FirstStep(work[w].h), !.doing = doing]
    BY <1>5, <2>1 DEF Entered, TheRun
  <2>3. [work[w] EXCEPT !.at = FirstStep(work[w].h), !.doing = doing]
          = Call(work[w], FirstStep(work[w].h), doing, work[w].ref, work[w].tries, work[w].met)
    BY <1>1, RewrittenEntry
  <2>4. PICK c : c = Call(work[w], FirstStep(work[w].h), doing, 0, 0, work[w].met)
    OBVIOUS
  <2>5. work' = [work EXCEPT ![w] = c]
    BY <1>2, <1>3, <2>2, <2>3, <2>4
  <2>6. TheRun(w) \in DOMAIN work[w].event
    BY <1>1 DEF TheRun
  <2>7. work[w].event[TheRun(w)] \in DOMAIN work[w].h.acts
    BY <1>5, <2>6 DEF Wanted
  <2>8. doing \in FirstRequests(work[w].h.does)
    BY <1>1, <2>1, <2>7 DEF IsHandler
  <2>9. /\ FirstStep(work[w].h) \in Procedure(work[w].h) /\ FirstStep(work[w].h) \in Steps
        /\ FirstStep(work[w].h) \notin Waiting /\ doing \in RequestsOf(work[w].h)
        /\ doing \in Requests /\ FirstStep(work[w].h) # "save" /\ doing # "edit"
    BY <1>1, <2>8, ProcedureFacts
  <2>10. c \in Calls
    BY <1>1, <2>4, <2>9, CallFields
  <2>11. /\ work' \in [Workers -> Calls \cup {Idle}] /\ work'[w] = c
         /\ \A v \in Workers \ {w} : Kept(v) /\ work'[v] = work[v]
    BY <2>5, <2>10, Became
  <2>12. Fits(w, FirstStep(work[w].h), doing, 0, 0)
    BY <1>5, <2>9 DEF Fits
  <2>13. Grown
    BY NoItemStep
  <2>14. /\ Continues(w) /\ GoesOn(w, FirstStep(work[w].h), doing, 0, 0, work[w].met)
         /\ work'[w] # Idle
    BY <1>1, <1>2, <2>4, <2>11, <2>12, <2>13, Went
  <2>15. \A r \in DOMAIN work[w].event :
           work[w].h.does = "alert" => doing = work[w].h.acts[work[w].event[r]]
    BY <1>1, <2>1, <2>6 DEF IsCall
  <2> QED
    BY <1>2, <2>8, <2>11, <2>14, <2>15
<1> QED
  BY <1>4, <1>5

\* The first steps of a handler.
LEMMA FirstSteps ==
  ASSUME NEW h, IsHandler(h)
  PROVE  /\ FirstStep(h) \notin {"save", "transport", "dedupe", "mark"}
         /\ h.does \in Keepers => FirstStep(h) = "load"
         /\ FirstStep(h) = "attempt" => h.via # "client" /\ h.does \notin Keepers
         /\ h.does = "issue" => FirstRequests(h.does) = {"search"}
         /\ "create" \notin FirstRequests(h.does)
<1>1. h.does \in Ways /\ (h.does \in {"thread", "upsert", "repost", "mail", "each", "stream"} => h.via = "sdk")
  BY DEF IsHandler
<1> QED
  BY <1>1 DEF FirstStep, FirstRequests, Keepers, Ways

\* What follows a call's way through the wrapper.
LEMMA EnterStep ==
  ASSUME IInv, NEW w \in Workers, ~At(w, "idle"), work[w].at \in Waiting, on' = on, items' = items,
         refs' = refs, client' = client, UNCHANGED streams, Beside, Enter(w),
         Registered', OnlySeenDropped',
         \A slot \in SlotsOf(w) :
           \/ work[w].h.store # "shared" \/ Excused(slot, {"store", "repeated"})'
           \/ /\ <<"shared", work[w].h.name, work[w].event>> \notin seen
              /\ <<"shared", work[w].h.name, work[w].event>> \in seen'
  PROVE  IInv'
<1>1. TypeOK
  BY DEF IInv
<1>2. /\ Continues(w) /\ latest' = latest /\ \A v \in Workers \ {w} : work'[v] = work[v]
      /\ \/ work'[w] = Idle
         \/ \E doing \in FirstRequests(work[w].h.does) :
              /\ GoesOn(w, FirstStep(work[w].h), doing, 0, 0, work[w].met) /\ work'[w] # Idle
              /\ \A r \in DOMAIN work[w].event :
                   work[w].h.does = "alert" => doing = work[w].h.acts[work[w].event[r]]
  BY <1>1, EnteredCall
<1>3. Own(w)
  <2>1. ItemStep(w) /\ Grown
    BY <1>1, NoItemStep
  <2>2. RefsOK' /\ \A b \in Builds, slot \in Slots : refs'[b][slot] = refs[b][slot]
    BY <1>1, <2>1, RefsStay
  <2> QED
    BY <1>1, <1>2, <2>1, <2>2, OwnBy
<1>4. IsHandler(work[w].h) /\ work[w].at \notin {"save", "attempt"}
  BY <1>1, CallOf DEF Waiting
<1>5. work'[w] # Idle =>
        /\ work'[w].at = FirstStep(work[w].h) /\ work'[w].doing \in FirstRequests(work[w].h.does)
        /\ work'[w].h = work[w].h /\ work'[w].event = work[w].event
        /\ \A r \in DOMAIN work[w].event :
             work[w].h.does = "alert" => work'[w].doing = work[w].h.acts[work[w].event[r]]
  BY <1>2 DEF GoesOn
<1>6. /\ FirstStep(work[w].h) \notin {"save", "transport", "dedupe", "mark"}
      /\ work[w].h.does \in Keepers => FirstStep(work[w].h) = "load"
      /\ FirstStep(work[w].h) = "attempt" => work[w].h.via # "client" /\ work[w].h.does \notin Keepers
      /\ work[w].h.does = "issue" => FirstRequests(work[w].h.does) = {"search"}
      /\ "create" \notin FirstRequests(work[w].h.does)
  BY <1>4, FirstSteps
<1>7. PolicyFound' /\ OwnPolicy'
  BY <1>3, <1>5, <1>6, SamePolicy
<1>8. Detached'
  BY SameStreams
<1>9. ASSUME NEW slot \in SlotsOf(w)
      PROVE  OneRef(slot)' /\ OneMessage(slot)' /\ Hanging(slot)' /\ Stands(slot)'
  <2>1. OneRef(slot)'
    BY <1>3, <1>5, <1>6, QuietOneRef
  <2>2. work'[w] # Idle /\ work[w].h.does \in {"upsert", "repost", "issue"} =>
          work'[w].doing # "create" /\ (work'[w].at # "attempt" \/ work'[w].doing # "post")
    BY <1>5, <1>6 DEF Keepers
  <2>3. OneMessage(slot)'
    BY <1>3, <1>4, <1>5, <1>6, <2>2, QuietOneMessage DEF At
  <2>4. Hanging(slot)'
    BY <1>3, <1>4, <1>5, <1>6, QuietHanging DEF At
  <2>5. Stands(slot)'
    BY <1>2, OwnSilent
  <2> QED
    BY <2>1, <2>3, <2>4, <2>5
<1>10. ASSUME NEW slot \in SlotsOf(w)
       PROVE  ToldOnce(slot)'
  <2>1. CASE \/ work[w].h.store # "shared" \/ Excused(slot, {"store", "repeated"})'
             \/ work[w].h.does # "post"
    BY <1>3, <2>1, QuietToldOnce
  <2>2. CASE /\ <<"shared", work[w].h.name, work[w].event>> \notin seen
             /\ <<"shared", work[w].h.name, work[w].event>> \in seen'
             /\ ~Excused(slot, {"store", "repeated"})'
             /\ work[w].h.store = "shared" /\ work[w].h.does = "post"
    <3>1. /\ slot \in Slots /\ HandlerOf(slot[1]) = work[w].h /\ HandlerOf(slot[1])' = work[w].h
          /\ w \in CallsOf(slot) /\ CallsOf(slot)' \subseteq CallsOf(slot)
          /\ \A v \in CallsOf(slot) \ {w} : v \in CallsOf(slot)' /\ Alike(work[v], work'[v])
          /\ \A v \in CallsOf(slot)' : work'[v].event = work[v].event
          /\ Excused(slot, {"store", "repeated"}) => Excused(slot, {"store", "repeated"})'
      BY <1>1, <1>3, OwnSlot
    <3>2. AllOf(slot)' = AllOf(slot) /\ seen \subseteq seen'
      BY <1>1, QuietViews DEF Beside
    <3>3. /\ \A i \in AllOf(slot) : <<"shared", work[w].h.name, items[i].of>> \in seen
          /\ \A i, j \in AllOf(slot) : items[i].of = items[j].of => i = j
          /\ \A v \in Inside(slot) :
               /\ <<"shared", work[w].h.name, work[v].event>> \in seen
               /\ \A i \in AllOf(slot) : items[i].of # work[v].event
               /\ \A u \in Inside(slot) : work[u].event = work[v].event => u = v
      BY <2>2, <3>1 DEF IInv, ToldOnce
    <3>4. Inside(slot)' \subseteq Inside(slot) \cup {w}
      BY <3>1 DEF Inside, Alike
    <3>5. \A v \in Inside(slot)' : work'[v].event = work[v].event
      BY <3>1 DEF Inside
    <3>6. \A i \in AllOf(slot) : items[i].of # work[w].event
      BY <2>2, <3>3
    <3>7. \A v \in Inside(slot) : work[v].event # work[w].event
      BY <2>2, <3>3
    <3>8. /\ \A i \in AllOf(slot)' : <<"shared", work[w].h.name, items'[i].of>> \in seen'
          /\ \A i, j \in AllOf(slot)' : items'[i].of = items'[j].of => i = j
      BY <3>2, <3>3
    <3>9. ASSUME NEW v \in Inside(slot)'
          PROVE  /\ <<"shared", work[w].h.name, work'[v].event>> \in seen'
                 /\ \A i \in AllOf(slot)' : items'[i].of # work'[v].event
                 /\ \A u \in Inside(slot)' : work'[u].event = work'[v].event => u = v
      BY <2>2, <3>2, <3>3, <3>4, <3>5, <3>6, <3>7
    <3> QED
      BY <3>1, <3>8, <3>9 DEF ToldOnce
  <2> QED
    BY <2>1, <2>2
<1>11. work'[w] # Idle => Knows(w)'
  BY <1>5, <1>6 DEF Knows, At
<1> QED
  BY <1>3, <1>7, <1>8, <1>9, <1>10, <1>11, OwnStep

\* Steps without effect: the step is the call's own.
LEMMA QuietOwn ==
  ASSUME TypeOK, NEW w \in Workers, ~At(w, "idle"), on' = on, items' = items, refs' = refs,
         Continues(w), Beside
  PROVE  Own(w)
<1>1. ItemStep(w) /\ Grown
  BY NoItemStep
<1>2. RefsOK' /\ \A b \in Builds, slot \in Slots : refs'[b][slot] = refs[b][slot]
  BY <1>1, RefsStay
<1> QED
  BY <1>1, <1>2, OwnBy

\* A call ends without effect, and reports nothing or what already stands.
LEMMA LeaveStep ==
  ASSUME IInv, NEW w \in Workers, ~At(w, "idle"), ~At(w, "save"), on' = on, items' = items,
         refs' = refs, client' = client, UNCHANGED streams, Beside, Registered', OnlySeenDropped',
         \/ Leave(w)
         \/ Return(w) /\ \A slot \in SlotsOf(w) : Stands(slot)'
  PROVE  IInv'
<1>1. TypeOK
  BY DEF IInv
<1>2. Continues(w) /\ work'[w] = Idle /\ (Leave(w) => latest' = latest)
  BY <1>1, Ended
<1>3. Own(w)
  BY <1>1, <1>2, QuietOwn
<1>4. \A slot \in SlotsOf(w) : ToldOnce(slot)' /\ OneRef(slot)' /\ OneMessage(slot)' /\ Hanging(slot)'
  BY <1>2, <1>3, QuietToldOnce, QuietOneRef, QuietOneMessage, QuietHanging
<1>5. \A slot \in SlotsOf(w) : Stands(slot)'
  BY <1>2, OwnSilent
<1>6. PolicyFound' /\ OwnPolicy' /\ Detached'
  BY <1>2, <1>3, SamePolicy, SameStreams
<1> QED
  BY <1>2, <1>3, <1>4, <1>5, <1>6, OwnStep

\* A call goes on without effect.
LEMMA GoStep ==
  ASSUME IInv, NEW w \in Workers, ~At(w, "idle"), work[w].at \notin Waiting \cup {"save"}, on' = on,
         items' = items, refs' = refs, client' = client, UNCHANGED streams, Beside,
         Registered', OnlySeenDropped', latest' = latest, Continues(w), work'[w] # Idle,
         work'[w].at \notin {"save", "transport"},
         (work[w].h.does \in Keepers /\ work'[w].at = "attempt") =>
            work'[w].ref = Ref(w) \/ (work[w].at = "attempt" /\ work'[w].ref = work[w].ref),
         (work[w].h.via = "client" /\ work'[w].at = "attempt") =>
            /\ work[w].at = "attempt" /\ work'[w].met = work[w].met
            /\ \E h \in on : work'[w].tries < h.attempts,
         work[w].h.does = "alert" => work'[w].doing = work[w].doing,
         \A slot \in SlotsOf(w) :
           (work[w].h.does \in {"upsert", "repost", "issue"}
            /\ (work'[w].doing = "create" \/ (work'[w].at = "attempt" /\ work'[w].doing = "post"))) =>
                \/ work[w].doing = "create" \/ (work[w].at = "attempt" /\ work[w].doing = "post")
                \/ ItemsOf(slot) = {}
                \/ Excused(slot, {"overlap", "elsewhere", "forgot", "edit failed", "repeated"})'
  PROVE  IInv'
<1>1. TypeOK
  BY DEF IInv
<1>2. Own(w)
  BY <1>1, QuietOwn
<1>3. work'[w].h = work[w].h /\ work'[w].event = work[w].event
  BY DEF Continues
<1>4. ASSUME NEW slot \in SlotsOf(w)
      PROVE  ToldOnce(slot)' /\ OneRef(slot)' /\ OneMessage(slot)' /\ Hanging(slot)' /\ Stands(slot)'
  <2>1. ToldOnce(slot)'
    BY <1>2, QuietToldOnce
  <2>2. OneRef(slot)'
    BY <1>2, <1>3, QuietOneRef
  <2>3. OneMessage(slot)'
    BY <1>2, <1>3, QuietOneMessage DEF At
  <2>4. Hanging(slot)'
    BY <1>2, <1>3, QuietHanging DEF At
  <2>5. Stands(slot)'
    BY OwnSilent
  <2> QED
    BY <2>1, <2>2, <2>3, <2>4, <2>5
<1>5. PolicyFound' /\ OwnPolicy' /\ Detached'
  BY <1>2, <1>3, SamePolicy, SameStreams
<1>6. Knows(w)'
  <2>1. Knows(w)
    BY DEF IInv, Busy
  <2> QED
    BY <1>3, <2>1 DEF Knows, At, Waiting
<1> QED
  BY <1>2, <1>4, <1>5, <1>6, OwnStep

\* The key and the event of a call.
LEMMA KeyOf ==
  ASSUME TypeOK, NEW w \in Workers, ~At(w, "idle")
  PROVE  /\ EventOf(w) \in Ids \X Events /\ EventOf(w)[2] = work[w].event
         /\ EventOf(w)[1] = work[w].h.id
         /\ HandlerOf(EventOf(w)[1]) = work[w].h
         /\ compositeKey(w)[2] = work[w].h.name /\ compositeKey(w)[3] = work[w].event
         /\ work[w].h.store # "memory" => compositeKey(w) = <<"shared", work[w].h.name, work[w].event>>
  BY CallOf DEF EventOf, compositeKey

\* An entry is made of an event that is let in.
LEMMA EntryMade ==
  ASSUME IInv, NEW w \in Workers, ~At(w, "idle"), on' = on, seen' = seen \cup {compositeKey(w)},
         tried' = tried \cup {EventOf(w)}, dropped' = dropped
  PROVE  Registered' /\ OnlySeenDropped' /\ tried' \subseteq Ids \X Events
<1>1. TypeOK /\ \A id : HandlerOf(id)' = HandlerOf(id)
  BY SameHandlers DEF IInv
<1>2. tried' \subseteq Ids \X Events
  BY <1>1, KeyOf DEF TypeOK
<1>3. OnlySeenDropped'
  <2>1. SUFFICES ASSUME NEW d \in dropped
                 PROVE  \E t \in tried' : t[2] = d[2] /\ HandlerOf(t[1])'.name = HandlerOf(d[1])'.name
    BY DEF OnlySeenDropped
  <2>2. PICK t \in tried : t[2] = d[2] /\ HandlerOf(t[1]).name = HandlerOf(d[1]).name
    BY DEF IInv, OnlySeenDropped
  <2> QED
    BY <1>1, <2>2
<1>4. Registered'
  <2>1. SUFFICES ASSUME NEW k \in seen'
                 PROVE  \E t \in tried' : t[2] = k[3] /\ HandlerOf(t[1])'.name = k[2]
    BY DEF Registered
  <2>2. CASE k \in seen
    <3>1. PICK t \in tried : t[2] = k[3] /\ HandlerOf(t[1]).name = k[2]
      BY <2>2 DEF IInv, Registered
    <3> QED
      BY <1>1, <3>1
  <2>3. CASE k = compositeKey(w)
    <3>1. /\ EventOf(w)[2] = k[3] /\ HandlerOf(EventOf(w)[1]).name = k[2] /\ EventOf(w) \in tried'
      BY <1>1, <2>3, KeyOf
    <3> QED
      BY <1>1, <3>1
  <2> QED
    BY <2>2, <2>3
<1> QED
  BY <1>2, <1>3, <1>4

\* Mark keeps the invariant.
LEMMA MarkStep ==
  ASSUME IInv, NEW w \in Workers, Mark(w)
  PROVE  IInv'
<1>1. TypeOK /\ ~At(w, "idle") /\ work[w].at = "mark" /\ "mark" \in Waiting
  BY DEF IInv, Mark, At, Waiting
<1>2. work[w].h.store = "memory"
  BY <1>1, CallOf DEF IsCall
<1>3. /\ on' = on /\ items' = items /\ refs' = refs /\ client' = client /\ UNCHANGED streams
      /\ Enter(w) /\ seen' = seen \cup {compositeKey(w)} /\ tried' = tried \cup {EventOf(w)}
      /\ dropped' = dropped /\ events' = events /\ faults' = faults /\ excused' = excused
  BY DEF Mark
<1>4. Registered' /\ OnlySeenDropped' /\ tried' \subseteq Ids \X Events
  BY <1>1, <1>3, EntryMade
<1>5. Beside
  BY <1>1, <1>3, <1>4 DEF Beside, TypeOK, streams
<1> QED
  BY <1>1, <1>2, <1>3, <1>4, <1>5, EnterStep

\* The in-process store has looked the entry up.
LEMMA ToMark ==
  ASSUME IInv, NEW w \in Workers, ~At(w, "idle"), At(w, "dedupe"), work[w].h.store = "memory",
         Goto(w, [work[w] EXCEPT !.at = "mark"]), on' = on, items' = items, refs' = refs,
         client' = client, UNCHANGED streams, Beside, Registered', OnlySeenDropped'
  PROVE  IInv'
<1>1. TypeOK /\ work[w].at = "dedupe"
  BY DEF IInv, At
<1>2. /\ work[w] \in Calls /\ IsCall(work[w]) /\ work[w].doing \in Requests
      /\ work[w].ref \in Nat /\ work[w].tries \in Nat /\ work[w].met \in SUBSET {"run", "client"}
  BY <1>1, CallOf
<1>3. PICK c : c = [work[w] EXCEPT !.at = "mark"]
  OBVIOUS
<1>4. c = Call(work[w], "mark", work[w].doing, work[w].ref, work[w].tries, work[w].met)
  <2>1. work[w] = Call(work[w], work[w].at, work[w].doing, work[w].ref, work[w].tries, work[w].met)
    BY <1>2, CallIs
  <2> QED
    BY <1>3, <2>1, SMT DEF Call
<1>5. /\ c \in Calls /\ c # Idle /\ c.at = "mark" /\ c.doing = work[w].doing /\ c.ref = work[w].ref
      /\ c.tries = work[w].tries /\ c.met = work[w].met /\ c.h = work[w].h
      /\ c.build = work[w].build /\ c.event = work[w].event
  <2>1. "mark" \in Steps
    BY DEF Steps, Waiting
  <2> QED
    BY <1>2, <1>4, <2>1, CallFields
<1>6. work' = [work EXCEPT ![w] = c] /\ latest' = latest
  BY <1>3 DEF Goto
<1>7. /\ work' \in [Workers -> Calls \cup {Idle}] /\ work'[w] = c
      /\ \A v \in Workers \ {w} : Kept(v) /\ work'[v] = work[v]
  BY <1>1, <1>5, <1>6, Became
<1>8. IsCall(work[w])'
  <2>1. Calls' = Calls
    BY SameHandlers
  <2>2. "mark" \in Waiting /\ "dedupe" \in Waiting /\ "mark" \notin {"attempt", "save"}
    BY DEF Waiting
  <2> QED
    BY <1>1, <1>2, <1>5, <1>7, <2>1, <2>2 DEF IsCall
<1>9. Continues(w)
  BY <1>5, <1>6, <1>7, <1>8 DEF Continues
<1>10. Own(w)
  BY <1>1, <1>9, QuietOwn
<1>11. "mark" \in Waiting
  BY DEF Waiting
<1>12. \A slot \in SlotsOf(w) :
         ToldOnce(slot)' /\ OneRef(slot)' /\ OneMessage(slot)' /\ Hanging(slot)' /\ Stands(slot)'
  BY <1>1, <1>5, <1>6, <1>7, <1>10, <1>11, QuietToldOnce, QuietOneRef, QuietOneMessage, QuietHanging,
     OwnSilent DEF At
<1>13. PolicyFound' /\ OwnPolicy' /\ Detached'
  BY <1>5, <1>7, <1>10, SamePolicy, SameStreams
<1>14. Knows(w)'
  BY <1>5, <1>7 DEF Knows, At
<1> QED
  BY <1>10, <1>12, <1>13, <1>14, OwnStep

\* Dedupe keeps it, whether the event is held back, let in or marked.
LEMMA DedupeStep ==
  ASSUME IInv, NEW w \in Workers, Dedupe(w)
  PROVE  IInv'
<1>1. TypeOK /\ ~At(w, "idle") /\ ~At(w, "save") /\ At(w, "dedupe") /\ work[w].at \in Waiting
  BY DEF IInv, Dedupe, At, Waiting
<1>2. work[w].h.store \in {"shared", "memory"}
  BY <1>1, CallOf DEF IsCall, IsHandler
<1>3. /\ on' = on /\ items' = items /\ refs' = refs /\ client' = client /\ UNCHANGED streams
      /\ events' = events
  BY DEF Dedupe
<1>4. CASE /\ compositeKey(w) \in seen /\ Leave(w) /\ dropped' = dropped \cup {EventOf(w)}
           /\ UNCHANGED <<seen, excused, tried, faults>>
  <2>1. Registered'
    <3>1. \A id : HandlerOf(id)' = HandlerOf(id)
      BY <1>3, SameHandlers
    <3> QED
      BY <1>4, <3>1 DEF IInv, Registered
  <2>2. OnlySeenDropped'
    <3>1. \A id : HandlerOf(id)' = HandlerOf(id)
      BY <1>3, SameHandlers
    <3>2. PICK t \in tried : t[2] = compositeKey(w)[3] /\ HandlerOf(t[1]).name = compositeKey(w)[2]
      BY <1>4 DEF IInv, Registered
    <3>3. t[2] = EventOf(w)[2] /\ HandlerOf(t[1]).name = HandlerOf(EventOf(w)[1]).name
      BY <1>1, <3>2, KeyOf
    <3>4. SUFFICES ASSUME NEW d \in dropped'
                   PROVE  \E u \in tried : u[2] = d[2] /\ HandlerOf(u[1]).name = HandlerOf(d[1]).name
      BY <1>4, <3>1 DEF OnlySeenDropped
    <3>5. CASE d \in dropped
      BY <3>5 DEF IInv, OnlySeenDropped
    <3>6. CASE d = EventOf(w)
      BY <3>3, <3>6
    <3> QED
      BY <1>4, <3>5, <3>6
  <2>3. Beside
    BY <1>1, <1>3, <1>4, KeyOf DEF Beside, TypeOK, streams
  <2> QED
    BY <1>1, <1>3, <1>4, <2>1, <2>2, <2>3, LeaveStep
<1>5. CASE /\ compositeKey(w) \notin seen /\ work[w].h.store = "memory"
           /\ Goto(w, [work[w] EXCEPT !.at = "mark"])
           /\ UNCHANGED <<seen, tried, excused, dropped, faults>>
  <2>1. Registered' /\ OnlySeenDropped'
    BY <1>3, <1>5, SameEntries
  <2>2. Beside
    BY <1>1, <1>3, <1>5 DEF Beside, TypeOK, streams
  <2> QED
    BY <1>1, <1>3, <1>5, <2>1, <2>2, ToMark
<1>6. CASE /\ compositeKey(w) \notin seen /\ work[w].h.store # "memory" /\ Enter(w)
           /\ seen' = seen \cup {compositeKey(w)} /\ tried' = tried \cup {EventOf(w)}
           /\ UNCHANGED <<excused, dropped, faults>>
  <2>1. Registered' /\ OnlySeenDropped' /\ tried' \subseteq Ids \X Events
    BY <1>1, <1>3, <1>6, EntryMade
  <2>2. Beside
    BY <1>1, <1>3, <1>6, <2>1 DEF Beside, TypeOK, streams
  <2>3. /\ <<"shared", work[w].h.name, work[w].event>> \notin seen
        /\ <<"shared", work[w].h.name, work[w].event>> \in seen'
    BY <1>1, <1>6, KeyOf
  <2> QED
    BY <1>1, <1>3, <1>6, <2>1, <2>2, <2>3, EnterStep
<1>7. CASE /\ Fault /\ work[w].h.store = "shared" /\ Enter(w) /\ Excuse(SlotsOf(w), "store")
           /\ tried' = tried \cup {EventOf(w)} /\ UNCHANGED <<seen, dropped>>
  <2>1. Registered' /\ OnlySeenDropped'
    BY <1>3, <1>7, SameEntries
  <2>2. faults' \in Nat
    BY <1>1, <1>7, BesideSame
  <2>3. excused \subseteq excused' /\ \A slot \in SlotsOf(w) : Excused(slot, {"store", "repeated"})'
    BY <1>7 DEF Excuse, Excused
  <2>4. Beside
    BY <1>1, <1>3, <1>7, <2>2, <2>3, KeyOf DEF Beside, TypeOK, streams
  <2> QED
    BY <1>1, <1>3, <1>7, <2>1, <2>3, <2>4, EnterStep
<1> QED
  BY <1>4, <1>5, <1>6, <1>7 DEF Dedupe

-----------------------------------------------------------------------------
(* Message references.                                                     *)

\* The requests of a procedure.
LEMMA RequestFacts ==
  ASSUME NEW h, IsHandler(h)
  PROVE  /\ h.does \in Keepers => /\ Procedure(h) = {"load", "attempt", "save"} /\ h.via = "sdk"
                                  /\ "post" \in RequestsOf(h) /\ RequestsOf(h) \subseteq {"post", "edit"}
         /\ h.does \in {"upsert", "repost"} => "edit" \in RequestsOf(h)
         /\ h.does \notin {"upsert", "repost"} => "edit" \notin RequestsOf(h)
         /\ h.does \notin Keepers => "load" \notin Procedure(h) /\ "save" \notin Procedure(h)
         /\ "check" \in Procedure(h) => h.does = "stream"
         /\ h.does = "stream" => RequestsOf(h) = {"publish"} /\ h.via = "sdk"
         /\ "attempt" \in Procedure(h) => h.does # "each"
         /\ "each" \in Procedure(h) => h.does = "each"
         /\ "policy" \in Procedure(h) \/ "transport" \in Procedure(h) => h.via = "client"
         /\ h.via = "client" => Procedure(h) = {"policy", "transport", "attempt"}
         /\ h.via # "client" /\ h.does # "each" => "attempt" \in Procedure(h)
<1>1. /\ h.does \in Ways /\ h.via \in {"client", "sdk"}
      /\ h.does \in {"thread", "upsert", "repost", "mail", "each", "stream"} => h.via = "sdk"
  BY DEF IsHandler
<1>2. /\ h.does \in Keepers => Procedure(h) = {"load", "attempt", "save"} /\ h.via = "sdk"
      /\ h.does \notin Keepers => "load" \notin Procedure(h) /\ "save" \notin Procedure(h)
      /\ "check" \in Procedure(h) => h.does = "stream"
      /\ "attempt" \in Procedure(h) => h.does # "each"
      /\ "each" \in Procedure(h) => h.does = "each"
  BY <1>1 DEF Procedure, Keepers, Ways
<1>3. /\ "policy" \in Procedure(h) \/ "transport" \in Procedure(h) => h.via = "client"
      /\ h.via = "client" => Procedure(h) = {"policy", "transport", "attempt"}
      /\ h.via # "client" /\ h.does # "each" => "attempt" \in Procedure(h)
      /\ h.does = "stream" => h.via = "sdk"
  BY <1>1 DEF Procedure, Keepers, Ways
<1>4. /\ h.does \in Keepers => "post" \in RequestsOf(h) /\ RequestsOf(h) \subseteq {"post", "edit"}
      /\ h.does \in {"upsert", "repost"} => "edit" \in RequestsOf(h)
      /\ h.does \notin {"upsert", "repost"} => "edit" \notin RequestsOf(h)
      /\ h.does = "stream" => RequestsOf(h) = {"publish"}
  BY <1>1 DEF RequestsOf, FirstRequests, Keepers, Ways
<1> QED
  BY <1>2, <1>3, <1>4

\* What a call past the wrappers is doing.
LEMMA InsideFacts ==
  ASSUME TypeOK, NEW w \in Workers, ~At(w, "idle"), work[w].at \notin Waiting
  PROVE  /\ work[w].at \in Procedure(work[w].h) /\ work[w].doing \in RequestsOf(work[w].h)
         /\ \A r \in DOMAIN work[w].event : Wanted(work[w].h, work[w].event[r])
         /\ work[w].ref # 0 => /\ work[w].ref \in DOMAIN items
                               /\ items[work[w].ref].by = work[w].h.id
                               /\ DOMAIN items[work[w].ref].of = DOMAIN work[w].event
         /\ (work[w].at = "attempt" /\ work[w].doing = "edit") \/ work[w].at = "save" => work[w].ref # 0
  BY CallOf DEF IsCall

\* A keeper without a reference has no message, unless that is excused.
LEMMA NothingReferred ==
  ASSUME IInv, NEW w \in Workers, ~At(w, "idle"), ~At(w, "save"), work[w].h.does \in {"upsert", "repost"},
         NEW slot \in SlotsOf(w),
         Ref(w) = 0 \/ (At(w, "attempt") /\ work[w].ref \notin Live),
         ~Excused(slot, {"overlap", "elsewhere", "forgot", "edit failed", "repeated"})
  PROVE  ItemsOf(slot) = {}
<1>1. TypeOK /\ slot \in Slots /\ HandlerOf(slot[1]) = work[w].h /\ w \in Busy
  BY SlotsOfCall DEF IInv, Busy
<1>2. ~Excused(slot, {"overlap"}) /\ ~Excused(slot, {"overlap", "elsewhere", "forgot"})
  BY DEF Excused
<1>3. CallsOf(slot) = {w}
  BY <1>1, <1>2 DEF IInv, Rivals, CallsOf
<1>4. Ref(w) = refs[work[w].build][slot] /\ work[w].build \in Builds
  BY <1>1, RefIs, CallOf
<1>5. /\ \A b \in Builds : refs[b][slot] # 0 => b = work[w].build
      /\ At(w, "attempt") => work[w].ref = Ref(w)
  BY <1>1, <1>2, <1>3 DEF IInv, OneRef, Keepers
<1>6. \A i \in ItemsOf(slot) : \E b \in Builds : refs[b][slot] = i
  BY <1>1, <1>3, ZenonT(40) DEF IInv, OneMessage
<1>7. \A i \in ItemsOf(slot) : i # 0 /\ i \in Live
  <2>1. SUFFICES ASSUME NEW i \in ItemsOf(slot)
                 PROVE  i # 0 /\ i \in Live
    OBVIOUS
  <2>2. i \in Live /\ i \in DOMAIN items
    BY DEF ItemsOf, Live
  <2>3. i # 0
    BY <1>1, <2>2, ItemOf, Zenon
  <2> QED
    BY <2>2, <2>3
<1> QED
  BY <1>4, <1>5, <1>6, <1>7

\* MessageStore.Load: what is loaded decides between an edit and a post.
LEMMA LoadStep ==
  ASSUME IInv, NEW w \in Workers, Load(w)
  PROVE  IInv'
<1>1. TypeOK /\ ~At(w, "idle") /\ work[w].at = "load" /\ work[w].at \notin Waiting \cup {"save"} /\ ~At(w, "save")
  BY DEF IInv, Load, At, Waiting
<1>2. /\ on' = on /\ items' = items /\ refs' = refs /\ client' = client /\ UNCHANGED streams
      /\ seen' = seen /\ excused' = excused /\ UNCHANGED history /\ faults' = faults
  BY DEF Load
<1>3. /\ work[w] \in Calls /\ IsHandler(work[w].h) /\ work[w].build \in Builds
      /\ work[w].met \in SUBSET {"run", "client"}
  BY <1>1, CallOf
<1>4. /\ work[w].at \in Procedure(work[w].h)
      /\ \A r \in DOMAIN work[w].event : Wanted(work[w].h, work[w].event[r])
  BY <1>1, InsideFacts
<1>5. /\ work[w].h.does \in Keepers /\ Procedure(work[w].h) = {"load", "attempt", "save"}
      /\ work[w].h.via = "sdk" /\ "post" \in RequestsOf(work[w].h)
      /\ work[w].h.does \in {"upsert", "repost"} => "edit" \in RequestsOf(work[w].h)
      /\ work[w].h.does # "flush" /\ work[w].h.does # "alert" /\ work[w].h.does # "issue"
  <2>1. work[w].h.does \in Keepers
    BY <1>1, <1>3, <1>4, RequestFacts
  <2>2. work[w].h.does # "flush" /\ work[w].h.does # "alert" /\ work[w].h.does # "issue"
    BY <2>1 DEF Keepers
  <2> QED
    BY <1>3, <2>1, <2>2, RequestFacts
<1>6. PICK slot : slot \in SlotsOf(w)
  BY <1>1, SlotsOfCall
<1>7. /\ Ref(w) = refs[work[w].build][slot] /\ SlotsOf(w) = {slot} /\ slot \in Slots
      /\ DOMAIN work[w].event = {slot[2]} /\ slot[1] = work[w].h.id
  BY <1>1, <1>5, <1>6, RefIs, SlotsOfCall
<1>8. PICK ref : ref = Ref(w)
  OBVIOUS
<1>9. /\ ref \in Nat
      /\ ref # 0 => /\ ref \in DOMAIN items /\ items[ref].by = work[w].h.id
                    /\ DOMAIN items[ref].of = DOMAIN work[w].event
  BY <1>1, <1>3, <1>7, <1>8 DEF TypeOK, RefsOK
<1>10. PICK doing, tries, at :
         /\ doing = IF work[w].h.does \in {"upsert", "repost"} /\ ref # 0 THEN "edit" ELSE "post"
         /\ tries = 0 /\ at = "attempt"
  OBVIOUS
<1>11. Loaded(work[w], at, ref, tries, doing) = Call(work[w], at, doing, ref, tries, work[w].met)
  BY <1>3, RewrittenLoad
<1>12. PICK c : c = Call(work[w], at, doing, ref, tries, work[w].met)
  OBVIOUS
<1>13. work' = [work EXCEPT ![w] = c] /\ latest' = latest
  <2>1. work' = [work EXCEPT ![w] = Loaded(work[w], at, ref, tries, doing)] /\ latest' = latest
    BY <1>8, <1>10 DEF Load, Goto, Loaded
  <2> QED
    BY <1>11, <1>12, <2>1
<1>14. c \in Calls
  <2>1. at \in Steps /\ doing \in Requests /\ tries \in Nat
    BY <1>10 DEF Steps, Requests
  <2> QED
    BY <1>3, <1>9, <1>12, <2>1, CallFields
<1>15. /\ work' \in [Workers -> Calls \cup {Idle}] /\ work'[w] = c
       /\ \A v \in Workers \ {w} : Kept(v) /\ work'[v] = work[v]
  BY <1>1, <1>13, <1>14, Became
<1>16. Fits(w, at, doing, ref, tries) /\ tries \in Nat
  BY <1>2, <1>4, <1>5, <1>9, <1>10 DEF Fits, Waiting
<1>17. Grown
  BY <1>1, <1>2, NoItemStep
<1>18. Continues(w) /\ GoesOn(w, at, doing, ref, tries, work[w].met) /\ work'[w] # Idle
  BY <1>1, <1>2, <1>3, <1>9, <1>12, <1>13, <1>15, <1>16, <1>17, Went
<1>19. work'[w].at = "attempt" /\ work'[w].ref = Ref(w) /\ work'[w].doing = doing
  BY <1>8, <1>10, <1>18 DEF GoesOn
<1>20. Beside
  BY <1>1, <1>2, BesideSame DEF Beside
<1>21. tried' = tried /\ dropped' = dropped
  BY <1>2 DEF history
<1>22. Registered' /\ OnlySeenDropped'
  BY <1>2, <1>21, SameEntries
<1>23. ASSUME work[w].h.does \in {"upsert", "repost", "issue"}, doing = "post"
       PROVE  \/ ItemsOf(slot) = {}
              \/ Excused(slot, {"overlap", "elsewhere", "forgot", "edit failed", "repeated"})'
  <2>1. work[w].h.does \in {"upsert", "repost"} /\ Ref(w) = 0
    BY <1>5, <1>8, <1>10, <1>23
  <2>2. Excused(slot, {"overlap", "elsewhere", "forgot", "edit failed", "repeated"}) =>
          Excused(slot, {"overlap", "elsewhere", "forgot", "edit failed", "repeated"})'
    BY <1>2 DEF Excused
  <2> QED
    BY <1>1, <1>7, <2>1, <2>2, NothingReferred
<1>24. doing \in {"post", "edit"}
  BY <1>10
<1> QED
  BY <1>1, <1>2, <1>5, <1>7, <1>13, <1>18, <1>19, <1>20, <1>22, <1>23, <1>24, GoStep

\* What is reported of a slot when its call returns.
LEMMA Reporting ==
  ASSUME IInv, NEW w \in Workers, ~At(w, "idle"), NEW slot \in SlotsOf(w), Reports(w)
  PROVE  \/ latest'[slot] = "none"
         \/ "run" \notin work[w].met /\ latest'[slot] = work[w].event[slot[2]]
<1>1. slot \in Slots /\ w \in CallsOf(slot)
  BY SlotsOfCall DEF IInv, CallsOf, Busy
<1>2. latest[slot] = "none"
  BY <1>1 DEF IInv, Settled
<1> QED
  BY <1>1, <1>2 DEF Reports

\* MessageStore.Save: the message that was posted becomes the reference.
LEMMA SaveStep ==
  ASSUME IInv, NEW w \in Workers, Save(w)
  PROVE  IInv'
<1>1. /\ TypeOK /\ ~At(w, "idle") /\ work[w].at = "save" /\ work[w].at \notin Waiting /\ At(w, "save")
      /\ w \in Busy
  BY DEF IInv, Save, At, Waiting, Busy
<1>2. /\ on' = on /\ items' = items /\ client' = client /\ UNCHANGED streams
      /\ seen' = seen /\ excused' = excused /\ UNCHANGED history /\ faults' = faults /\ Return(w)
  BY DEF Save
<1>3. /\ work[w].ref # 0 /\ work[w].ref \in DOMAIN items /\ items[work[w].ref].by = work[w].h.id
      /\ DOMAIN items[work[w].ref].of = DOMAIN work[w].event /\ work[w].at \in Procedure(work[w].h)
  BY <1>1, InsideFacts
<1>4. work[w].build \in Builds /\ work[w].ref \in Nat /\ IsHandler(work[w].h)
  BY <1>1, CallOf
<1>5. work[w].h.does \in Keepers /\ work[w].h.does # "flush"
  <2>1. work[w].h.does \in Keepers
    BY <1>1, <1>3, <1>4, RequestFacts
  <2> QED
    BY <2>1 DEF Keepers
<1>6. PICK slot : slot \in SlotsOf(w)
  BY <1>1, SlotsOfCall
<1>7. /\ Ref(w) = refs[work[w].build][slot] /\ SlotsOf(w) = {slot} /\ slot \in Slots
      /\ <<work[w].h.id, TheRun(w)>> = slot
      /\ DOMAIN work[w].event = {slot[2]} /\ slot[1] = work[w].h.id /\ HandlerOf(slot[1]) = work[w].h
  BY <1>1, <1>5, <1>6, RefIs, SlotsOfCall
<1>8. PICK b : b = work[w].build
  OBVIOUS
<1>9. /\ refs' \in [Builds -> [Slots -> Nat]]
      /\ \A c \in Builds, s \in Slots :
           (c # b \/ s # slot) => refs'[c][s] = refs[c][s]
      /\ IF work[w].h.does = "mail" /\ refs[b][slot] # 0 THEN refs'[b][slot] = refs[b][slot]
         ELSE refs'[b][slot] = work[w].ref
  <2>1. refs \in [Builds -> [Slots -> Nat]]
    BY <1>1 DEF TypeOK, RefsOK
  <2>2. refs' = IF work[w].h.does = "mail" /\ refs[b][slot] # 0 THEN refs
                ELSE [refs EXCEPT ![b][slot] = work[w].ref]
    BY <1>7, <1>8 DEF Save
  <2> QED
    BY <1>4, <1>7, <1>8, <2>1, <2>2
<1>10. RefsOK'
  <2>1. Slots' = Slots
    BY <1>2, SameHandlers
  <2>2. ASSUME NEW c \in Builds, NEW s \in Slots, refs'[c][s] # 0
        PROVE  /\ refs'[c][s] \in DOMAIN items /\ items[refs'[c][s]].by = s[1]
               /\ DOMAIN items[refs'[c][s]].of = {s[2]}
    <3>1. CASE refs'[c][s] = refs[c][s]
      BY <1>1, <2>2, <3>1 DEF TypeOK, RefsOK
    <3>2. CASE s = slot /\ refs'[c][s] = work[w].ref
      BY <1>3, <1>7, <3>2
    <3> QED
      BY <1>9, <3>1, <3>2
  <2> QED
    BY <1>2, <1>9, <2>1, <2>2 DEF RefsOK
<1>11. Beside
  BY <1>1, <1>2, BesideSame DEF Beside
<1>12. Continues(w) /\ work'[w] = Idle /\ Reports(w)
  BY <1>1, <1>2, Ended
<1>13. Own(w)
  <2>1. ItemStep(w)
    BY <1>1, <1>2, NoItemStep
  <2> QED
    BY <1>1, <1>2, <1>7, <1>9, <1>10, <1>11, <1>12, <2>1, OwnBy
<1>14. /\ HandlerOf(slot[1])' = work[w].h /\ AllOf(slot)' = AllOf(slot) /\ ItemsOf(slot)' = ItemsOf(slot)
       /\ \A reasons : Excused(slot, reasons)' <=> Excused(slot, reasons)
  BY <1>1, <1>2, <1>6, <1>13, OwnSlot, QuietViews DEF Excused
<1>15. ToldOnce(slot)'
  BY <1>1, <1>2, <1>6, <1>12, <1>13, QuietToldOnce
<1>16. ~Excused(slot, {"overlap"}) => CallsOf(slot) = {w} /\ CallsOf(slot)' = {} /\ w \in Inside(slot)
  <2>1. ~Excused(slot, {"overlap"}) => CallsOf(slot) = {w} /\ CallsOf(slot)' = {}
    BY <1>1, <1>6, <1>12, <1>13, Alone
  <2> QED
    BY <1>1, <2>1 DEF Inside
<1>17. OneRef(slot)'
  <2>1. SUFFICES ASSUME ~Excused(slot, {"overlap", "elsewhere", "forgot"})
                 PROVE  OneRef(slot)'
    BY <1>14 DEF OneRef
  <2>2. CallsOf(slot) = {w} /\ CallsOf(slot)' = {}
    BY <1>16, <2>1 DEF Excused
  <2>3. \A c \in Builds : refs[c][slot] # 0 => c = b
    BY <1>5, <1>7, <1>8, <2>1, <2>2 DEF IInv, OneRef
  <2>4. \A c \in Builds : refs'[c][slot] # 0 => c = b
    BY <1>7, <1>9, <2>3
  <2> QED
    BY <2>2, <2>4 DEF OneRef
<1>18. OneMessage(slot)'
  <2>1. SUFFICES ASSUME work[w].h.does \in {"upsert", "repost"},
                        ~Excused(slot, {"overlap", "elsewhere", "forgot", "edit failed", "repeated"})
                 PROVE  OneMessage(slot)'
    BY <1>5, <1>14 DEF OneMessage, Keepers
  <2>2. ~Excused(slot, {"overlap"})
    BY <2>1 DEF Excused
  <2>3. CallsOf(slot)' = {} /\ Inside(slot)' = {} /\ w \in Inside(slot)
    BY <1>16, <2>2 DEF Inside
  <2>4. ItemsOf(slot) \subseteq {work[w].ref}
    BY <1>1, <1>7, <2>1, <2>3 DEF IInv, OneMessage
  <2>5. refs'[b][slot] = work[w].ref /\ b \in Builds
    BY <1>4, <1>8, <1>9, <2>1
  <2>6. /\ \A i, j \in ItemsOf(slot)' : i = j
        /\ \A i \in ItemsOf(slot)' : \E c \in Builds : refs'[c][slot] = i
    BY <1>14, <2>4, <2>5
  <2> QED
    BY <2>3, <2>6 DEF OneMessage
<1>19. Hanging(slot)'
  <2>1. SUFFICES ASSUME work[w].h.does \in {"thread", "mail"},
                        ~Excused(slot, {"overlap", "elsewhere", "forgot", "repeated"})
                 PROVE  Hanging(slot)'
    BY <1>14 DEF Hanging
  <2>2. ~Excused(slot, {"overlap"})
    BY <2>1 DEF Excused
  <2>3. CallsOf(slot) = {w} /\ CallsOf(slot)' = {}
    BY <1>16, <2>2
  <2>4. Replying(slot) /\ Referring(slot) /\ Saving(slot)
    BY <1>7, <2>1 DEF IInv, Hanging
  <2>5. (IsMail(slot)' <=> IsMail(slot)) /\ (IsMail(slot) <=> work[w].h.does = "mail")
    BY <1>7, <1>14 DEF IsMail
  <2>6. Replying(slot)'
    BY <1>2, <1>14, <2>4, <2>5 DEF Replying
  <2>7. Saving(slot)'
    BY <2>3 DEF Saving
  <2>8. IF IsMail(slot) THEN refs[b][slot] = 0 => items[work[w].ref].to = 0
        ELSE \A j \in AllOf(slot) : j <= work[w].ref
    BY <1>1, <1>7, <1>8, <2>3, <2>4 DEF Saving
  <2>9. refs'[b][slot] # 0 /\ b \in Builds
    BY <1>3, <1>4, <1>8, <1>9
  <2>10. Referring(slot)'
    <3>1. CASE IsMail(slot)
      <4>1. ASSUME NEW c \in Builds, refs'[c][slot] # 0
            PROVE  items'[refs'[c][slot]].to = 0
        <5>1. CASE refs'[c][slot] = refs[c][slot]
          BY <1>2, <2>4, <3>1, <4>1, <5>1 DEF Referring
        <5>2. CASE c = b /\ refs[b][slot] = 0 /\ refs'[c][slot] = work[w].ref
          BY <1>2, <2>8, <3>1, <5>2
        <5> QED
          BY <1>7, <1>9, <2>5, <3>1, <5>1, <5>2
      <4> QED
        BY <2>5, <2>9, <3>1, <4>1 DEF Referring
    <3>2. CASE ~IsMail(slot)
      <4>1. refs'[b][slot] = work[w].ref
        BY <1>9, <2>5, <3>2
      <4> QED
        BY <1>14, <2>5, <2>8, <2>9, <3>2, <4>1 DEF Referring
    <3> QED
      BY <3>1, <3>2
  <2> QED
    BY <2>6, <2>7, <2>10 DEF Hanging
<1>20. Stands(slot)'
  <2>1. SUFFICES ASSUME latest'[slot] # "none"
                 PROVE  Tells(slot)'
    BY DEF Stands
  <2>2. "run" \notin work[w].met /\ latest'[slot] = work[w].event[slot[2]]
    BY <1>1, <1>6, <1>12, <2>1, Reporting
  <2>3. work[w].ref \in Live /\ items[work[w].ref].about = About(w)
    BY <1>1, <2>2 DEF IInv, Knows
  <2>4. items[work[w].ref].about[slot[2]] = work[w].h.words[work[w].event[slot[2]]]
    BY <1>7, <2>3 DEF About
  <2>5. work[w].ref \in ItemsOf(slot)
    BY <1>3, <1>7, <2>3 DEF ItemsOf
  <2>6. work[w].ref \in Showing(slot)'
    BY <1>2, <1>14, <2>2, <2>4, <2>5 DEF Showing
  <2>7. work[w].h.does \in {"upsert", "repost"} =>
          \/ Showing(slot)' = ItemsOf(slot)'
          \/ Excused(slot, {"overlap", "elsewhere", "forgot", "edit failed", "repeated"})'
    <3>1. SUFFICES ASSUME work[w].h.does \in {"upsert", "repost"},
                          ~Excused(slot, {"overlap", "elsewhere", "forgot", "edit failed", "repeated"})
                   PROVE  Showing(slot)' = ItemsOf(slot)'
      BY <1>14
    <3>2. ~Excused(slot, {"overlap"})
      BY <3>1 DEF Excused
    <3>3. ItemsOf(slot) \subseteq {work[w].ref}
      BY <1>1, <1>7, <1>16, <3>1, <3>2 DEF IInv, OneMessage
    <3> QED
      BY <1>14, <2>6, <3>3 DEF Showing
  <2> QED
    BY <1>5, <1>14, <2>6, <2>7 DEF Tells, Keepers
<1>21. tried' = tried /\ dropped' = dropped
  BY <1>2 DEF history
<1>22. Registered' /\ OnlySeenDropped'
  BY <1>2, <1>21, SameEntries
<1>23. PolicyFound' /\ OwnPolicy' /\ Detached'
  BY <1>1, <1>2, <1>12, <1>13, SamePolicy, SameStreams
<1> QED
  BY <1>1, <1>7, <1>12, <1>13, <1>15, <1>17, <1>18, <1>19, <1>20, <1>22, <1>23, OwnStep

-----------------------------------------------------------------------------
(* The shared client.                                                      *)

\* Handlers that send through the shared client.
LEMMA ClientFacts ==
  ASSUME NEW h, IsHandler(h), h.via = "client"
  PROVE  /\ h.does \notin Keepers \cup {"upsert", "repost", "stream", "each"}
         /\ Procedure(h) = {"policy", "transport", "attempt"}
         /\ h.does = "issue" => RequestsOf(h) = {"search", "create"}
         /\ h.attempts \in Nat /\ h.attempts > 0
<1>1. /\ h.does \in Ways /\ h.attempts \in Nat \ {0}
      /\ h.does \in {"thread", "upsert", "repost", "mail", "each", "stream"} => h.via = "sdk"
  BY DEF IsHandler
<1>2. h.does \notin Keepers \cup {"upsert", "repost", "stream", "each"}
  BY <1>1 DEF Keepers
<1>3. Procedure(h) = {"policy", "transport", "attempt"}
  BY <1>2 DEF Procedure
<1>4. h.does = "issue" => RequestsOf(h) = {"search", "create"}
  BY DEF RequestsOf, FirstRequests
<1> QED
  BY <1>1, <1>2, <1>3, <1>4

\* A write to the client reaches the calls that are not through.
LEMMA OthersKept ==
  ASSUME TypeOK, NEW w \in Workers, ~At(w, "idle"), NEW c \in Calls, work' = Others(w, c)
  PROVE  /\ work' \in [Workers -> Calls \cup {Idle}] /\ work'[w] = c
         /\ \A v \in Workers \ {w} :
              /\ Kept(v)
              /\ work[v].at \in {"transport", "attempt"} /\ work[v].h.via = "client"
                   => "client" \in work'[v].met
<1>1. /\ work'[w] = c /\ DOMAIN work' = Workers
      /\ \A v \in Workers \ {w} :
           work'[v] = IF work[v].at \in {"transport", "attempt"} /\ work[v].h.via = "client"
                      THEN [work[v] EXCEPT !.met = @ \cup {"client"}] ELSE work[v]
      /\ work' = [v \in Workers |-> work'[v]]
  BY DEF Others
<1>2. ASSUME NEW v \in Workers \ {w}
      PROVE  /\ Kept(v) /\ work'[v] \in Calls \cup {Idle}
             /\ work[v].at \in {"transport", "attempt"} /\ work[v].h.via = "client"
                  => "client" \in work'[v].met
  <2>1. CASE work[v].at \in {"transport", "attempt"} /\ work[v].h.via = "client"
    <3>1. ~At(v, "idle")
      BY <2>1 DEF At
    <3>2. /\ work[v] \in Calls /\ work[v].at \in Steps /\ work[v].doing \in Requests
          /\ work[v].ref \in Nat /\ work[v].tries \in Nat /\ work[v].met \in SUBSET {"run", "client"}
      BY <3>1, CallOf
    <3>3. PICK met : met = work[v].met \cup {"client"}
      OBVIOUS
    <3>4. work'[v] = [work[v] EXCEPT !.met = met]
      BY <1>1, <2>1, <3>3
    <3>5. work[v] = Call(work[v], work[v].at, work[v].doing, work[v].ref, work[v].tries, work[v].met)
      BY <3>2, CallIs
    <3>6. work'[v] = Call(work[v], work[v].at, work[v].doing, work[v].ref, work[v].tries, met)
      BY <3>4, <3>5, SMT DEF Call
    <3>7. met \in SUBSET {"run", "client"} /\ work[v].met \subseteq met /\ "client" \in met
      BY <3>2, <3>3
    <3>8. work'[v] \in Calls /\ Alike(work[v], work'[v]) /\ work'[v].met = met
      BY <3>2, <3>6, <3>7, CallFields DEF Alike
    <3> QED
      BY <3>1, <3>7, <3>8 DEF Kept
  <2>2. CASE ~(work[v].at \in {"transport", "attempt"} /\ work[v].h.via = "client")
    <3>1. work'[v] = work[v]
      BY <1>1, <2>2
    <3>2. work[v] \in Calls \cup {Idle} /\ (~At(v, "idle") => work[v] \in Calls)
      BY CallOf DEF TypeOK, CallsOK
    <3> QED
      BY <2>2, <3>1, <3>2 DEF Kept, Alike
  <2> QED
    BY <2>1, <2>2
<1>3. \A v \in Workers : work'[v] \in Calls \cup {Idle}
  BY <1>1, <1>2
<1> QED
  BY <1>1, <1>2, <1>3

\* A call writes its policy or its transport.
LEMMA WriteStep ==
  ASSUME IInv, NEW w \in Workers, ~At(w, "idle"), work[w].at \in {"policy", "transport"},
         NEW at \in {"transport", "attempt"}, work' = Others(w, [work[w] EXCEPT !.at = at]),
         client' \in [max : {0} \cup {h.attempts - 1 : h \in on}, http : Ids \cup {"none"}],
         UNCHANGED <<on, items, refs, seen, streams, latest, excused, history, faults>>,
         client'.max = work[w].h.attempts - 1
           \/ (at = "attempt" /\ work[w].at = "transport" /\ client'.max = client.max),
         at = "attempt" => client'.http = work[w].h.id
  PROVE  IInv'
<1>1. TypeOK /\ work[w].at \notin Waiting \cup {"save"} /\ ~At(w, "save") /\ w \in Busy
  BY DEF IInv, At, Waiting, Busy
<1>2. /\ on' = on /\ items' = items /\ refs' = refs /\ UNCHANGED streams /\ latest' = latest
      /\ seen' = seen /\ excused' = excused /\ UNCHANGED history /\ faults' = faults
  OBVIOUS
<1>3. /\ work[w] \in Calls /\ IsHandler(work[w].h) /\ IsCall(work[w]) /\ work[w].h \in on
      /\ work[w].met \in SUBSET {"run", "client"} /\ work[w].ref \in Nat
  BY <1>1, CallOf
<1>4. /\ work[w].at \in Procedure(work[w].h) /\ work[w].doing \in RequestsOf(work[w].h)
      /\ \A r \in DOMAIN work[w].event : Wanted(work[w].h, work[w].event[r])
      /\ work[w].ref # 0 => /\ work[w].ref \in DOMAIN items
                            /\ items[work[w].ref].by = work[w].h.id
                            /\ DOMAIN items[work[w].ref].of = DOMAIN work[w].event
  BY <1>1, InsideFacts
<1>5. /\ work[w].h.via = "client" /\ work[w].tries = 0
      /\ work[w].h.does \notin Keepers \cup {"upsert", "repost", "stream", "each"}
      /\ Procedure(work[w].h) = {"policy", "transport", "attempt"}
      /\ work[w].h.does = "issue" => work[w].doing \in {"search", "create"}
      /\ work[w].h.attempts \in Nat /\ work[w].h.attempts > 0
  <2>1. work[w].h.via = "client"
    BY <1>3, <1>4, RequestFacts
  <2>2. work[w].tries = 0
    BY <1>3 DEF IsCall
  <2> QED
    BY <1>3, <1>4, <2>1, <2>2, ClientFacts
<1>6. PICK c : c = [work[w] EXCEPT !.at = at]
  OBVIOUS
<1>7. c = Call(work[w], at, work[w].doing, work[w].ref, work[w].tries, work[w].met)
  <2>1. work[w] = Call(work[w], work[w].at, work[w].doing, work[w].ref, work[w].tries, work[w].met)
    BY <1>3, CallIs
  <2> QED
    BY <1>6, <2>1, SMT DEF Call
<1>8. c \in Calls
  <2>1. at \in Steps /\ work[w].doing \in Requests /\ work[w].tries \in Nat
    BY <1>1, CallOf DEF Steps
  <2> QED
    BY <1>3, <1>7, <2>1, CallFields
<1>9. /\ work' \in [Workers -> Calls \cup {Idle}] /\ work'[w] = c
      /\ \A v \in Workers \ {w} :
           /\ Kept(v)
           /\ work[v].at \in {"transport", "attempt"} /\ work[v].h.via = "client"
                => "client" \in work'[v].met
  BY <1>1, <1>6, <1>8, OthersKept
<1>10. Fits(w, at, work[w].doing, work[w].ref, work[w].tries)
  <2>1. work[w].doing # "edit"
    BY <1>3, <1>4, <1>5, RequestFacts
  <2> QED
    BY <1>2, <1>4, <1>5, <2>1 DEF Fits, Waiting
<1>11. Grown
  BY <1>1, <1>2, NoItemStep
<1>12. /\ Continues(w) /\ GoesOn(w, at, work[w].doing, work[w].ref, work[w].tries, work[w].met)
       /\ work'[w] # Idle
  <2>1. work[w].tries \in Nat
    BY <1>5
  <2> QED
    BY <1>1, <1>2, <1>3, <1>7, <1>9, <1>10, <1>11, <2>1, Went
<1>13. Beside
  BY <1>1, <1>2, BesideSame DEF Beside
<1>14. Own(w)
  BY <1>1, <1>2, <1>12, <1>13, QuietOwn
<1>15. /\ work'[w].at = at /\ work'[w].doing = work[w].doing /\ work'[w].ref = work[w].ref
       /\ work'[w].tries = 0 /\ work'[w].met = work[w].met /\ work'[w].h = work[w].h
       /\ work'[w].event = work[w].event
  BY <1>5, <1>12 DEF GoesOn
<1>16. ASSUME NEW slot \in SlotsOf(w)
       PROVE  ToldOnce(slot)' /\ OneRef(slot)' /\ OneMessage(slot)' /\ Hanging(slot)' /\ Stands(slot)'
  <2>1. ToldOnce(slot)'
    BY <1>1, <1>2, <1>14, QuietToldOnce
  <2>2. OneRef(slot)'
    BY <1>1, <1>2, <1>5, <1>14, QuietOneRef
  <2>3. OneMessage(slot)'
    BY <1>1, <1>2, <1>5, <1>14, <1>15, QuietOneMessage
  <2>4. Hanging(slot)'
    BY <1>1, <1>2, <1>14, <1>15, QuietHanging
  <2>5. Stands(slot)'
    BY <1>1, <1>2, OwnSilent
  <2> QED
    BY <2>1, <2>2, <2>3, <2>4, <2>5
<1>17. /\ \A v \in Busy' : v \in Busy
       /\ \A v \in Busy \ {w} : v \in Busy' /\ Alike(work[v], work'[v])
  BY <1>1, <1>14, OwnCalls
<1>18. ASSUME NEW v \in Busy', v # w, work'[v].at \in {"transport", "attempt"}, work'[v].h.via = "client"
       PROVE  "client" \in work'[v].met /\ work'[v].tries = work[v].tries /\ work[v].at = work'[v].at
              /\ v \in Busy /\ work[v].h = work'[v].h
  <2>1. v \in Workers \ {w} /\ v \in Busy /\ Alike(work[v], work'[v])
    BY <1>17, <1>18 DEF Busy
  <2> QED
    BY <1>9, <1>18, <2>1 DEF Alike
<1>19. \A v \in Busy' : At(v, "transport")' => work'[v].h.via = "client"
  <2>1. SUFFICES ASSUME NEW v \in Busy', At(v, "transport")'
                 PROVE  work'[v].h.via = "client"
    OBVIOUS
  <2>2. CASE v = w
    BY <1>5, <1>15, <2>2
  <2>3. CASE v # w
    <3>1. v \in Workers /\ ~At(v, "idle") /\ work[v].at = "transport" /\ work'[v].h = work[v].h
      BY <1>17, <2>1, <2>3 DEF Busy, Alike, At
    <3>2. work[v].at \in Procedure(work[v].h) /\ IsHandler(work[v].h)
      <4>1. work[v].at \notin Waiting
        BY <3>1 DEF Waiting
      <4> QED
        BY <1>1, <3>1, <4>1, InsideFacts, CallOf
    <3> QED
      BY <3>1, <3>2, RequestFacts
  <2> QED
    BY <2>2, <2>3
<1>20. "client" \notin work[w].met => client'.max = work[w].h.attempts - 1
  BY <1>1 DEF IInv, PolicyFound, At
<1>21. PolicyFound'
  BY <1>15, <1>18, <1>19, <1>20 DEF PolicyFound, At
<1>22. OwnPolicy'
  <2>1. SUFFICES ASSUME NEW v \in Busy', At(v, "attempt")', work'[v].h.via = "client"
                 PROVE  /\ "client" \notin work'[v].met => /\ client'.max = work'[v].h.attempts - 1
                                                           /\ client'.http = work'[v].h.id
                        /\ \E h \in on : work'[v].tries < h.attempts
    BY <1>2 DEF OwnPolicy
  <2>2. CASE v = w
    BY <1>3, <1>5, <1>15, <1>20, <2>1, <2>2 DEF At
  <2>3. CASE v # w
    <3>1. /\ "client" \in work'[v].met /\ work'[v].tries = work[v].tries /\ work[v].at = "attempt"
          /\ v \in Busy /\ work[v].h.via = "client"
      BY <1>18, <2>1, <2>3 DEF At
    <3>2. \E h \in on : work[v].tries < h.attempts
      BY <3>1 DEF IInv, OwnPolicy, At
    <3> QED
      BY <3>1, <3>2
  <2> QED
    BY <2>2, <2>3
<1>23. Detached'
  BY <1>2, SameStreams
<1>24. tried' = tried /\ dropped' = dropped
  BY <1>2 DEF history
<1>25. Registered' /\ OnlySeenDropped'
  BY <1>2, <1>24, SameEntries
<1>26. Knows(w)'
  <2>1. Knows(w)
    BY <1>1 DEF IInv
  <2> QED
    BY <1>1, <1>15, <2>1 DEF Knows, At, Waiting
<1> QED
  BY <1>1, <1>14, <1>16, <1>21, <1>22, <1>23, <1>25, <1>26, OwnStep

\* The policy is written into the client.
LEMMA SetPolicyStep ==
  ASSUME IInv, NEW w \in Workers, SetPolicy(w)
  PROVE  IInv'
<1>1. TypeOK /\ ~At(w, "idle") /\ work[w].at = "policy"
  BY DEF IInv, SetPolicy, At
<1>2. work[w].h \in on
  BY <1>1, CallOf
<1>3. client' = [client EXCEPT !.max = work[w].h.attempts - 1]
  BY DEF SetPolicy
<1>4. client \in [max : {0} \cup {h.attempts - 1 : h \in on}, http : Ids \cup {"none"}]
  BY <1>1 DEF TypeOK
<1>5. /\ client' \in [max : {0} \cup {h.attempts - 1 : h \in on}, http : Ids \cup {"none"}]
      /\ client'.max = work[w].h.attempts - 1
  BY <1>2, <1>3, <1>4
<1>6. PICK at \in {"transport", "attempt"} : at = "transport"
  OBVIOUS
<1>7. work' = Others(w, [work[w] EXCEPT !.at = at]) /\ at # "attempt"
  BY <1>6 DEF SetPolicy
<1>8. UNCHANGED <<on, items, refs, seen, streams, latest, excused, history, faults>>
  BY DEF SetPolicy
<1> QED
  BY <1>1, <1>5, <1>7, <1>8, WriteStep

\* The transport is written into the client.
LEMMA SetTransportStep ==
  ASSUME IInv, NEW w \in Workers, SetTransport(w)
  PROVE  IInv'
<1>1. TypeOK /\ ~At(w, "idle") /\ work[w].at = "transport"
  BY DEF IInv, SetTransport, At
<1>2. work[w].h.id \in Ids
  BY <1>1, CallOf
<1>3. client' = [client EXCEPT !.http = work[w].h.id]
  BY DEF SetTransport
<1>4. client \in [max : {0} \cup {h.attempts - 1 : h \in on}, http : Ids \cup {"none"}]
  BY <1>1 DEF TypeOK
<1>5. /\ client' \in [max : {0} \cup {h.attempts - 1 : h \in on}, http : Ids \cup {"none"}]
      /\ client'.max = client.max /\ client'.http = work[w].h.id
  BY <1>2, <1>3, <1>4
<1>6. PICK at \in {"transport", "attempt"} : at = "attempt"
  OBVIOUS
<1>7. work' = Others(w, [work[w] EXCEPT !.at = at])
  BY <1>6 DEF SetTransport
<1>8. UNCHANGED <<on, items, refs, seen, streams, latest, excused, history, faults>>
  BY DEF SetTransport
<1> QED
  BY <1>1, <1>5, <1>6, <1>7, <1>8, WriteStep

-----------------------------------------------------------------------------
(* Requests that lead to another, or to nothing.                           *)

\* The next request of a call.
LEMMA Requested ==
  ASSUME TypeOK, NEW w \in Workers, ~At(w, "idle"), work[w].at \notin Waiting, on' = on, Grown,
         NEW doing, doing \in RequestsOf(work[w].h), doing # "edit", work[w].h.does # "each",
         Request(w, doing)
  PROVE  /\ Continues(w) /\ latest' = latest /\ work'[w] # Idle
         /\ work'[w].at = (IF work[w].h.via = "client" THEN "policy" ELSE "attempt")
         /\ work'[w].doing = doing /\ work'[w].ref = work[w].ref /\ work'[w].tries = 0
         /\ work'[w].met = work[w].met \ {"client"} /\ work'[w].h = work[w].h
         /\ work'[w].event = work[w].event
         /\ \A v \in Workers \ {w} : work'[v] = work[v]
<1>1. /\ work[w] \in Calls /\ IsHandler(work[w].h) /\ work[w].ref \in Nat
      /\ work[w].met \in SUBSET {"run", "client"}
  BY CallOf
<1>2. /\ \A r \in DOMAIN work[w].event : Wanted(work[w].h, work[w].event[r])
      /\ work[w].ref # 0 => /\ work[w].ref \in DOMAIN items
                            /\ items[work[w].ref].by = work[w].h.id
                            /\ DOMAIN items[work[w].ref].of = DOMAIN work[w].event
  BY InsideFacts
<1>3. PICK at, tries, met : /\ at = IF work[w].h.via = "client" THEN "policy" ELSE "attempt"
                            /\ tries = 0 /\ met = work[w].met \ {"client"}
  OBVIOUS
<1>4. PICK c : c = [work[w] EXCEPT !.at = at, !.doing = doing, !.tries = tries, !.met = met]
  OBVIOUS
<1>5. c = Call(work[w], at, doing, work[w].ref, tries, met)
  <2>1. PICK a : a = [work[w] EXCEPT !.at = at, !.doing = doing]
    OBVIOUS
  <2>2. a = Call(work[w], at, doing, work[w].ref, work[w].tries, work[w].met)
    BY <1>1, <2>1, RewrittenEntry
  <2>3. PICK b : b = [a EXCEPT !.tries = tries]
    OBVIOUS
  <2>4. b = Call(work[w], at, doing, work[w].ref, tries, work[w].met)
    BY <2>2, <2>3, SMT DEF Call
  <2>5. c = [b EXCEPT !.met = met]
    BY <1>4, <2>1, <2>3
  <2> QED
    BY <2>4, <2>5, SMT DEF Call
<1>6. work' = [work EXCEPT ![w] = c] /\ latest' = latest
  BY <1>3, <1>4 DEF Request, Goto
<1>7. at \in Procedure(work[w].h) /\ at \in {"policy", "attempt"}
  BY <1>1, <1>3, RequestFacts
<1>8. met \in SUBSET {"run", "client"} /\ ("run" \in work[w].met => "run" \in met) /\ tries \in Nat
  BY <1>1, <1>3
<1>9. c \in Calls
  <2>1. at \in Steps /\ doing \in Requests
    BY <1>1, <1>7, ProcedureFacts DEF Steps
  <2> QED
    BY <1>1, <1>5, <1>8, <2>1, CallFields
<1>10. /\ work' \in [Workers -> Calls \cup {Idle}] /\ work'[w] = c
       /\ \A v \in Workers \ {w} : Kept(v) /\ work'[v] = work[v]
  BY <1>6, <1>9, Became
<1>11. Fits(w, at, doing, work[w].ref, tries)
  <2>1. work[w].ref # 0 => /\ work[w].ref \in DOMAIN items'
                           /\ items'[work[w].ref].by = work[w].h.id
                           /\ DOMAIN items'[work[w].ref].of = DOMAIN work[w].event
    BY <1>2 DEF Grown
  <2> QED
    BY <1>2, <1>3, <1>7, <2>1 DEF Fits, Waiting
<1>12. Continues(w) /\ GoesOn(w, at, doing, work[w].ref, tries, met) /\ work'[w] # Idle
  BY <1>1, <1>5, <1>6, <1>8, <1>10, <1>11, Went
<1> QED
  BY <1>3, <1>6, <1>10, <1>12 DEF GoesOn

\* A stream handler looks whether it is closed.
LEMMA CheckStep ==
  ASSUME IInv, NEW w \in Workers, Check(w)
  PROVE  IInv'
<1>1. /\ TypeOK /\ ~At(w, "idle") /\ ~At(w, "save") /\ work[w].at = "check"
      /\ work[w].at \notin Waiting \cup {"save"}
  BY DEF IInv, Check, At, Waiting
<1>2. /\ on' = on /\ items' = items /\ refs' = refs /\ client' = client /\ UNCHANGED streams
      /\ seen' = seen /\ excused' = excused /\ UNCHANGED history /\ faults' = faults
  BY DEF Check
<1>3. Beside
  BY <1>1, <1>2, BesideSame DEF Beside
<1>4. tried' = tried /\ dropped' = dropped
  BY <1>2 DEF history
<1>5. Registered' /\ OnlySeenDropped'
  BY <1>2, <1>4, SameEntries
<1>6. CASE Leave(w)
  BY <1>1, <1>2, <1>3, <1>5, <1>6, LeaveStep
<1>7. CASE Request(w, "publish")
  <2>1. IsHandler(work[w].h) /\ work[w].at \in Procedure(work[w].h)
    BY <1>1, CallOf, InsideFacts
  <2>2. work[w].h.does = "stream" /\ work[w].h.via = "sdk" /\ RequestsOf(work[w].h) = {"publish"}
    BY <1>1, <2>1, RequestFacts
  <2>3. Grown
    BY <1>1, <1>2, NoItemStep
  <2>4. PICK doing : doing = "publish"
    OBVIOUS
  <2>5. /\ Continues(w) /\ latest' = latest /\ work'[w] # Idle /\ work'[w].at = "attempt"
    BY <1>1, <1>2, <1>7, <2>2, <2>3, <2>4, Requested
  <2> QED
    BY <1>1, <1>2, <1>3, <1>5, <2>2, <2>5, GoStep DEF Keepers
<1> QED
  BY <1>6, <1>7 DEF Check

-----------------------------------------------------------------------------
(* What requests leave at the services.                                    *)

\* The greatest of finitely many numbers is one of them.
LEMMA MaxIn ==
  ASSUME NEW n \in Nat, NEW S \in SUBSET (1..n), S # {}
  PROVE  Max(S) \in S /\ \A y \in S : Max(S) >= y
<1> DEFINE Above == {m \in Nat : \A y \in S : m >= y}
<1>1. IsWellFoundedOn(OpToRel(<, Nat), Nat)
  BY NatLessThanWellFounded
<1>2. n \in Above /\ Above \subseteq Nat
  OBVIOUS
<1>3. PICK m \in Above : \A k \in Above : <<k, m>> \notin OpToRel(<, Nat)
  BY <1>1, <1>2, WFMin
<1>4. \A k \in Above : ~(k < m)
  BY <1>3 DEF OpToRel
<1>5. m \in S
  <2>1. SUFFICES ASSUME m \notin S PROVE FALSE
    OBVIOUS
  <2>2. PICK y \in S : y \in Nat /\ y >= 1
    <3>1. PICK y : y \in S
      OBVIOUS
    <3>2. y \in 1..n
      BY <3>1
    <3> QED
      BY <3>1, <3>2
  <2>3. m # 0
    BY <2>2
  <2>4. m - 1 \in Above
    BY <2>1, <2>3
  <2> QED
    BY <1>4, <2>4
<1> QED
  BY <1>5 DEF Max

\* What a call says about its runs.
LEMMA AboutCall ==
  ASSUME TypeOK, NEW w \in Workers, ~At(w, "idle"), work[w].at \notin Waiting
  PROVE  /\ About(w) \in UNION {[DOMAIN ev -> Words] : ev \in Events}
         /\ DOMAIN About(w) = DOMAIN work[w].event
         /\ \A r \in DOMAIN work[w].event :
              /\ About(w)[r] = work[w].h.words[work[w].event[r]]
              /\ \E s \in DOMAIN work[w].h.acts : About(w)[r] = work[w].h.words[s]
         /\ work[w].h.does # "flush" => \E r \in Runs : DOMAIN work[w].event = {r}
<1>1. /\ \A r \in DOMAIN work[w].event :
           work[w].event[r] \in DOMAIN work[w].h.acts
  BY InsideFacts DEF Wanted
<1>2. work[w].h \in on /\ work[w].event \in Events /\ IsCall(work[w])
  BY CallOf
<1>3. About(w) = [r \in DOMAIN work[w].event |-> work[w].h.words[work[w].event[r]]]
  BY DEF About
<1>4. \A r \in DOMAIN work[w].event : work[w].h.words[work[w].event[r]] \in Words
  <2>1. PICK W : W = {work[w].h.words[s] : s \in DOMAIN work[w].h.acts}
    OBVIOUS
  <2>2. W \in {{h.words[s] : s \in DOMAIN h.acts} : h \in on}
    BY <1>2, <2>1
  <2>3. W \subseteq Words
    BY <2>2 DEF Words
  <2> QED
    BY <1>1, <2>1, <2>3
<1>5. About(w) \in [DOMAIN work[w].event -> Words]
  BY <1>3, <1>4
<1>6. About(w) \in UNION {[DOMAIN ev -> Words] : ev \in Events}
  BY <1>2, <1>5
<1> QED
  BY <1>1, <1>2, <1>3, <1>6 DEF IsCall

\* What an item may be.
Kinds == Requests \cup {"message", "alert"} \cup UNION {h.on : h \in on}

\* What a call brings is an item.
LEMMA NewItem ==
  ASSUME TypeOK, NEW w \in Workers, ~At(w, "idle"), work[w].at \notin Waiting,
         NEW kind \in Kinds, NEW to \in Nat, NEW x,
         x = [by |-> work[w].h.id, kind |-> kind, is |-> "open", to |-> to, of |-> work[w].event,
              about |-> About(w)]
  PROVE  /\ x \in Items /\ IsItem(work[w].h, x)
         /\ x.by = work[w].h.id /\ x.kind = kind /\ x.is = "open" /\ x.to = to
         /\ x.of = work[w].event /\ x.about = About(w)
<1>1. /\ x.by = work[w].h.id /\ x.kind = kind /\ x.is = "open" /\ x.to = to
      /\ x.of = work[w].event /\ x.about = About(w)
  OBVIOUS
<1>2. PICK about : about = About(w)
  OBVIOUS
<1>3. /\ about \in UNION {[DOMAIN ev -> Words] : ev \in Events}
      /\ DOMAIN about = DOMAIN work[w].event
      /\ \A r \in DOMAIN work[w].event :
           \E s \in DOMAIN work[w].h.acts : about[r] = work[w].h.words[s]
      /\ work[w].h.does # "flush" => \E r \in Runs : DOMAIN work[w].event = {r}
  BY <1>2, AboutCall
<1>4. work[w].h.id \in Ids /\ HandlerOf(work[w].h.id) = work[w].h /\ work[w].event \in Events
  BY CallOf
<1>5. x \in Items
  BY <1>2, <1>3, <1>4 DEF Items, Kinds
<1>6. IsItem(work[w].h, x)
  BY <1>1, <1>2, <1>3, <1>4 DEF IsItem
<1> QED
  BY <1>1, <1>5, <1>6

\* One more item.
LEMMA Appended ==
  ASSUME TypeOK, NEW w \in Workers, ~At(w, "idle"), on' = on,
         NEW x \in Items, IsItem(work[w].h, x), x.by = work[w].h.id, x.of = work[w].event,
         x.to # 0 => /\ x.to \in DOMAIN items /\ items[x.to].by = x.by
                     /\ DOMAIN items[x.to].of = DOMAIN x.of,
         NEW n, n = Len(items) + 1, items' = Append(items, x)
  PROVE  /\ ItemStep(w) /\ n \in Nat /\ n # 0 /\ n \notin DOMAIN items
         /\ \A i \in DOMAIN items : i < n /\ i \in Nat
         /\ DOMAIN items' = DOMAIN items \cup {n} /\ items'[n] = x
         /\ \A i \in DOMAIN items : items'[i] = items[i]
<1>1. items \in Seq(Items) /\ \A i \in DOMAIN items :
         /\ IsItem(HandlerOf(items[i].by), items[i]) /\ items[i].to < i
         /\ items[i].to # 0 => /\ items[items[i].to].by = items[i].by
                               /\ DOMAIN items[items[i].to].of = DOMAIN items[i].of
  BY DEF TypeOK, ItemsOK
<1>2. /\ n \in Nat /\ n # 0 /\ n \notin DOMAIN items /\ DOMAIN items' = DOMAIN items \cup {n}
      /\ items'[n] = x /\ items' \in Seq(Items)
      /\ \A i \in DOMAIN items : items'[i] = items[i] /\ i < n /\ i \in Nat
  BY <1>1
<1>3. Items' = Items /\ \A id : HandlerOf(id)' = HandlerOf(id)
  BY SameHandlers
<1>4. \A i \in DOMAIN items : items[i].to # 0 => items[i].to \in DOMAIN items
  <2>1. SUFFICES ASSUME NEW i \in DOMAIN items, items[i].to # 0
                 PROVE  items[i].to \in DOMAIN items
    OBVIOUS
  <2>2. items[i].to \in Nat /\ i \in 1..Len(items) /\ DOMAIN items = 1..Len(items) /\ Len(items) \in Nat
    BY ItemOf
  <2> QED
    BY <1>1, <2>1, <2>2
<1>5. x.to < n
  <2>1. x.to \in Nat
    BY DEF Items
  <2> QED
    BY <1>2, <2>1
<1>6. ItemsOK'
  <2>1. ASSUME NEW i \in DOMAIN items'
        PROVE  /\ IsItem(HandlerOf(items'[i].by), items'[i]) /\ items'[i].to < i
               /\ items'[i].to # 0 => /\ items'[items'[i].to].by = items'[i].by
                                      /\ DOMAIN items'[items'[i].to].of = DOMAIN items'[i].of
    <3>1. CASE i \in DOMAIN items
      <4>1. items'[i] = items[i]
        BY <1>2, <3>1
      <4> QED
        BY <1>1, <1>2, <1>4, <3>1, <4>1
    <3>2. CASE i = n
      <4>1. items'[i] = x /\ HandlerOf(x.by) = work[w].h
        BY <1>2, <3>2, CallOf
      <4> QED
        BY <1>2, <1>5, <3>2, <4>1
    <3> QED
      BY <1>2, <3>1, <3>2
  <2> QED
    BY <1>2, <1>3, <2>1 DEF ItemsOK
<1>7. Grown
  BY <1>2 DEF Grown
<1> QED
  BY <1>2, <1>6, <1>7 DEF ItemStep

\* Items of a call's runs are rewritten.
LEMMA Changed ==
  ASSUME TypeOK, NEW w \in Workers, ~At(w, "idle"), work[w].at \notin Waiting, on' = on,
         NEW S \in SUBSET DOMAIN items,
         \A i \in S : items[i].by = work[w].h.id /\ DOMAIN items[i].of = DOMAIN work[w].event,
         DOMAIN items' = DOMAIN items, items' \in Seq(Items),
         \A i \in DOMAIN items \ S : items'[i] = items[i],
         \A i \in S : /\ items'[i].by = items[i].by /\ items'[i].of = items[i].of
                      /\ items'[i].to = items[i].to
                      /\ items'[i].about = items[i].about \/ items'[i].about = About(w)
  PROVE  ItemStep(w)
<1>1. \A i \in DOMAIN items : items'[i].by = items[i].by /\ items'[i].of = items[i].of
                              /\ items'[i].to = items[i].to
  OBVIOUS
<1>2. Items' = Items /\ \A id : HandlerOf(id)' = HandlerOf(id)
  BY SameHandlers
<1>3. ASSUME NEW i \in DOMAIN items
      PROVE  IsItem(HandlerOf(items'[i].by), items'[i])
  <2>1. IsItem(HandlerOf(items[i].by), items[i])
    BY DEF TypeOK, ItemsOK
  <2>2. CASE items'[i].about = items[i].about
    BY <1>1, <1>2, <2>1, <2>2 DEF IsItem
  <2>3. CASE i \in S /\ items'[i].about = About(w)
    <3>1. PICK about : about = About(w)
      OBVIOUS
    <3>2. /\ DOMAIN about = DOMAIN work[w].event
          /\ \A r \in DOMAIN work[w].event :
               \E s \in DOMAIN work[w].h.acts : about[r] = work[w].h.words[s]
      BY <3>1, AboutCall
    <3>3. HandlerOf(items[i].by) = work[w].h /\ DOMAIN items[i].of = DOMAIN work[w].event
      BY <2>3, CallOf
    <3> QED
      BY <1>1, <1>2, <2>1, <2>3, <3>1, <3>2, <3>3 DEF IsItem
  <2> QED
    BY <2>2, <2>3
<1>4. ASSUME NEW i \in DOMAIN items
      PROVE  /\ items'[i].to < i
             /\ items'[i].to # 0 => /\ items'[items'[i].to].by = items'[i].by
                                    /\ DOMAIN items'[items'[i].to].of = DOMAIN items'[i].of
  <2>1. /\ items[i].to < i
        /\ items[i].to # 0 => /\ items[items[i].to].by = items[i].by
                              /\ DOMAIN items[items[i].to].of = DOMAIN items[i].of
    BY DEF TypeOK, ItemsOK
  <2>2. items[i].to # 0 => items[i].to \in DOMAIN items
    <3>1. items[i].to \in Nat /\ i \in 1..Len(items) /\ DOMAIN items = 1..Len(items) /\ Len(items) \in Nat
      BY ItemOf
    <3> QED
      BY <2>1, <3>1
  <2> QED
    BY <1>1, <2>1, <2>2
<1>5. ItemsOK'
  BY <1>2, <1>3, <1>4 DEF ItemsOK
<1> QED
  BY <1>1, <1>5 DEF ItemStep, Grown

\* What a handler requests tells how it goes about events.
LEMMA Doings ==
  ASSUME NEW h, IsHandler(h), NEW doing, doing \in RequestsOf(h)
  PROVE  \/ doing = "post" /\ h.does \in {"post", "flush", "each"} \cup Keepers
         \/ doing = "edit" /\ h.does \in {"upsert", "repost"}
         \/ doing \in {"trigger", "resolve", "acknowledge"} /\ h.does = "alert"
         \/ doing = "declare" /\ h.does = "declare"
         \/ doing \in {"release", "deploy"} /\ h.does = "release"
         \/ doing \in {"list", "move"} /\ h.does = "move"
         \/ doing \in {"search", "create"} /\ h.does = "issue"
         \/ doing = "link" /\ h.does = "link"
         \/ doing = "publish" /\ h.does = "stream"
<1>1. h.does \in Ways
  BY DEF IsHandler
<1> QED
  BY <1>1 DEF RequestsOf, FirstRequests, Ways, Keepers

\* The items of a call's run.
LEMMA MineIs ==
  ASSUME TypeOK, NEW w \in Workers, ~At(w, "idle"), work[w].h.does # "flush", NEW slot \in SlotsOf(w)
  PROVE  /\ Mine(w) = ItemsOf(slot) /\ Mine(w) \subseteq DOMAIN items
         /\ \A i \in Mine(w) : /\ items[i].by = work[w].h.id
                               /\ DOMAIN items[i].of = DOMAIN work[w].event
                               /\ items[i].is # "deleted"
<1>1. SlotsOf(w) = {slot} /\ DOMAIN work[w].event = {slot[2]}
  BY RefIs
<1>2. slot[1] = work[w].h.id /\ HandlerOf(slot[1]) = work[w].h
  BY SlotsOfCall
<1>3. Mine(w) = ItemsOf(slot)
  BY <1>1 DEF Mine
<1>4. \A i \in ItemsOf(slot) : /\ i \in DOMAIN items /\ items[i].by = slot[1] /\ slot[2] \in DOMAIN items[i].of
                               /\ items[i].is # "deleted"
  BY DEF ItemsOf, Live
<1>5. ASSUME NEW i \in ItemsOf(slot)
      PROVE  DOMAIN items[i].of = DOMAIN work[w].event
  <2>1. IsItem(work[w].h, items[i])
    BY <1>2, <1>4, ItemOf
  <2>2. PICK r \in Runs : DOMAIN items[i].of = {r}
    BY <2>1 DEF IsItem
  <2> QED
    BY <1>1, <1>4, <2>2
<1> QED
  BY <1>2, <1>3, <1>4, <1>5

\* The step adds an item about the event,
Adds(w, x) ==
  /\ ItemStep(w) /\ Len(items) + 1 \in Nat /\ Len(items) + 1 # 0 /\ Len(items) + 1 \notin DOMAIN items
  /\ \A i \in DOMAIN items : i < Len(items) + 1 /\ i \in Nat /\ items'[i] = items[i]
  /\ DOMAIN items' = DOMAIN items \cup {Len(items) + 1} /\ items'[Len(items) + 1] = x
  /\ x.by = work[w].h.id /\ x.of = work[w].event /\ x.is = "open" /\ x.about = About(w)

\* rewrites what one item shows,
Shows(w, i) ==
  /\ ItemStep(w) /\ i \in DOMAIN items /\ items[i].by = work[w].h.id
  /\ DOMAIN items[i].of = DOMAIN work[w].event
  /\ DOMAIN items' = DOMAIN items /\ items'[i].about = About(w)
  /\ \A j \in DOMAIN items : j # i => items'[j] = items[j]
  /\ \A j \in DOMAIN items : /\ items'[j].is = items[j].is /\ items'[j].kind = items[j].kind
                             /\ items'[j].by = items[j].by /\ items'[j].of = items[j].of

\* or resolves the alerts of the run.
Resolves(w) ==
  /\ ItemStep(w) /\ DOMAIN items' = DOMAIN items
  /\ \A j \in DOMAIN items :
       /\ items'[j].is = (IF j \in Mine(w) THEN "resolved" ELSE items[j].is)
       /\ items'[j].by = items[j].by /\ items'[j].of = items[j].of

\* A new item is appended.
LEMMA AddsItem ==
  ASSUME TypeOK, NEW w \in Workers, ~At(w, "idle"), work[w].at \notin Waiting, on' = on,
         NEW kind \in Kinds, items' = Append(items, Item(w, kind))
  PROVE  \E x : Adds(w, x) /\ x.kind = kind
<1>1. PICK to \in Nat : to = 0
  OBVIOUS
<1>2. PICK x : x = [by |-> work[w].h.id, kind |-> kind, is |-> "open", to |-> to, of |-> work[w].event,
                    about |-> About(w)]
  OBVIOUS
<1>3. /\ x \in Items /\ IsItem(work[w].h, x)
      /\ x.by = work[w].h.id /\ x.kind = kind /\ x.is = "open" /\ x.to = 0
      /\ x.of = work[w].event /\ x.about = About(w)
  BY <1>1, <1>2, NewItem
<1>4. items' = Append(items, x)
  BY <1>1, <1>2 DEF Item
<1>5. PICK n : n = Len(items) + 1
  OBVIOUS
<1>6. /\ ItemStep(w) /\ n \in Nat /\ n # 0 /\ n \notin DOMAIN items
      /\ \A i \in DOMAIN items : i < n /\ i \in Nat
      /\ DOMAIN items' = DOMAIN items \cup {n} /\ items'[n] = x
      /\ \A i \in DOMAIN items : items'[i] = items[i]
  BY <1>3, <1>4, <1>5, Appended
<1> QED
  BY <1>3, <1>5, <1>6 DEF Adds

\* A message is posted; in a thread it replies to the one referred to.
LEMMA PostsItem ==
  ASSUME TypeOK, NEW w \in Workers, ~At(w, "idle"), work[w].at \notin Waiting, on' = on,
         items' = Append(items, [Item(w, "message") EXCEPT
                                   !.to = IF work[w].h.does \in {"thread", "mail"} THEN work[w].ref ELSE 0])
  PROVE  \E x : /\ Adds(w, x)
                /\ x.to = IF work[w].h.does \in {"thread", "mail"} THEN work[w].ref ELSE 0
<1>1. PICK to : to = IF work[w].h.does \in {"thread", "mail"} THEN work[w].ref ELSE 0
  OBVIOUS
<1>2. /\ to \in Nat
      /\ to # 0 => /\ to \in DOMAIN items /\ items[to].by = work[w].h.id
                   /\ DOMAIN items[to].of = DOMAIN work[w].event
  BY <1>1, InsideFacts, CallOf
<1>3. PICK kind \in Kinds : kind = "message"
  BY DEF Kinds
<1>4. PICK x : x = [by |-> work[w].h.id, kind |-> kind, is |-> "open", to |-> to, of |-> work[w].event,
                    about |-> About(w)]
  OBVIOUS
<1>5. /\ x \in Items /\ IsItem(work[w].h, x)
      /\ x.by = work[w].h.id /\ x.kind = kind /\ x.is = "open" /\ x.to = to
      /\ x.of = work[w].event /\ x.about = About(w)
  BY <1>2, <1>4, NewItem
<1>6. items' = Append(items, x)
  BY <1>1, <1>3, <1>4 DEF Item
<1>7. PICK n : n = Len(items) + 1
  OBVIOUS
<1>8. /\ ItemStep(w) /\ n \in Nat /\ n # 0 /\ n \notin DOMAIN items
      /\ \A i \in DOMAIN items : i < n /\ i \in Nat
      /\ DOMAIN items' = DOMAIN items \cup {n} /\ items'[n] = x
      /\ \A i \in DOMAIN items : items'[i] = items[i]
  BY <1>2, <1>5, <1>6, <1>7, Appended
<1> QED
  BY <1>1, <1>5, <1>7, <1>8 DEF Adds

\* An item is made to show the event.
LEMMA ShowsItem ==
  ASSUME TypeOK, NEW w \in Workers, ~At(w, "idle"), work[w].at \notin Waiting, on' = on,
         NEW i \in DOMAIN items, items[i].by = work[w].h.id,
         DOMAIN items[i].of = DOMAIN work[w].event, items' = Shown(i, w)
  PROVE  Shows(w, i)
<1>1. PICK about : about = About(w)
  OBVIOUS
<1>2. about \in UNION {[DOMAIN ev -> Words] : ev \in Events}
  BY <1>1, AboutCall
<1>3. items \in Seq(Items) /\ items[i] \in Items
  BY ItemOf DEF TypeOK, ItemsOK
<1>4. PICK x : x = [items[i] EXCEPT !.about = about]
  OBVIOUS
<1>5. /\ x \in Items /\ x.about = about /\ x.is = items[i].is /\ x.kind = items[i].kind
      /\ x.by = items[i].by /\ x.of = items[i].of /\ x.to = items[i].to
  BY <1>2, <1>3, <1>4 DEF Items
<1>6. items' = [items EXCEPT ![i] = x]
  BY <1>1, <1>4 DEF Shown
<1>7. /\ DOMAIN items' = DOMAIN items /\ items'[i] = x /\ items' \in Seq(Items)
      /\ \A j \in DOMAIN items : j # i => items'[j] = items[j]
  BY <1>3, <1>5, <1>6
<1>8. PICK S \in SUBSET DOMAIN items : S = {i}
  OBVIOUS
<1>9. ItemStep(w)
  BY <1>1, <1>5, <1>7, <1>8, Changed
<1> QED
  BY <1>1, <1>5, <1>7, <1>9 DEF Shows

\* The alerts of a run are resolved.
LEMMA ResolvesItems ==
  ASSUME TypeOK, NEW w \in Workers, ~At(w, "idle"), work[w].at \notin Waiting, on' = on,
         work[w].h.does # "flush",
         items' = [i \in DOMAIN items |-> IF i \in Mine(w) THEN [items[i] EXCEPT !.is = "resolved"]
                                          ELSE items[i]]
  PROVE  Resolves(w)
<1>1. PICK S : S = Mine(w)
  OBVIOUS
<1>2. PICK slot : slot \in SlotsOf(w)
  BY SlotsOfCall
<1>3. S \subseteq DOMAIN items /\ \A i \in S : /\ items[i].by = work[w].h.id
                                               /\ DOMAIN items[i].of = DOMAIN work[w].event
  BY <1>1, <1>2, MineIs
<1>4. items \in Seq(Items) /\ \A i \in DOMAIN items : items[i] \in Items
  BY DEF TypeOK, ItemsOK
<1>5. ASSUME NEW i \in DOMAIN items
      PROVE  /\ items'[i] \in Items /\ items'[i].is = (IF i \in S THEN "resolved" ELSE items[i].is)
             /\ items'[i].by = items[i].by /\ items'[i].of = items[i].of
             /\ items'[i].to = items[i].to /\ items'[i].about = items[i].about
             /\ i \notin S => items'[i] = items[i]
  <2>1. items[i] \in Items
    BY <1>4
  <2>2. CASE i \in S
    <3>1. items'[i] = [items[i] EXCEPT !.is = "resolved"]
      BY <1>1, <2>2
    <3> QED
      BY <2>1, <2>2, <3>1 DEF Items
  <2>3. CASE i \notin S
    BY <1>1, <2>1, <2>3
  <2> QED
    BY <2>2, <2>3
<1>6. DOMAIN items' = DOMAIN items /\ items' \in Seq(Items)
  <2>1. DOMAIN items' = DOMAIN items /\ DOMAIN items = 1..Len(items) /\ Len(items) \in Nat
    BY <1>4
  <2>2. items' = [i \in 1..Len(items) |-> items'[i]]
    BY <2>1
  <2>3. \A i \in 1..Len(items) : items'[i] \in Items
    BY <1>5, <2>1
  <2> QED
    BY <2>1, <2>2, <2>3
<1>7. ItemStep(w)
  BY <1>3, <1>5, <1>6, Changed
<1> QED
  BY <1>1, <1>5, <1>6, <1>7 DEF Resolves

\* The effect of a request, by what the handler is doing.
LEMMA EffectIs ==
  ASSUME TypeOK, NEW w \in Workers, At(w, "attempt"), on' = on, Accepted(w), items' = Effect(w)
  PROVE  /\ work[w].doing = "post" =>
              \E x : /\ Adds(w, x)
                     /\ x.to = IF work[w].h.does \in {"thread", "mail"} THEN work[w].ref ELSE 0
         /\ work[w].doing = "edit" => Shows(w, work[w].ref)
         /\ work[w].doing = "trigger" => \/ \E i \in OpenAlerts(w) : Shows(w, i)
                                         \/ \E x : Adds(w, x)
         /\ work[w].doing = "resolve" => Resolves(w)
         /\ work[w].doing \in {"declare", "release"} =>
              \/ Mine(w) # {} /\ items' = items
              \/ \E x : Adds(w, x)
         /\ work[w].doing = "link" => (\E i \in Mine(w) : Shows(w, i)) \/ (\E x : Adds(w, x))
         /\ work[w].doing \in {"acknowledge", "search", "list"} => items' = items
         /\ work[w].doing \in {"create", "move", "deploy", "publish"} =>
              \E x : Adds(w, x) /\ x.kind = work[w].doing
<1>1. ~At(w, "idle") /\ work[w].at = "attempt" /\ work[w].at \notin Waiting
  BY DEF At, Waiting
<1>2. /\ work[w].doing \in RequestsOf(work[w].h) /\ work[w].at \in Procedure(work[w].h)
      /\ work[w].doing = "edit" => work[w].ref # 0
      /\ work[w].ref # 0 => /\ work[w].ref \in DOMAIN items /\ items[work[w].ref].by = work[w].h.id
                            /\ DOMAIN items[work[w].ref].of = DOMAIN work[w].event
  BY <1>1, InsideFacts
<1>3. IsHandler(work[w].h)
  BY <1>1, CallOf
<1>4. work[w].doing # "post" => work[w].h.does # "flush"
  BY <1>2, <1>3, Doings
<1>5. PICK slot : slot \in SlotsOf(w)
  BY <1>1, SlotsOfCall
<1>6. work[w].doing # "post" =>
        /\ Mine(w) \subseteq DOMAIN items
        /\ \A i \in Mine(w) : items[i].by = work[w].h.id /\ DOMAIN items[i].of = DOMAIN work[w].event
  BY <1>1, <1>4, <1>5, MineIs
<1>7. DOMAIN items = 1..Len(items) /\ Len(items) \in Nat
  BY DEF TypeOK, ItemsOK
<1>8. CASE work[w].doing = "post"
  <2>1. items' = Append(items, [Item(w, "message") EXCEPT
                                  !.to = IF work[w].h.does \in {"thread", "mail"} THEN work[w].ref ELSE 0])
    BY <1>8 DEF Effect
  <2> QED
    BY <1>1, <1>8, <2>1, PostsItem
<1>9. CASE work[w].doing = "edit"
  <2>1. items' = Shown(work[w].ref, w)
    BY <1>9 DEF Effect
  <2> QED
    BY <1>1, <1>2, <1>9, <2>1, ShowsItem
<1>10. CASE work[w].doing = "trigger"
  <2>1. CASE OpenAlerts(w) # {} /\ items' = Shown(Max(OpenAlerts(w)), w)
    <3>1. PICK S, i : S = OpenAlerts(w) /\ i = Max(S)
      OBVIOUS
    <3>2. S \in SUBSET (1..Len(items)) /\ S \subseteq Mine(w) /\ S # {}
      BY <1>6, <1>7, <1>10, <2>1, <3>1 DEF OpenAlerts
    <3>3. i \in S
      BY <1>7, <3>1, <3>2, MaxIn
    <3>4. i \in Mine(w) /\ items' = Shown(i, w) /\ i \in OpenAlerts(w)
      BY <2>1, <3>1, <3>2, <3>3
    <3>5. Shows(w, i)
      BY <1>1, <1>6, <1>10, <3>4, ShowsItem
    <3> QED
      BY <1>10, <3>4, <3>5
  <2>2. CASE items' = Append(items, Item(w, "alert"))
    <3>1. PICK kind \in Kinds : kind = "alert"
      BY DEF Kinds
    <3> QED
      BY <1>1, <1>10, <2>2, <3>1, AddsItem
  <2> QED
    BY <1>10, <2>1, <2>2 DEF Effect
<1>11. CASE work[w].doing = "resolve"
  <2>1. items' = [i \in DOMAIN items |-> IF i \in Mine(w) THEN [items[i] EXCEPT !.is = "resolved"]
                                         ELSE items[i]]
    BY <1>11 DEF Effect
  <2> QED
    BY <1>1, <1>4, <1>11, <2>1, ResolvesItems
<1>12. CASE work[w].doing \in {"declare", "release"}
  <2>1. CASE OfKind(w, work[w].doing) # {} /\ items' = items
    <3>1. Mine(w) # {}
      BY <2>1 DEF OfKind
    <3> QED
      BY <1>12, <2>1, <3>1
  <2>2. CASE items' = Append(items, Item(w, work[w].doing))
    <3>1. work[w].doing \in Kinds
      BY <1>12 DEF Kinds, Requests
    <3>2. \E x : Adds(w, x)
      BY <1>1, <2>2, <3>1, AddsItem
    <3> QED
      BY <1>12, <3>2
  <2> QED
    BY <1>12, <2>1, <2>2 DEF Effect
<1>13. CASE work[w].doing = "link"
  <2>1. CASE Mine(w) # {} /\ items' = Shown(Max(Mine(w)), w)
    <3>1. PICK S, i : S = Mine(w) /\ i = Max(S)
      OBVIOUS
    <3>2. S \in SUBSET (1..Len(items)) /\ S # {}
      BY <1>6, <1>7, <1>13, <2>1, <3>1
    <3>3. i \in Mine(w) /\ items' = Shown(i, w)
      BY <1>7, <2>1, <3>1, <3>2, MaxIn
    <3>4. Shows(w, i)
      BY <1>1, <1>6, <1>13, <3>3, ShowsItem
    <3> QED
      BY <1>13, <3>3, <3>4
  <2>2. CASE items' = Append(items, Item(w, "link"))
    <3>1. PICK kind \in Kinds : kind = "link"
      BY DEF Kinds, Requests
    <3> QED
      BY <1>1, <1>13, <2>2, <3>1, AddsItem
  <2> QED
    BY <1>13, <2>1, <2>2 DEF Effect
<1>14. CASE work[w].doing \in {"acknowledge", "search", "list"}
  BY <1>14 DEF Effect
<1>15. CASE work[w].doing \in {"create", "move", "deploy", "publish"}
  <2>1. items' = Append(items, Item(w, work[w].doing))
    BY <1>15 DEF Effect
  <2>2. work[w].doing \in Kinds
    BY <1>15 DEF Kinds, Requests
  <2>3. \E x : Adds(w, x) /\ x.kind = work[w].doing
    BY <1>1, <2>1, <2>2, AddsItem
  <2> QED
    BY <1>15, <2>3
<1>16. work[w].doing \in {"post", "edit", "trigger", "resolve", "acknowledge", "declare", "release",
                          "deploy", "list", "move", "search", "create", "link", "publish"}
  BY <1>2, <1>3, Doings
<1> QED
  BY <1>8, <1>9, <1>10, <1>11, <1>12, <1>13, <1>14, <1>15, <1>16

-----------------------------------------------------------------------------
(* Attempts that fail.                                                     *)

\* The call ends, or makes another attempt, or posts instead of editing.
GoesOnAfter(w) ==
  /\ work'[w] # Idle /\ work'[w].at = "attempt" /\ work'[w].ref = work[w].ref
  /\ \/ work'[w].doing = work[w].doing
     \/ work[w].h.does = "repost" /\ work[w].doing = "edit" /\ work'[w].doing = "post"
  /\ work[w].h.via = "client" =>
       work'[w].met = work[w].met /\ \E h \in on : work'[w].tries < h.attempts

\* A failed request ends the call, or leads to another attempt or a post.
LEMMA Failed ==
  ASSUME TypeOK, NEW w \in Workers, At(w, "attempt"), on' = on, Grown, Refused(w) \/ Retry(w)
  PROVE  /\ Continues(w) /\ latest' = latest
         /\ Leave(w) \/ GoesOnAfter(w)
<1>1. ~At(w, "idle") /\ work[w].at = "attempt" /\ work[w].at \notin Waiting
  BY DEF At, Waiting
<1>2. /\ work[w].doing \in RequestsOf(work[w].h) /\ work[w].at \in Procedure(work[w].h)
      /\ work[w].doing = "edit" => work[w].ref # 0
      /\ work[w].ref # 0 => /\ work[w].ref \in DOMAIN items /\ items[work[w].ref].by = work[w].h.id
                            /\ DOMAIN items[work[w].ref].of = DOMAIN work[w].event
      /\ \A r \in DOMAIN work[w].event : Wanted(work[w].h, work[w].event[r])
  BY <1>1, InsideFacts
<1>3. /\ work[w] \in Calls /\ IsHandler(work[w].h) /\ work[w].ref \in Nat /\ work[w].tries \in Nat
      /\ work[w].met \in SUBSET {"run", "client"} /\ work[w].doing \in Requests
  BY <1>1, CallOf
<1>4. CASE Leave(w)
  BY <1>1, <1>4, Ended
<1>5. CASE work[w].h.does = "repost" /\ work[w].doing = "edit" /\ Request(w, "post")
  <2>1. "post" \in RequestsOf(work[w].h) /\ work[w].h.via = "sdk"
    BY <1>3, <1>5, RequestFacts DEF Keepers
  <2>2. PICK doing : doing = "post"
    OBVIOUS
  <2>3. /\ Continues(w) /\ latest' = latest /\ work'[w] # Idle /\ work'[w].at = "attempt"
        /\ work'[w].doing = "post" /\ work'[w].ref = work[w].ref
    BY <1>1, <1>5, <2>1, <2>2, Requested
  <2> QED
    BY <1>5, <2>1, <2>3 DEF GoesOnAfter
<1>6. CASE /\ work[w].h.via = "client" /\ client.max - work[w].tries > 0
           /\ Goto(w, [work[w] EXCEPT !.tries = @ + 1])
  <2>1. PICK tries \in Nat : tries = work[w].tries + 1
    BY <1>3
  <2>2. PICK c : c = [work[w] EXCEPT !.tries = tries]
    OBVIOUS
  <2>3. c = Call(work[w], work[w].at, work[w].doing, work[w].ref, tries, work[w].met)
    <3>1. work[w] = Call(work[w], work[w].at, work[w].doing, work[w].ref, work[w].tries, work[w].met)
      BY <1>3, CallIs
    <3> QED
      BY <2>2, <3>1, SMT DEF Call
  <2>4. work' = [work EXCEPT ![w] = c] /\ latest' = latest
    BY <1>6, <2>1, <2>2 DEF Goto
  <2>5. c \in Calls
    <3>1. work[w].at \in Steps
      BY <1>1, CallOf
    <3> QED
      BY <1>3, <2>1, <2>3, <3>1, CallFields
  <2>6. /\ work' \in [Workers -> Calls \cup {Idle}] /\ work'[w] = c
        /\ \A v \in Workers \ {w} : Kept(v)
    BY <1>1, <2>4, <2>5, Became
  <2>7. Fits(w, work[w].at, work[w].doing, work[w].ref, tries)
    <3>1. work[w].ref # 0 => /\ work[w].ref \in DOMAIN items'
                             /\ items'[work[w].ref].by = work[w].h.id
                             /\ DOMAIN items'[work[w].ref].of = DOMAIN work[w].event
      BY <1>2 DEF Grown
    <3> QED
      BY <1>1, <1>2, <3>1 DEF Fits, Waiting
  <2>8. /\ Continues(w) /\ GoesOn(w, work[w].at, work[w].doing, work[w].ref, tries, work[w].met)
        /\ work'[w] # Idle
    BY <1>1, <1>3, <2>1, <2>3, <2>4, <2>6, <2>7, Went
  <2>9. \E h \in on : tries < h.attempts
    <3>1. client.max \in {0} \cup {h.attempts - 1 : h \in on}
      BY DEF TypeOK
    <3>2. client.max # 0
      BY <1>3, <1>6
    <3>3. PICK h \in on : client.max = h.attempts - 1
      BY <3>1, <3>2
    <3>4. h.attempts \in Nat
      BY HandlersByID DEF TypeOK, IsHandler
    <3> QED
      BY <1>3, <1>6, <2>1, <3>3, <3>4
  <2> QED
    BY <1>1, <2>4, <2>8, <2>9 DEF GoesOnAfter, GoesOn
<1> QED
  BY <1>4, <1>5, <1>6 DEF Refused, Retry

\* An attempt that has no effect.
LEMMA FailedStep ==
  ASSUME IInv, NEW w \in Workers, At(w, "attempt"), items' = items,
         UNCHANGED <<on, refs, seen, client, streams, history>>, excused \subseteq excused',
         faults' \in Nat, Refused(w) \/ Retry(w),
         work[w].h.does = "repost" /\ work[w].doing = "edit" =>
           \A slot \in SlotsOf(w) :
             \/ ItemsOf(slot) = {}
             \/ Excused(slot, {"overlap", "elsewhere", "forgot", "edit failed", "repeated"})'
  PROVE  IInv'
<1>1. /\ TypeOK /\ ~At(w, "idle") /\ ~At(w, "save") /\ work[w].at = "attempt"
      /\ work[w].at \notin Waiting \cup {"save"}
  BY DEF IInv, At, Waiting
<1>2. /\ on' = on /\ refs' = refs /\ client' = client /\ UNCHANGED streams /\ seen' = seen
      /\ UNCHANGED history /\ tried' = tried /\ dropped' = dropped
  BY DEF history
<1>3. Beside
  BY <1>1, <1>2, BesideSame DEF Beside
<1>4. Registered' /\ OnlySeenDropped'
  BY <1>2, SameEntries
<1>5. Grown
  BY <1>1, <1>2, NoItemStep
<1>6. Continues(w) /\ latest' = latest /\ (Leave(w) \/ GoesOnAfter(w))
  BY <1>1, <1>2, <1>5, Failed
<1>7. CASE Leave(w)
  BY <1>1, <1>2, <1>3, <1>4, <1>7, LeaveStep
<1>8. CASE GoesOnAfter(w)
  <2>1. work[w].h.does = "alert" => work'[w].doing = work[w].doing
    BY <1>8 DEF GoesOnAfter
  <2>2. /\ work'[w] # Idle /\ work'[w].at = "attempt" /\ work'[w].ref = work[w].ref
        /\ work[w].h.via = "client" =>
             work'[w].met = work[w].met /\ \E h \in on : work'[w].tries < h.attempts
    BY <1>8 DEF GoesOnAfter
  <2>3. ASSUME NEW slot \in SlotsOf(w), work'[w].doing = "create" \/ work'[w].doing = "post"
        PROVE  \/ work[w].doing = "create" \/ work[w].doing = "post"
               \/ ItemsOf(slot) = {}
               \/ Excused(slot, {"overlap", "elsewhere", "forgot", "edit failed", "repeated"})'
    BY <1>8, <2>3 DEF GoesOnAfter
  <2> QED
    BY <1>1, <1>2, <1>3, <1>4, <1>6, <2>1, <2>2, <2>3, GoStep
<1> QED
  BY <1>6, <1>7, <1>8

\* An attempt that has its effect and is reported failed.
LEMMA LateStep ==
  ASSUME IInv, NEW w \in Workers, At(w, "attempt"), Accepted(w), items' = Effect(w),
         UNCHANGED <<on, refs, seen, client, streams, history>>, faults' \in Nat, Retry(w),
         Excuse(SlotsOf(w), IF work[w].doing = "edit" THEN "edit failed" ELSE "repeated")
  PROVE  IInv'
<1>1. /\ TypeOK /\ ~At(w, "idle") /\ ~At(w, "save") /\ work[w].at = "attempt"
      /\ work[w].at \notin Waiting \cup {"save"} /\ work[w].at \notin Waiting
  BY DEF IInv, At, Waiting
<1>2. /\ on' = on /\ refs' = refs /\ client' = client /\ UNCHANGED streams /\ seen' = seen
      /\ UNCHANGED history /\ tried' = tried /\ dropped' = dropped
  BY DEF history
<1>3. excused \subseteq excused' /\ \A slot \in SlotsOf(w) :
        <<slot, IF work[w].doing = "edit" THEN "edit failed" ELSE "repeated">> \in excused'
  BY DEF Excuse
<1>4. Beside
  BY <1>1, <1>2, <1>3, BesideSame DEF Beside
<1>5. Registered' /\ OnlySeenDropped'
  BY <1>2, SameEntries
<1>6. IsHandler(work[w].h) /\ work[w].doing \in RequestsOf(work[w].h) /\ w \in Busy
  BY <1>1, InsideFacts, CallOf DEF Busy
<1>7. ItemStep(w)
  <2>1. items' = items => ItemStep(w)
    BY <1>1, <1>2, NoItemStep
  <2>2. (\E x : Adds(w, x)) \/ (\E i : Shows(w, i)) \/ Resolves(w) \/ items' = items
    BY <1>1, <1>2, <1>6, EffectIs, Doings
  <2> QED
    BY <2>1, <2>2 DEF Adds, Shows, Resolves
<1>8. Grown
  BY <1>7 DEF ItemStep
<1>9. Continues(w) /\ latest' = latest /\ (Leave(w) \/ GoesOnAfter(w))
  BY <1>1, <1>2, <1>8, Failed
<1>10. Own(w)
  <2>1. RefsOK' /\ \A b \in Builds, slot \in Slots : refs'[b][slot] = refs[b][slot]
    BY <1>1, <1>2, <1>8, RefsStay
  <2> QED
    BY <1>1, <1>2, <1>4, <1>7, <1>9, <2>1, OwnBy
<1>11. work'[w] # Idle =>
         /\ work'[w].at = "attempt" /\ work'[w].ref = work[w].ref
         /\ work[w].h.does = "alert" => work'[w].doing = work[w].doing
         /\ work[w].h.via = "client" =>
              work'[w].met = work[w].met /\ \E h \in on : work'[w].tries < h.attempts
  <2>1. Leave(w) => work'[w] = Idle
    BY <1>1, Ended
  <2> QED
    BY <1>9, <2>1 DEF GoesOnAfter
<1>12. ASSUME NEW slot \in SlotsOf(w)
       PROVE  ToldOnce(slot)' /\ OneRef(slot)' /\ OneMessage(slot)' /\ Hanging(slot)' /\ Stands(slot)'
  <2>1. HandlerOf(slot[1])' = work[w].h
    BY <1>1, <1>10, OwnSlot
  <2>2. work[w].doing # "edit" => Excused(slot, {"store", "repeated"})'
    BY <1>3 DEF Excused
  <2>3. work[w].doing = "edit" => work[w].h.does \in {"upsert", "repost"}
    BY <1>6, Doings
  <2>4. ToldOnce(slot)'
    BY <2>1, <2>2, <2>3 DEF ToldOnce
  <2>5. OneRef(slot)'
    BY <1>1, <1>2, <1>10, <1>11, QuietOneRef
  <2>6. Excused(slot, {"overlap", "elsewhere", "forgot", "edit failed", "repeated"})'
    BY <1>3 DEF Excused
  <2>7. OneMessage(slot)'
    BY <2>6 DEF OneMessage
  <2>8. work[w].doing # "edit" => Excused(slot, {"overlap", "elsewhere", "forgot", "repeated"})'
    BY <1>3 DEF Excused
  <2>9. Hanging(slot)'
    BY <2>1, <2>3, <2>8 DEF Hanging
  <2>10. Stands(slot)'
    BY <1>1, <1>9, OwnSilent
  <2> QED
    BY <2>4, <2>5, <2>7, <2>9, <2>10
<1>13. PolicyFound' /\ OwnPolicy' /\ Detached'
  BY <1>1, <1>2, <1>10, <1>11, SamePolicy, SameStreams
<1>14. work'[w] # Idle => Knows(w)'
  <2>1. Knows(w)
    BY <1>6 DEF IInv
  <2>2. work'[w] # Idle => work'[w].h = work[w].h /\ work'[w].event = work[w].event
    BY <1>9 DEF Continues
  <2> QED
    BY <1>1, <1>11, <2>1, <2>2 DEF Knows, At, Waiting
<1> QED
  BY <1>1, <1>5, <1>10, <1>12, <1>13, <1>14, OwnStep

-----------------------------------------------------------------------------
(* Attempts that get through.                                              *)

\* A new item is one more of each of its slots, and shows the event.
LEMMA AddsViews ==
  ASSUME TypeOK, NEW w \in Workers, ~At(w, "idle"), on' = on, NEW slot \in SlotsOf(w),
         NEW x, Adds(w, x), NEW n, n = Len(items) + 1
  PROVE  /\ AllOf(slot)' = AllOf(slot) \cup {n} /\ ItemsOf(slot)' = ItemsOf(slot) \cup {n}
         /\ n \notin AllOf(slot) /\ n \in Live'
         /\ \A i \in AllOf(slot) : items'[i] = items[i] /\ i < n /\ i \in Nat
         /\ items'[n] = x /\ x.of = work[w].event
         /\ x.about[slot[2]] = work[w].h.words[work[w].event[slot[2]]]
<1>1. /\ n \notin DOMAIN items /\ DOMAIN items' = DOMAIN items \cup {n} /\ items'[n] = x
      /\ \A i \in DOMAIN items : i < n /\ i \in Nat /\ items'[i] = items[i]
      /\ x.by = work[w].h.id /\ x.of = work[w].event /\ x.is = "open" /\ x.about = About(w)
  BY DEF Adds
<1>2. slot[1] = work[w].h.id /\ slot[2] \in DOMAIN work[w].event
  BY SlotsOfCall
<1>3. AllOf(slot)' = AllOf(slot) \cup {n} /\ n \notin AllOf(slot)
  BY <1>1, <1>2 DEF AllOf
<1>4. Live' = Live \cup {n}
  BY <1>1 DEF Live
<1>5. ItemsOf(slot)' = ItemsOf(slot) \cup {n}
  <2>1. \A i \in Live : items'[i] = items[i]
    BY <1>1 DEF Live
  <2> QED
    BY <1>1, <1>2, <1>4, <2>1 DEF ItemsOf
<1>6. x.about[slot[2]] = work[w].h.words[work[w].event[slot[2]]]
  BY <1>1, <1>2 DEF About
<1> QED
  BY <1>1, <1>3, <1>4, <1>5, <1>6 DEF AllOf

\* An item that is rewritten is still one of its slot, and shows the event.
LEMMA ShowsViews ==
  ASSUME TypeOK, NEW w \in Workers, ~At(w, "idle"), on' = on, NEW slot \in SlotsOf(w),
         NEW i, Shows(w, i)
  PROVE  /\ ItemsOf(slot)' = ItemsOf(slot)
         /\ i \in Live => i \in ItemsOf(slot)
         /\ \A j \in ItemsOf(slot) : items'[j].is = items[j].is
         /\ items'[i].about[slot[2]] = work[w].h.words[work[w].event[slot[2]]]
<1>1. /\ i \in DOMAIN items /\ items[i].by = work[w].h.id /\ DOMAIN items[i].of = DOMAIN work[w].event
      /\ DOMAIN items' = DOMAIN items /\ items'[i].about = About(w)
      /\ \A j \in DOMAIN items : /\ items'[j].is = items[j].is
                                 /\ items'[j].by = items[j].by /\ items'[j].of = items[j].of
  BY DEF Shows
<1>2. slot[1] = work[w].h.id /\ slot[2] \in DOMAIN work[w].event
  BY SlotsOfCall
<1>3. Live' = Live
  BY <1>1 DEF Live
<1>4. ItemsOf(slot)' = ItemsOf(slot)
  <2>1. \A j \in Live : items'[j].by = items[j].by /\ items'[j].of = items[j].of
    BY <1>1 DEF Live
  <2> QED
    BY <1>3, <2>1 DEF ItemsOf
<1>5. i \in Live => i \in ItemsOf(slot)
  BY <1>1, <1>2 DEF ItemsOf
<1>6. items'[i].about[slot[2]] = work[w].h.words[work[w].event[slot[2]]]
  BY <1>1, <1>2 DEF About
<1>7. \A j \in ItemsOf(slot) : items'[j].is = items[j].is
  BY <1>1 DEF ItemsOf, Live
<1> QED
  BY <1>4, <1>5, <1>6, <1>7

\* The request that completes an event.
Completes(w) ==
  /\ work[w].doing # "release"
  /\ work[w].doing = "post" => work[w].h.does \notin Keepers
  /\ work[w].doing # "list"
  /\ work[w].doing = "search" => Mine(w) # {}

\* What is reported then is told.
LEMMA CompleteTells ==
  ASSUME IInv, NEW w \in Workers, At(w, "attempt"), Accepted(w), items' = Effect(w), Completes(w),
         Own(w), excused' = excused, NEW slot \in SlotsOf(w), "run" \notin work[w].met,
         latest'[slot] = work[w].event[slot[2]]
  PROVE  Tells(slot)'
<1>1. /\ TypeOK /\ ~At(w, "idle") /\ work[w].at = "attempt" /\ work[w].at \notin Waiting /\ on' = on
      /\ w \in Busy
  BY DEF IInv, At, Waiting, Own, Busy
<1>2. /\ work[w].doing \in RequestsOf(work[w].h) /\ IsHandler(work[w].h)
      /\ work[w].at \in Procedure(work[w].h)
  BY <1>1, InsideFacts, CallOf
<1>3. PICK h, s : h = work[w].h /\ s = work[w].event[slot[2]]
  OBVIOUS
<1>4. /\ HandlerOf(slot[1])' = h /\ latest'[slot] = s /\ slot \in Slots
      /\ slot[2] \in DOMAIN work[w].event
  BY <1>1, <1>3, OwnSlot, SlotsOfCall
<1>5. /\ h.does # "each" /\ h.does \in Ways
  BY <1>1, <1>2, <1>3, RequestFacts DEF IsHandler
<1>6. h.does = "alert" => work[w].doing = h.acts[s]
  BY <1>1, <1>3, <1>4 DEF IInv, Knows, At
<1>7. h.does # "flush" => Mine(w) = ItemsOf(slot)
  BY <1>1, <1>3, MineIs
<1>8. ASSUME NEW x, Adds(w, x)
      PROVE  /\ \E i \in Showing(slot)' : items'[i] = x /\ x.is = "open"
             /\ \E i \in ItemsOf(slot)' : items'[i] = x /\ x.is = "open"
  <2>1. PICK n : n = Len(items) + 1
    OBVIOUS
  <2>2. /\ n \in ItemsOf(slot)' /\ items'[n] = x /\ x.about[slot[2]] = h.words[s]
    BY <1>1, <1>3, <1>8, <2>1, AddsViews
  <2>3. n \in Showing(slot)' /\ x.is = "open"
    BY <1>4, <1>8, <2>2 DEF Showing, Adds
  <2> QED
    BY <2>2, <2>3
<1>9. ASSUME NEW i, Shows(w, i), i \in Live
      PROVE  i \in Showing(slot)' /\ i \in ItemsOf(slot)' /\ ItemsOf(slot)' = ItemsOf(slot)
             /\ items'[i].is = items[i].is
  <2>1. /\ ItemsOf(slot)' = ItemsOf(slot) /\ i \in ItemsOf(slot)
        /\ items'[i].about[slot[2]] = h.words[s] /\ items'[i].is = items[i].is
    BY <1>1, <1>3, <1>9, ShowsViews
  <2> QED
    BY <1>4, <2>1 DEF Showing
<1>10. CASE h.does = "alert"
  <2>1. CASE work[w].doing = "trigger"
    <3>1. \E i \in ItemsOf(slot)' : items'[i].is = "open"
      <4>1. CASE \E x : Adds(w, x)
        BY <1>8, <4>1
      <4>2. CASE \E i \in OpenAlerts(w) : Shows(w, i)
        <5>1. PICK i \in OpenAlerts(w) : Shows(w, i)
          BY <4>2
        <5>2. i \in Live /\ items[i].is = "open"
          BY <1>7, <1>10 DEF OpenAlerts, ItemsOf
        <5> QED
          BY <1>9, <5>1, <5>2
      <4> QED
        BY <1>1, <2>1, <4>1, <4>2, EffectIs
    <3> QED
      BY <1>4, <1>6, <1>10, <2>1, <3>1 DEF Tells, Keepers
  <2>2. CASE work[w].doing = "resolve"
    <3>1. Resolves(w)
      BY <1>1, <2>2, EffectIs
    <3>2. ASSUME NEW i \in ItemsOf(slot)'
          PROVE  items'[i].is # "open"
      <4>1. /\ i \in DOMAIN items' /\ items'[i].is # "deleted" /\ items'[i].by = slot[1]
            /\ slot[2] \in DOMAIN items'[i].of
        BY <3>2 DEF ItemsOf, Live
      <4>2. /\ i \in DOMAIN items /\ items'[i].is = (IF i \in Mine(w) THEN "resolved" ELSE items[i].is)
            /\ items'[i].by = items[i].by /\ items'[i].of = items[i].of
        BY <3>1, <4>1 DEF Resolves
      <4>3. i \in Mine(w)
        BY <1>7, <1>10, <4>1, <4>2 DEF ItemsOf, Live
      <4> QED
        BY <4>2, <4>3
    <3> QED
      BY <1>4, <1>6, <1>10, <2>2, <3>2 DEF Tells, Keepers
  <2>3. CASE work[w].doing = "acknowledge"
    BY <1>4, <1>6, <1>10, <2>3 DEF Tells, Keepers
  <2> QED
    BY <1>2, <1>3, <1>10, <2>1, <2>2, <2>3, Doings DEF Keepers
<1>11. CASE h.does \in {"declare", "issue", "move"}
  <2>1. ItemsOf(slot)' # {}
    <3>1. CASE \E x : Adds(w, x)
      BY <1>8, <3>1
    <3>2. CASE Mine(w) # {} /\ items' = items
      <4>1. ItemsOf(slot)' = ItemsOf(slot)
        BY <1>1, <3>2, QuietViews
      <4> QED
        BY <1>7, <1>11, <3>2, <4>1
    <3>3. work[w].doing \in {"declare", "move", "search", "create"}
      BY <1>2, <1>3, <1>11, Doings DEF Completes, Keepers
    <3> QED
      BY <1>1, <3>1, <3>2, <3>3, EffectIs DEF Completes
  <2> QED
    BY <1>4, <1>11, <2>1 DEF Tells, Keepers
<1>12. CASE h.does = "release"
  <2>1. work[w].doing = "deploy"
    BY <1>2, <1>3, <1>12, Doings DEF Completes
  <2>2. PICK x : Adds(w, x) /\ x.kind = "deploy"
    BY <1>1, <2>1, EffectIs
  <2>3. \E i \in ItemsOf(slot)' : items'[i].kind = "deploy"
    BY <1>8, <2>2
  <2> QED
    BY <1>4, <1>12, <2>3 DEF Tells, Keepers
<1>13. CASE h.does \in {"post", "flush", "link", "stream", "thread", "mail"}
  <2>1. Showing(slot)' # {}
    <3>1. CASE \E x : Adds(w, x)
      BY <1>8, <3>1
    <3>2. CASE \E i \in Mine(w) : Shows(w, i) /\ h.does # "flush"
      <4>1. PICK i \in Mine(w) : Shows(w, i) /\ h.does # "flush"
        BY <3>2
      <4>2. i \in Live
        BY <1>7, <4>1 DEF ItemsOf
      <4> QED
        BY <1>9, <4>1, <4>2
    <3>3. work[w].doing \in {"post", "link", "publish"} /\ (work[w].doing = "link" => h.does # "flush")
      BY <1>2, <1>3, <1>13, Doings
    <3> QED
      BY <1>1, <3>1, <3>2, <3>3, EffectIs
  <2> QED
    BY <1>4, <1>13, <2>1 DEF Tells, Keepers
<1>14. CASE h.does \in {"upsert", "repost"}
  <2>1. work[w].doing = "edit"
    BY <1>2, <1>3, <1>14, Doings DEF Completes, Keepers
  <2>2. Shows(w, work[w].ref) /\ work[w].ref \in Live
    BY <1>1, <2>1, EffectIs DEF Accepted
  <2>3. work[w].ref \in Showing(slot)' /\ work[w].ref \in ItemsOf(slot)' /\ ItemsOf(slot)' = ItemsOf(slot)
    BY <1>9, <2>2
  <2>4. \/ Showing(slot)' = ItemsOf(slot)'
        \/ Excused(slot, {"overlap", "elsewhere", "forgot", "edit failed", "repeated"})'
    <3>1. SUFFICES ASSUME ~Excused(slot, {"overlap", "elsewhere", "forgot", "edit failed", "repeated"})'
                   PROVE  Showing(slot)' = ItemsOf(slot)'
      OBVIOUS
    <3>2. ~Excused(slot, {"overlap", "elsewhere", "forgot", "edit failed", "repeated"})
      BY <3>1 DEF Excused
    <3>3. HandlerOf(slot[1]) = h
      BY <1>1, <1>3, OwnSlot
    <3>4. \A i, j \in ItemsOf(slot) : i = j
      BY <1>4, <1>14, <3>2, <3>3 DEF IInv, OneMessage
    <3> QED
      BY <2>3, <3>4 DEF Showing
  <2> QED
    BY <1>4, <1>14, <2>3, <2>4 DEF Tells, Keepers
<1> QED
  BY <1>5, <1>10, <1>11, <1>12, <1>13, <1>14 DEF Ways

\* The request is the last one, or the first of two.
LEMMA DoneStep ==
  ASSUME IInv, NEW w \in Workers, At(w, "attempt"), Accepted(w), items' = Effect(w),
         UNCHANGED <<on, refs, seen, client, streams, history, excused, faults>>,
         \/ Completes(w) /\ Return(w)
         \/ work[w].doing = "release" /\ Request(w, "deploy")
  PROVE  IInv'
<1>1. /\ TypeOK /\ ~At(w, "idle") /\ ~At(w, "save") /\ work[w].at = "attempt"
      /\ work[w].at \notin Waiting \cup {"save"} /\ work[w].at \notin Waiting
  BY DEF IInv, At, Waiting
<1>2. /\ on' = on /\ refs' = refs /\ client' = client /\ UNCHANGED streams /\ seen' = seen
      /\ UNCHANGED history /\ tried' = tried /\ dropped' = dropped /\ excused' = excused
      /\ faults' = faults
  BY DEF history
<1>3. Beside
  BY <1>1, <1>2, BesideSame DEF Beside
<1>4. Registered' /\ OnlySeenDropped'
  BY <1>2, SameEntries
<1>5. /\ IsHandler(work[w].h) /\ work[w].doing \in RequestsOf(work[w].h) /\ w \in Busy
      /\ work[w].at \in Procedure(work[w].h)
  BY <1>1, InsideFacts, CallOf DEF Busy
<1>6. ItemStep(w)
  <2>1. items' = items => ItemStep(w)
    BY <1>1, <1>2, NoItemStep
  <2>2. (\E x : Adds(w, x)) \/ (\E i : Shows(w, i)) \/ Resolves(w) \/ items' = items
    BY <1>1, <1>2, <1>5, EffectIs, Doings
  <2> QED
    BY <2>1, <2>2 DEF Adds, Shows, Resolves
<1>7. Grown
  BY <1>6 DEF ItemStep
<1>8. \/ /\ Completes(w) /\ Return(w) /\ Continues(w) /\ work'[w] = Idle /\ Reports(w)
      \/ /\ work[w].doing = "release" /\ work[w].h.does = "release" /\ Continues(w) /\ latest' = latest
         /\ work'[w] # Idle
         /\ work'[w].at = (IF work[w].h.via = "client" THEN "policy" ELSE "attempt")
         /\ work'[w].h = work[w].h
  <2>1. CASE Completes(w) /\ Return(w)
    BY <1>1, <2>1, Ended
  <2>2. CASE work[w].doing = "release" /\ Request(w, "deploy")
    <3>1. work[w].h.does = "release"
      BY <1>5, <2>2, Doings
    <3>2. PICK doing : doing = "deploy"
      OBVIOUS
    <3>3. doing \in RequestsOf(work[w].h) /\ doing # "edit"
      BY <3>1, <3>2 DEF RequestsOf
    <3>4. Request(w, doing)
      BY <2>2, <3>2
    <3> QED
      BY <1>1, <1>2, <1>7, <2>2, <3>1, <3>3, <3>4, Requested
  <2> QED
    BY <2>1, <2>2
<1>9. Own(w)
  <2>1. RefsOK' /\ \A b \in Builds, slot \in Slots : refs'[b][slot] = refs[b][slot]
    BY <1>1, <1>2, <1>7, RefsStay
  <2> QED
    BY <1>1, <1>2, <1>3, <1>6, <1>8, <2>1, OwnBy
<1>10. work[w].h.does # "release" => Completes(w) /\ work'[w] = Idle /\ Reports(w)
  BY <1>8
<1>11. ASSUME NEW slot \in SlotsOf(w)
       PROVE  ToldOnce(slot)' /\ OneRef(slot)' /\ OneMessage(slot)' /\ Hanging(slot)' /\ Stands(slot)'
  <2>1. /\ HandlerOf(slot[1])' = work[w].h /\ slot \in Slots /\ HandlerOf(slot[1]) = work[w].h
        /\ w \in CallsOf(slot) /\ w \in Inside(slot)
    BY <1>1, <1>9, OwnSlot DEF Inside
  <2>2. \A reasons : Excused(slot, reasons)' <=> Excused(slot, reasons)
    BY <1>2 DEF Excused
  <2>3. ToldOnce(slot)'
    <3>1. SUFFICES ASSUME work[w].h.does = "post", work[w].h.store = "shared",
                          ~Excused(slot, {"store", "repeated"})
                   PROVE  ToldOnce(slot)'
      BY <2>1, <2>2 DEF ToldOnce
    <3>2. work[w].doing = "post" /\ work'[w] = Idle
      BY <1>5, <1>10, <3>1, Doings
    <3>3. PICK x : Adds(w, x)
      BY <1>1, <1>2, <3>2, EffectIs
    <3>4. PICK n : n = Len(items) + 1
      OBVIOUS
    <3>5. /\ AllOf(slot)' = AllOf(slot) \cup {n} /\ \A i \in AllOf(slot) : items'[i] = items[i]
          /\ items'[n].of = work[w].event
      BY <1>1, <1>2, <3>3, <3>4, AddsViews
    <3>6. PICK h, ev : h = work[w].h /\ ev = work[w].event
      OBVIOUS
    <3>7. /\ \A i \in AllOf(slot) : <<"shared", h.name, items[i].of>> \in seen
          /\ \A i, j \in AllOf(slot) : items[i].of = items[j].of => i = j
          /\ \A v \in Inside(slot) :
               /\ <<"shared", h.name, work[v].event>> \in seen
               /\ \A i \in AllOf(slot) : items[i].of # work[v].event
               /\ \A u \in Inside(slot) : work[u].event = work[v].event => u = v
      BY <2>1, <3>1, <3>6 DEF IInv, ToldOnce
    <3>8. /\ <<"shared", h.name, ev>> \in seen
          /\ \A i \in AllOf(slot) : items[i].of # ev
          /\ \A u \in Inside(slot) : work[u].event = ev => u = w
      BY <2>1, <3>6, <3>7
    <3>9. \A v \in Inside(slot)' : v \in Inside(slot) /\ v # w /\ work'[v].event = work[v].event
      <4>1. \A v \in CallsOf(slot)' : v \in CallsOf(slot) /\ v # w
        BY <1>1, <1>9, <3>2, OwnSlot
      <4>2. \A v \in CallsOf(slot) \ {w} : Alike(work[v], work'[v])
        BY <1>1, <1>9, OwnSlot
      <4> QED
        BY <4>1, <4>2 DEF Inside, Alike
    <3>10. \A i \in AllOf(slot)' : <<"shared", h.name, items'[i].of>> \in seen
      BY <3>5, <3>6, <3>7, <3>8
    <3>11. \A i, j \in AllOf(slot)' : items'[i].of = items'[j].of => i = j
      BY <3>5, <3>6, <3>7, <3>8
    <3>12. ASSUME NEW v \in Inside(slot)'
           PROVE  /\ <<"shared", h.name, work'[v].event>> \in seen
                  /\ \A i \in AllOf(slot)' : items'[i].of # work'[v].event
                  /\ \A u \in Inside(slot)' : work'[u].event = work'[v].event => u = v
      <4>1. v \in Inside(slot) /\ work'[v].event = work[v].event /\ work[v].event # ev
        BY <3>8, <3>9
      <4> QED
        BY <3>5, <3>6, <3>7, <3>9, <4>1
    <3> QED
      BY <1>2, <2>1, <3>6, <3>10, <3>11, <3>12 DEF ToldOnce
  <2>4. OneRef(slot)'
    BY <1>1, <1>2, <1>9, <1>10, QuietOneRef DEF Keepers
  <2>5. OneMessage(slot)'
    <3>1. SUFFICES ASSUME work[w].h.does \in {"upsert", "repost", "issue"},
                          ~Excused(slot, {"overlap", "elsewhere", "forgot", "edit failed", "repeated"})
                   PROVE  OneMessage(slot)'
      BY <2>1, <2>2 DEF OneMessage
    <3>2. Completes(w) /\ work'[w] = Idle
      BY <1>10, <3>1
    <3>3. ~Excused(slot, {"overlap"})
      BY <3>1 DEF Excused
    <3>4. CallsOf(slot) = {w} /\ CallsOf(slot)' = {} /\ Inside(slot)' = {}
      BY <1>1, <1>9, <3>2, <3>3, Alone DEF Inside
    <3>5. /\ \A i, j \in ItemsOf(slot) : i = j
          /\ work[w].h.does # "issue" =>
               \A i \in ItemsOf(slot) :
                 \/ \E b \in Builds : refs[b][slot] = i
                 \/ \E v \in CallsOf(slot) : At(v, "save") /\ work[v].ref = i
          /\ work[w].doing = "create" => ItemsOf(slot) = {}
      BY <2>1, <3>1 DEF IInv, OneMessage
    <3>6. CASE work[w].doing = "edit" /\ work[w].h.does # "issue"
      <4>1. ItemsOf(slot)' = ItemsOf(slot)
        BY <1>1, <1>2, <3>6, EffectIs, ShowsViews
      <4>2. \A i \in ItemsOf(slot)' : \E b \in Builds : refs'[b][slot] = i
        BY <1>1, <1>2, <3>4, <3>5, <3>6, <4>1
      <4> QED
        BY <3>4, <3>5, <4>1, <4>2 DEF OneMessage
    <3>7. CASE work[w].doing = "search" /\ work[w].h.does = "issue"
      <4>1. ItemsOf(slot)' = ItemsOf(slot)
        BY <1>1, <1>2, <3>7, EffectIs, QuietViews
      <4> QED
        BY <2>1, <3>4, <3>5, <3>7, <4>1 DEF OneMessage
    <3>8. CASE work[w].doing = "create" /\ work[w].h.does = "issue"
      <4>1. PICK x : Adds(w, x)
        BY <1>1, <1>2, <3>8, EffectIs
      <4>2. PICK n : n = Len(items) + 1
        OBVIOUS
      <4>3. ItemsOf(slot)' = {n}
        BY <1>1, <1>2, <3>5, <3>8, <4>1, <4>2, AddsViews
      <4> QED
        BY <2>1, <3>4, <3>8, <4>3 DEF OneMessage
    <3> QED
      BY <1>5, <3>1, <3>2, <3>6, <3>7, <3>8, Doings DEF Completes, Keepers
  <2>6. Hanging(slot)'
    <3>1. work[w].h.does \notin {"thread", "mail"}
      BY <1>5, <1>10, Doings DEF Completes, Keepers
    <3> QED
      BY <2>1, <3>1 DEF Hanging
  <2>7. Stands(slot)'
    <3>1. CASE Completes(w) /\ Reports(w)
      <4>1. SUFFICES ASSUME latest'[slot] # "none"
                     PROVE  Tells(slot)'
        BY DEF Stands
      <4>2. "run" \notin work[w].met /\ latest'[slot] = work[w].event[slot[2]]
        BY <1>1, <3>1, <4>1, Reporting
      <4> QED
        BY <1>2, <1>9, <3>1, <4>2, CompleteTells
    <3>2. CASE latest' = latest
      BY <1>1, <3>2, OwnSilent
    <3> QED
      BY <1>8, <3>1, <3>2
  <2> QED
    BY <2>3, <2>4, <2>5, <2>6, <2>7
<1>12. PolicyFound' /\ OwnPolicy' /\ Detached'
  BY <1>1, <1>2, <1>8, <1>9, SamePolicy, SameStreams
<1>13. work'[w] # Idle => Knows(w)'
  BY <1>8 DEF Knows, At
<1> QED
  BY <1>1, <1>4, <1>9, <1>11, <1>12, <1>13, OwnStep

\* A message has been posted whose reference is to be kept.
LEMMA PostStep ==
  ASSUME IInv, NEW w \in Workers, At(w, "attempt"), Accepted(w), items' = Effect(w),
         UNCHANGED <<on, refs, seen, client, streams, history, excused, faults>>,
         work[w].doing = "post", work[w].h.does \in Keepers,
         Goto(w, [work[w] EXCEPT !.at = "save", !.ref = Len(items) + 1])
  PROVE  IInv'
<1>1. /\ TypeOK /\ ~At(w, "idle") /\ ~At(w, "save") /\ work[w].at = "attempt"
      /\ work[w].at \notin Waiting \cup {"save"} /\ work[w].at \notin Waiting
  BY DEF IInv, At, Waiting
<1>2. /\ on' = on /\ refs' = refs /\ client' = client /\ UNCHANGED streams /\ seen' = seen
      /\ UNCHANGED history /\ tried' = tried /\ dropped' = dropped /\ excused' = excused
      /\ faults' = faults /\ latest' = latest
  BY DEF history, Goto
<1>3. Beside
  BY <1>1, <1>2, BesideSame DEF Beside
<1>4. Registered' /\ OnlySeenDropped'
  BY <1>2, SameEntries
<1>5. /\ work[w] \in Calls /\ IsHandler(work[w].h) /\ work[w].build \in Builds /\ work[w].ref \in Nat
      /\ work[w].tries \in Nat /\ work[w].met \in SUBSET {"run", "client"} /\ w \in Busy
      /\ work[w].doing \in Requests
  BY <1>1, CallOf DEF Busy
<1>6. /\ work[w].doing \in RequestsOf(work[w].h) /\ "save" \in Procedure(work[w].h)
      /\ \A r \in DOMAIN work[w].event : Wanted(work[w].h, work[w].event[r])
  BY <1>1, <1>5, InsideFacts, RequestFacts
<1>7. PICK n, at : n = Len(items) + 1 /\ at = "save"
  OBVIOUS
<1>8. PICK x : Adds(w, x) /\ x.to = IF work[w].h.does \in {"thread", "mail"} THEN work[w].ref ELSE 0
  BY <1>1, <1>2, EffectIs
<1>9. /\ ItemStep(w) /\ Grown /\ n \in Nat /\ n # 0 /\ n \in DOMAIN items' /\ items'[n] = x
      /\ x.by = work[w].h.id /\ x.of = work[w].event /\ x.about = About(w) /\ x.is = "open"
  BY <1>7, <1>8 DEF Adds, ItemStep
<1>10. PICK c : c = [work[w] EXCEPT !.at = at, !.ref = n]
  OBVIOUS
<1>11. c = Call(work[w], at, work[w].doing, n, work[w].tries, work[w].met)
  BY <1>5, <1>10, RewrittenAnswer
<1>12. c \in Calls
  <2>1. at \in Steps
    BY <1>7 DEF Steps
  <2> QED
    BY <1>5, <1>9, <1>11, <2>1, CallFields
<1>13. /\ work' \in [Workers -> Calls \cup {Idle}] /\ work'[w] = c
       /\ \A v \in Workers \ {w} : Kept(v)
  <2>1. work' = [work EXCEPT ![w] = c]
    BY <1>7, <1>10 DEF Goto
  <2> QED
    BY <1>1, <1>12, <2>1, Became
<1>14. Fits(w, at, work[w].doing, n, work[w].tries)
  BY <1>6, <1>7, <1>9 DEF Fits, Waiting
<1>15. /\ Continues(w) /\ GoesOn(w, at, work[w].doing, n, work[w].tries, work[w].met)
       /\ work'[w] # Idle
  BY <1>1, <1>2, <1>5, <1>9, <1>11, <1>13, <1>14, Went
<1>16. /\ work'[w].at = "save" /\ work'[w].ref = n /\ work'[w].doing = "post"
       /\ work'[w].h = work[w].h /\ work'[w].event = work[w].event /\ work'[w].build = work[w].build
  BY <1>7, <1>15 DEF GoesOn
<1>17. Own(w)
  <2>1. RefsOK' /\ \A b \in Builds, slot \in Slots : refs'[b][slot] = refs[b][slot]
    BY <1>1, <1>2, <1>9, RefsStay
  <2> QED
    BY <1>1, <1>2, <1>3, <1>9, <1>15, <2>1, OwnBy
<1>18. ASSUME NEW slot \in SlotsOf(w)
       PROVE  ToldOnce(slot)' /\ OneRef(slot)' /\ OneMessage(slot)' /\ Hanging(slot)' /\ Stands(slot)'
  <2>1. /\ HandlerOf(slot[1])' = work[w].h /\ slot \in Slots /\ HandlerOf(slot[1]) = work[w].h
        /\ w \in CallsOf(slot) /\ w \in Inside(slot) /\ w \in CallsOf(slot)'
    BY <1>1, <1>15, <1>17, OwnSlot DEF Inside
  <2>2. \A reasons : Excused(slot, reasons)' <=> Excused(slot, reasons)
    BY <1>2 DEF Excused
  <2>3. ToldOnce(slot)'
    BY <2>1 DEF ToldOnce, Keepers
  <2>4. OneRef(slot)'
    BY <1>1, <1>2, <1>16, <1>17, QuietOneRef
  <2>5. /\ AllOf(slot)' = AllOf(slot) \cup {n} /\ ItemsOf(slot)' = ItemsOf(slot) \cup {n}
        /\ n \notin AllOf(slot)
        /\ \A i \in AllOf(slot) : items'[i] = items[i] /\ i < n /\ i \in Nat
    BY <1>1, <1>2, <1>7, <1>8, AddsViews
  <2>6. ~Excused(slot, {"overlap"}) =>
          CallsOf(slot) = {w} /\ CallsOf(slot)' = {w} /\ Inside(slot)' \subseteq {w}
    BY <1>1, <1>15, <1>17, Alone
  <2>7. OneMessage(slot)'
    <3>1. SUFFICES ASSUME work[w].h.does \in {"upsert", "repost"},
                          ~Excused(slot, {"overlap", "elsewhere", "forgot", "edit failed", "repeated"})
                   PROVE  OneMessage(slot)'
      BY <2>1, <2>2 DEF OneMessage, Keepers
    <3>2. ~Excused(slot, {"overlap"})
      BY <3>1 DEF Excused
    <3>3. ItemsOf(slot) = {}
      BY <2>1, <3>1 DEF IInv, OneMessage
    <3>4. ItemsOf(slot)' = {n}
      BY <2>5, <3>3
    <3>5. CallsOf(slot)' = {w} /\ Inside(slot)' \subseteq {w} /\ At(w, "save")'
      BY <1>16, <2>6, <3>2 DEF At
    <3> QED
      BY <1>16, <3>4, <3>5 DEF OneMessage, At
  <2>8. Hanging(slot)'
    <3>1. SUFFICES ASSUME work[w].h.does \in {"thread", "mail"},
                          ~Excused(slot, {"overlap", "elsewhere", "forgot", "repeated"})
                   PROVE  Hanging(slot)'
      BY <2>1, <2>2 DEF Hanging
    <3>2. ~Excused(slot, {"overlap"}) /\ ~Excused(slot, {"overlap", "elsewhere", "forgot"})
      BY <3>1 DEF Excused
    <3>3. CallsOf(slot) = {w} /\ CallsOf(slot)' = {w}
      BY <2>6, <3>2
    <3>4. Replying(slot) /\ Referring(slot)
      BY <2>1, <3>1 DEF IInv, Hanging
    <3>5. PICK b \in Builds : b = work[w].build
      BY <1>5
    <3>6. work[w].h.does # "flush"
      BY <3>1
    <3>7. Ref(w) = refs[b][slot]
      BY <1>1, <3>5, <3>6, RefIs
    <3>8. /\ \A a \in Builds : refs[a][slot] # 0 => a = b
          /\ work[w].ref = refs[b][slot]
      BY <2>1, <3>2, <3>5, <3>7 DEF IInv, OneRef
    <3>9. x.to = refs[b][slot]
      BY <1>8, <3>1, <3>8
    <3>10. (IsMail(slot)' <=> IsMail(slot)) /\ (IsMail(slot) <=> work[w].h.does = "mail")
      BY <2>1 DEF IsMail
    <3>11. /\ \A i \in AllOf(slot) : items[i].to # 0 => items[i].to \in AllOf(slot)
           /\ \A a \in Builds : refs[a][slot] # 0 => refs[a][slot] \in AllOf(slot)
      BY <1>1, <2>1, RepliesOf, RefsOf
    <3>12. /\ AllOf(slot) # {} => refs[b][slot] # 0
           /\ ~IsMail(slot) => \A j \in AllOf(slot) : j <= refs[b][slot]
      <4>1. ~At(w, "save")
        BY <1>1
      <4> QED
        BY <3>3, <3>4, <3>8, <4>1 DEF Referring
    <3>13. IsMail(slot) /\ refs[b][slot] # 0 => items[refs[b][slot]].to = 0
      BY <3>4 DEF Referring
    <3>14. Replying(slot)'
      <4>1. ASSUME NEW i \in AllOf(slot)
            PROVE  /\ items'[i].to = 0 => \A j \in AllOf(slot)' : i <= j
                   /\ items'[i].to # 0 => IF IsMail(slot) THEN items'[items'[i].to].to = 0
                                          ELSE \A j \in AllOf(slot)' : j < i => j <= items'[i].to
        <5>1. items'[i] = items[i] /\ i < n /\ i \in Nat
          BY <2>5
        <5>2. items[i].to # 0 => items'[items[i].to] = items[items[i].to]
          BY <2>5, <3>11
        <5>3. /\ items[i].to = 0 => \A j \in AllOf(slot) : i <= j
              /\ items[i].to # 0 => IF IsMail(slot) THEN items[items[i].to].to = 0
                                    ELSE \A j \in AllOf(slot) : j < i => j <= items[i].to
          BY <3>4 DEF Replying
        <5> QED
          BY <1>9, <2>5, <5>1, <5>2, <5>3
      <4>2. /\ items'[n].to = 0 => \A j \in AllOf(slot)' : n <= j
            /\ items'[n].to # 0 => IF IsMail(slot) THEN items'[items'[n].to].to = 0
                                   ELSE \A j \in AllOf(slot)' : j < n => j <= items'[n].to
        <5>1. CASE refs[b][slot] = 0
          BY <1>9, <2>5, <3>9, <3>12, <5>1
        <5>2. CASE refs[b][slot] # 0
          <6>1. items'[refs[b][slot]] = items[refs[b][slot]]
            BY <2>5, <3>11, <5>2
          <6> QED
            BY <1>9, <2>5, <3>9, <3>12, <3>13, <5>2, <6>1
        <5> QED
          BY <5>1, <5>2
      <4> QED
        BY <2>5, <3>10, <4>1, <4>2 DEF Replying
    <3>15. Referring(slot)'
      <4>1. \A a \in Builds : IsMail(slot) /\ refs[a][slot] # 0 => items'[refs[a][slot]].to = 0
        BY <2>5, <3>4, <3>11 DEF Referring
      <4>2. At(w, "save")'
        BY <1>16 DEF At
      <4> QED
        BY <1>2, <2>1, <3>10, <4>1, <4>2 DEF Referring
    <3>16. Saving(slot)'
      <4>1. Ref(w)' = Ref(w)
        <5>1. TheRun(w)' = TheRun(w)
          BY <1>16 DEF TheRun
        <5> QED
          BY <1>2, <1>16, <5>1 DEF Ref
      <4>2. IsMail(slot) /\ Ref(w) = 0 => items'[n].to = 0
        BY <1>9, <3>7, <3>9
      <4>3. \A j \in AllOf(slot)' : j <= n
        BY <1>9, <2>5
      <4> QED
        BY <1>16, <3>3, <3>10, <4>1, <4>2, <4>3 DEF Saving
    <3> QED
      BY <3>14, <3>15, <3>16 DEF Hanging
  <2>9. Stands(slot)'
    BY <1>1, <1>2, OwnSilent
  <2> QED
    BY <2>3, <2>4, <2>7, <2>8, <2>9
<1>19. PolicyFound' /\ OwnPolicy' /\ Detached'
  BY <1>1, <1>2, <1>16, <1>17, SamePolicy, SameStreams
<1>20. Knows(w)'
  <2>1. n \in Live'
    BY <1>9 DEF Live
  <2>2. About(w)' = About(w)
    BY <1>16 DEF About
  <2>3. work'[w].h.does # "alert"
    BY <1>16 DEF Keepers
  <2> QED
    BY <1>9, <1>16, <2>1, <2>2, <2>3 DEF Knows
<1> QED
  BY <1>1, <1>4, <1>17, <1>18, <1>19, <1>20, OwnStep

\* The handler looks for an issue and finds none, or finds its transition.
LEMMA MissingStep ==
  ASSUME IInv, NEW w \in Workers, At(w, "attempt"), items' = items,
         UNCHANGED <<on, refs, seen, client, streams, history, excused, faults>>,
         \/ work[w].doing = "search" /\ Mine(w) = {} /\ Request(w, "create")
         \/ work[w].doing = "list" /\ Request(w, "move")
  PROVE  IInv'
<1>1. /\ TypeOK /\ ~At(w, "idle") /\ ~At(w, "save") /\ work[w].at = "attempt"
      /\ work[w].at \notin Waiting \cup {"save"} /\ work[w].at \notin Waiting
  BY DEF IInv, At, Waiting
<1>2. /\ on' = on /\ refs' = refs /\ client' = client /\ UNCHANGED streams /\ seen' = seen
      /\ UNCHANGED history /\ tried' = tried /\ dropped' = dropped /\ excused' = excused
      /\ faults' = faults
  BY DEF history
<1>3. Beside
  BY <1>1, <1>2, BesideSame DEF Beside
<1>4. Registered' /\ OnlySeenDropped'
  BY <1>2, SameEntries
<1>5. IsHandler(work[w].h) /\ work[w].doing \in RequestsOf(work[w].h)
  BY <1>1, InsideFacts, CallOf
<1>6. Grown
  BY <1>1, <1>2, NoItemStep
<1>7. PICK doing \in {"create", "move"} :
        /\ Request(w, doing)
        /\ work[w].doing = (IF doing = "create" THEN "search" ELSE "list")
        /\ doing = "create" => Mine(w) = {}
  <2>1. CASE work[w].doing = "search" /\ Mine(w) = {} /\ Request(w, "create")
    BY <2>1
  <2>2. CASE work[w].doing = "list" /\ Request(w, "move")
    BY <2>2
  <2> QED
    BY <2>1, <2>2
<1>8. work[w].h.does = IF doing = "create" THEN "issue" ELSE "move"
  BY <1>5, <1>7, Doings
<1>9. doing \in RequestsOf(work[w].h) /\ doing # "edit" /\ work[w].h.does # "each"
  BY <1>7, <1>8 DEF RequestsOf
<1>10. /\ Continues(w) /\ latest' = latest /\ work'[w] # Idle
       /\ work'[w].at = (IF work[w].h.via = "client" THEN "policy" ELSE "attempt")
       /\ work'[w].doing = doing
  BY <1>1, <1>2, <1>6, <1>7, <1>9, Requested
<1>11. doing = "create" => \A slot \in SlotsOf(w) : ItemsOf(slot) = {}
  BY <1>1, <1>7, <1>8, MineIs
<1> QED
  BY <1>1, <1>2, <1>3, <1>4, <1>8, <1>10, <1>11, GoStep DEF Keepers

\* The transition is not offered: the call is over, and its slot excused
\* unless the issue has been moved before.
LEMMA NotOfferedStep ==
  ASSUME IInv, NEW w \in Workers, At(w, "attempt"), NotOffered(w),
         UNCHANGED <<on, items, refs, seen, client, streams, history, faults>>
  PROVE  IInv'
<1>1. /\ TypeOK /\ ~At(w, "idle") /\ ~At(w, "save") /\ work[w].at = "attempt"
      /\ work[w].at \notin Waiting
  BY DEF IInv, At, Waiting
<1>2. /\ on' = on /\ items' = items /\ refs' = refs /\ client' = client /\ UNCHANGED streams
      /\ seen' = seen /\ UNCHANGED history /\ tried' = tried /\ dropped' = dropped
      /\ faults' = faults /\ Return(w)
  BY DEF history, NotOffered
<1>3. excused \subseteq excused' /\ (Mine(w) = {} => SlotsOf(w) \X {"not offered"} \subseteq excused')
  BY DEF NotOffered, Excuse
<1>4. Beside
  BY <1>1, <1>2, <1>3, BesideSame DEF Beside
<1>5. Registered' /\ OnlySeenDropped'
  BY <1>2, SameEntries
<1>6. work[w].h.does = "move"
  <2>1. IsHandler(work[w].h) /\ work[w].doing \in RequestsOf(work[w].h)
    BY <1>1, InsideFacts, CallOf
  <2> QED
    BY <2>1, Doings DEF NotOffered
<1>7. ASSUME NEW slot \in SlotsOf(w)
      PROVE  Stands(slot)'
  <2>1. HandlerOf(slot[1])' = work[w].h
    BY <1>1, <1>2, SlotsOfCall, SameHandlers
  <2>2. ItemsOf(slot)' = Mine(w)
    <3>1. ItemsOf(slot)' = ItemsOf(slot)
      BY <1>2 DEF ItemsOf, Live
    <3> QED
      BY <1>1, <1>6, <3>1, MineIs
  <2>3. ItemsOf(slot)' # {} \/ Excused(slot, {"not offered"})'
    BY <1>3, <2>2 DEF Excused
  <2> QED
    BY <1>6, <2>1, <2>3 DEF Stands, Tells, Keepers
<1> QED
  BY <1>1, <1>2, <1>4, <1>5, <1>7, LeaveStep

\* Every outcome of an attempt keeps the invariant.
LEMMA AttemptStep ==
  ASSUME IInv, NEW w \in Workers, Attempt(w)
  PROVE  IInv'
<1>1. /\ TypeOK /\ At(w, "attempt") /\ ~At(w, "idle") /\ ~At(w, "save") /\ w \in Busy
      /\ work[w].at \notin Waiting
  BY DEF IInv, Attempt, At, Waiting, Busy
<1>2. /\ UNCHANGED <<on, refs, seen, client, streams, history>> /\ on' = on /\ refs' = refs
      /\ client' = client /\ UNCHANGED streams /\ UNCHANGED history /\ seen' = seen
      /\ tried' = tried /\ dropped' = dropped
  BY DEF Attempt, history
<1>3. CASE Accepted(w) /\ items' = Effect(w) /\ Answered(w) /\ UNCHANGED <<excused, faults>>
  <2>1. IsHandler(work[w].h) /\ work[w].doing \in RequestsOf(work[w].h)
    BY <1>1, InsideFacts, CallOf
  <2>2. work[w].doing = "post" => (FirstStep(work[w].h) = "load" <=> work[w].h.does \in Keepers)
    BY <2>1, FirstSteps, ProcedureFacts, RequestFacts
  <2>3. CASE work[w].doing = "post" /\ FirstStep(work[w].h) = "load"
    <3>1. Goto(w, [work[w] EXCEPT !.at = "save", !.ref = Len(items) + 1])
      BY <1>3, <2>3 DEF Answered
    <3> QED
      BY <1>1, <1>2, <1>3, <2>2, <2>3, <3>1, PostStep
  <2>4. CASE work[w].doing = "release"
    <3>1. Request(w, "deploy")
      BY <1>3, <2>4 DEF Answered
    <3> QED
      BY <1>1, <1>2, <1>3, <2>4, <3>1, DoneStep
  <2>5. CASE work[w].doing = "list" \/ (work[w].doing = "search" /\ Mine(w) = {})
    <3>1. \/ work[w].doing = "search" /\ Mine(w) = {} /\ Request(w, "create")
          \/ work[w].doing = "list" /\ Request(w, "move")
      BY <1>3, <2>5 DEF Answered
    <3>2. items' = items
      BY <1>1, <1>2, <1>3, <2>5, EffectIs
    <3> QED
      BY <1>1, <1>2, <1>3, <2>5, <3>1, <3>2, MissingStep
  <2>6. CASE /\ ~(work[w].doing = "post" /\ FirstStep(work[w].h) = "load") /\ work[w].doing # "release"
             /\ work[w].doing # "list" /\ ~(work[w].doing = "search" /\ Mine(w) = {})
    <3>1. Return(w)
      BY <1>3, <2>6 DEF Answered
    <3>2. Completes(w)
      BY <2>2, <2>6 DEF Completes
    <3> QED
      BY <1>1, <1>2, <1>3, <3>1, <3>2, DoneStep
  <2> QED
    BY <2>3, <2>4, <2>5, <2>6
<1>4. CASE MayRefuse(w) /\ Refused(w) /\ UNCHANGED <<items, excused, faults>>
  <2>1. excused \subseteq excused' /\ faults' \in Nat /\ items' = items
    BY <1>1, <1>4 DEF TypeOK
  <2>2. ASSUME work[w].h.does = "repost", work[w].doing = "edit", NEW slot \in SlotsOf(w),
               ~Excused(slot, {"overlap", "elsewhere", "forgot", "edit failed", "repeated"})'
        PROVE  ItemsOf(slot) = {}
    <3>1. work[w].ref \notin Live
      BY <1>4, <2>2 DEF Accepted, MayRefuse
    <3>2. ~Excused(slot, {"overlap", "elsewhere", "forgot", "edit failed", "repeated"})
      BY <1>4, <2>2 DEF Excused
    <3> QED
      BY <1>1, <2>2, <3>1, <3>2, NothingReferred
  <2> QED
    BY <1>1, <1>2, <1>4, <2>1, <2>2, FailedStep
<1>5. CASE /\ Fault /\ UNCHANGED items
           /\ Refused(w) \/ Retry(w)
           /\ IF work[w].doing = "edit" THEN Excuse(SlotsOf(w), "edit failed") ELSE UNCHANGED excused
  <2>1. excused \subseteq excused' /\ faults' \in Nat /\ items' = items
    <3>1. faults' \in Nat /\ items' = items
      <4>1. Fault /\ items' = items
        BY <1>5
      <4> QED
        BY <1>1, <4>1, BesideSame
    <3>2. excused \subseteq excused'
      BY <1>5 DEF Excuse
    <3> QED
      BY <3>1, <3>2
  <2>2. ASSUME work[w].h.does = "repost", work[w].doing = "edit", NEW slot \in SlotsOf(w)
        PROVE  Excused(slot, {"overlap", "elsewhere", "forgot", "edit failed", "repeated"})'
    BY <1>5, <2>2 DEF Excuse, Excused
  <2> QED
    BY <1>1, <1>2, <1>5, <2>1, <2>2, FailedStep
<1>6. CASE /\ Fault /\ Accepted(w) /\ items' = Effect(w) /\ Retry(w)
           /\ Excuse(SlotsOf(w), IF work[w].doing = "edit" THEN "edit failed" ELSE "repeated")
  <2>1. faults' \in Nat
    BY <1>1, <1>6, BesideSame
  <2> QED
    BY <1>1, <1>2, <1>6, <2>1, LateStep
<1>7. CASE Fault /\ ~work[w].h.keeps /\ Return(w) /\ UNCHANGED <<items, excused>>
  <2>1. Beside
    BY <1>1, <1>2, <1>7, BesideSame DEF Beside
  <2>2. Registered' /\ OnlySeenDropped'
    BY <1>2, SameEntries
  <2>3. \A slot \in SlotsOf(w) : Stands(slot)'
    <3>1. \A slot \in SlotsOf(w) : HandlerOf(slot[1])' = work[w].h
      BY <1>1, <1>2, SlotsOfCall, SameHandlers
    <3> QED
      BY <1>7, <3>1 DEF Stands
  <2> QED
    BY <1>1, <1>2, <1>7, <2>1, <2>2, <2>3, LeaveStep
<1>8. CASE NotOffered(w) /\ UNCHANGED <<items, faults>>
  BY <1>1, <1>2, <1>8, NotOfferedStep
<1> QED
  BY <1>3, <1>4, <1>5, <1>6, <1>7, <1>8 DEF Attempt

-----------------------------------------------------------------------------
(* The annotations.                                                        *)

\* Some dashboards have been annotated.
Notes(w, got) ==
  /\ ItemStep(w)
  /\ \A i \in DOMAIN items : i \in DOMAIN items' /\ items'[i] = items[i]
  /\ \A d \in got : \E i \in DOMAIN items' :
       /\ items'[i].by = work[w].h.id /\ items'[i].of = work[w].event /\ items'[i].kind = d
       /\ items'[i].is = "open" /\ items'[i].about = About(w)

\* The annotations of some dashboards are added in some order.
LEMMA NotedIs ==
  ASSUME TypeOK, NEW w \in Workers, At(w, "each"), on' = on, NEW got \in SUBSET work[w].h.on,
         items' = Noted(w, got)
  PROVE  Notes(w, got)
<1>1. ~At(w, "idle") /\ work[w].at \notin Waiting /\ work[w].at = "each"
  BY DEF At, Waiting
<1>2. IsHandler(work[w].h) /\ work[w].h \in on
  BY <1>1, CallOf
<1>3. PICK S : S = {Item(w, d) : d \in got}
  OBVIOUS
<1>4. IsFiniteSet(S)
  <2>1. IsFiniteSet(got)
    BY <1>2, FS_Subset DEF IsHandler
  <2> QED
    <3>1. PICK f : f = [d \in got |-> Item(w, d)]
      OBVIOUS
    <3>2. f \in Surjection(got, S)
      BY <1>3, <3>1 DEF Surjection
    <3> QED
      BY <2>1, <3>2, FS_Surjection
<1>5. /\ \A x \in S : \E d \in got :
           x = [by |-> work[w].h.id, kind |-> d, is |-> "open", to |-> 0, of |-> work[w].event,
                about |-> About(w)]
      /\ \A d \in got : \E x \in S :
           x = [by |-> work[w].h.id, kind |-> d, is |-> "open", to |-> 0, of |-> work[w].event,
                about |-> About(w)]
  BY <1>3 DEF Item
<1>6. got \subseteq Kinds
  <2>1. PICK own : own = work[w].h.on
    OBVIOUS
  <2>2. own \in {h.on : h \in on}
    BY <1>2, <2>1
  <2> QED
    BY <2>1, <2>2 DEF Kinds
<1>7. \A x \in S : /\ x \in Items /\ IsItem(work[w].h, x) /\ x.by = work[w].h.id
                   /\ x.of = work[w].event /\ x.is = "open" /\ x.to = 0 /\ x.about = About(w)
  <2>1. SUFFICES ASSUME NEW x \in S
                 PROVE  /\ x \in Items /\ IsItem(work[w].h, x) /\ x.by = work[w].h.id
                        /\ x.of = work[w].event /\ x.is = "open" /\ x.to = 0 /\ x.about = About(w)
    OBVIOUS
  <2>2. PICK d \in got, to \in Nat :
          /\ x = [by |-> work[w].h.id, kind |-> d, is |-> "open", to |-> to, of |-> work[w].event,
                  about |-> About(w)]
          /\ to = 0
    BY <1>5
  <2>3. d \in Kinds
    BY <1>6
  <2> QED
    BY <1>1, <2>2, <2>3, NewItem
<1>8. PICK s : s = SetToSeq(S)
  OBVIOUS
<1>9. /\ Len(s) \in Nat /\ DOMAIN s = 1..Len(s) /\ s \in Seq(Items)
      /\ \A k \in 1..Len(s) : s[k] \in S
      /\ \A x \in S : \E k \in 1..Len(s) : s[k] = x
  <2>1. PICK n \in Nat : n = Cardinality(S)
    BY <1>4, FS_CardinalityType
  <2>2. \E f \in [1..n -> S] : IsInjective(f)
    <3>1. ExistsBijection(1..n, S)
      BY <1>4, <2>1, FS_CardinalityType
    <3> QED
      BY <3>1 DEF ExistsBijection, Bijection, Injection
  <2>3. s \in [1..n -> S] /\ IsInjective(s)
    BY <1>8, <2>1, <2>2 DEF SetToSeq
  <2>4. s \in Injection(1..n, S)
    BY <2>3 DEF Injection
  <2>5. Cardinality(1..n) = n /\ IsFiniteSet(1..n)
    <3>1. n = IF 1 <= n THEN n - 1 + 1 ELSE 0
      BY <2>1
    <3> QED
      BY <2>1, <3>1, FS_Interval
  <2>6. s \in Surjection(1..n, S)
    BY <1>4, <2>1, <2>4, <2>5, FS_Injection
  <2>7. \A x \in S : \E k \in 1..n : s[k] = x
    BY <2>6 DEF Surjection
  <2>8. s = [k \in 1..n |-> s[k]] /\ \A k \in 1..n : s[k] \in Items
    BY <1>7, <2>3
  <2>9. s \in Seq(Items) /\ Len(s) = n
    BY <2>1, <2>8
  <2> QED
    BY <2>1, <2>3, <2>7, <2>9
<1>10. items \in Seq(Items) /\ DOMAIN items = 1..Len(items) /\ Len(items) \in Nat /\ items' = items \o s
  BY <1>3, <1>8 DEF TypeOK, ItemsOK, Noted
<1>11. PICK m \in Nat, n \in Nat : m = Len(items) /\ n = Len(s)
  BY <1>9, <1>10
<1>12. /\ items' \in Seq(Items) /\ DOMAIN items' = 1..(m + n)
       /\ \A i \in 1..m : items'[i] = items[i]
       /\ \A i \in (m + 1)..(m + n) : items'[i] = s[i - m]
  BY <1>9, <1>10, <1>11
<1>13. ASSUME NEW i \in DOMAIN items'
       PROVE  \/ i \in DOMAIN items /\ items'[i] = items[i]
              \/ i \notin DOMAIN items /\ items'[i] \in S
  <2>1. CASE i \in 1..m
    BY <1>10, <1>11, <1>12, <2>1
  <2>2. CASE i \in (m + 1)..(m + n)
    <3>1. i - m \in 1..Len(s) /\ i \notin 1..m
      BY <1>11, <2>2
    <3> QED
      BY <1>9, <1>10, <1>11, <1>12, <2>2, <3>1
  <2> QED
    BY <1>11, <1>12, <2>1, <2>2
<1>14. \A i \in DOMAIN items : i \in DOMAIN items' /\ items'[i] = items[i]
  BY <1>10, <1>11, <1>12
<1>15. \A x \in S : \E i \in DOMAIN items' : items'[i] = x
  <2>1. SUFFICES ASSUME NEW x \in S
                 PROVE  \E i \in DOMAIN items' : items'[i] = x
    OBVIOUS
  <2>2. PICK k \in 1..n : s[k] = x
    BY <1>9, <1>11
  <2>3. PICK i : i = m + k
    OBVIOUS
  <2>4. i \in (m + 1)..(m + n) /\ i - m = k /\ i \in 1..(m + n)
    BY <1>11, <2>2, <2>3
  <2> QED
    BY <1>12, <2>2, <2>4
<1>16. ItemsOK'
  <2>1. ASSUME NEW i \in DOMAIN items'
        PROVE  /\ IsItem(HandlerOf(items'[i].by), items'[i]) /\ items'[i].to < i
               /\ items'[i].to # 0 => /\ items'[items'[i].to].by = items'[i].by
                                      /\ DOMAIN items'[items'[i].to].of = DOMAIN items'[i].of
    <3>1. CASE i \in DOMAIN items /\ items'[i] = items[i]
      <4>1. /\ IsItem(HandlerOf(items[i].by), items[i]) /\ items[i].to < i
            /\ items[i].to # 0 => /\ items[items[i].to].by = items[i].by
                                  /\ DOMAIN items[items[i].to].of = DOMAIN items[i].of
        BY <3>1 DEF TypeOK, ItemsOK
      <4>3. items[i].to # 0 => items[i].to \in DOMAIN items
        <5>1. items[i].to \in Nat /\ i \in 1..m
          BY <1>10, <1>11, <3>1, ItemOf
        <5> QED
          BY <1>10, <1>11, <4>1, <5>1
      <4> QED
        BY <1>14, <3>1, <4>1, <4>3
    <3>2. CASE items'[i] \in S
      <4>1. HandlerOf(items'[i].by) = work[w].h
        BY <1>1, <1>7, <3>2, CallOf
      <4>2. 0 < i
        BY <1>11, <1>12, <2>1
      <4> QED
        BY <1>7, <3>2, <4>1, <4>2
    <3> QED
      BY <1>13, <2>1, <3>1, <3>2
  <2>2. Items' = Items /\ \A id : HandlerOf(id)' = HandlerOf(id)
    BY SameHandlers
  <2> QED
    BY <1>12, <2>1, <2>2 DEF ItemsOK
<1>17. ItemStep(w)
  <2>1. Grown
    BY <1>14 DEF Grown
  <2>2. \A i \in DOMAIN items' \ DOMAIN items :
          items'[i].by = work[w].h.id /\ items'[i].of = work[w].event
    BY <1>7, <1>13
  <2> QED
    BY <1>14, <1>16, <2>1, <2>2 DEF ItemStep
<1>18. \A d \in got : \E i \in DOMAIN items' :
         /\ items'[i].by = work[w].h.id /\ items'[i].of = work[w].event /\ items'[i].kind = d
         /\ items'[i].is = "open" /\ items'[i].about = About(w)
  <2>1. SUFFICES ASSUME NEW d \in got
                 PROVE  \E i \in DOMAIN items' :
                          /\ items'[i].by = work[w].h.id /\ items'[i].of = work[w].event
                          /\ items'[i].kind = d
                          /\ items'[i].is = "open" /\ items'[i].about = About(w)
    OBVIOUS
  <2>2. PICK x \in S :
          x = [by |-> work[w].h.id, kind |-> d, is |-> "open", to |-> 0, of |-> work[w].event,
               about |-> About(w)]
    BY <1>5
  <2>3. PICK i \in DOMAIN items' : items'[i] = x
    BY <1>15
  <2> QED
    BY <2>2, <2>3
<1> QED
  BY <1>14, <1>17, <1>18 DEF Notes

\* Annotating dashboards keeps the invariant.
LEMMA AnnotateStep ==
  ASSUME IInv, NEW w \in Workers, Annotate(w)
  PROVE  IInv'
<1>1. /\ TypeOK /\ At(w, "each") /\ ~At(w, "idle") /\ ~At(w, "save") /\ w \in Busy
      /\ work[w].at \notin Waiting /\ work[w].at = "each"
  BY DEF IInv, Annotate, At, Waiting, Busy
<1>2. /\ on' = on /\ refs' = refs /\ client' = client /\ UNCHANGED streams /\ UNCHANGED history
      /\ seen' = seen /\ tried' = tried /\ dropped' = dropped /\ excused' = excused
  BY DEF Annotate, history
<1>3. Fault \/ UNCHANGED faults
  BY DEF Annotate
<1>4. Beside
  BY <1>1, <1>2, <1>3, BesideSame DEF Beside
<1>5. Registered' /\ OnlySeenDropped'
  BY <1>2, SameEntries
<1>6. IsHandler(work[w].h) /\ work[w].h.does = "each"
  BY <1>1, InsideFacts, CallOf, RequestFacts
<1>7. PICK got \in SUBSET work[w].h.on :
        items' = Noted(w, got) /\ (Leave(w) \/ (Return(w) /\ got = work[w].h.on))
  BY DEF Annotate
<1>8. Notes(w, got) /\ ItemStep(w) /\ Grown
  BY <1>1, <1>2, <1>7, NotedIs DEF Notes, ItemStep
<1>9. Continues(w) /\ work'[w] = Idle /\ (latest' = latest \/ (Reports(w) /\ got = work[w].h.on))
  BY <1>1, <1>7, Ended
<1>10. Own(w)
  <2>1. RefsOK' /\ \A b \in Builds, slot \in Slots : refs'[b][slot] = refs[b][slot]
    BY <1>1, <1>2, <1>8, RefsStay
  <2> QED
    BY <1>1, <1>2, <1>4, <1>8, <1>9, <2>1, OwnBy
<1>11. ASSUME NEW slot \in SlotsOf(w)
       PROVE  ToldOnce(slot)' /\ OneRef(slot)' /\ OneMessage(slot)' /\ Hanging(slot)' /\ Stands(slot)'
  <2>1. HandlerOf(slot[1])' = work[w].h
    BY <1>1, <1>10, OwnSlot
  <2>2. ToldOnce(slot)' /\ OneRef(slot)' /\ OneMessage(slot)' /\ Hanging(slot)'
    BY <1>6, <2>1 DEF ToldOnce, OneRef, OneMessage, Hanging, Keepers
  <2>3. Stands(slot)'
    <3>1. CASE latest' = latest
      BY <1>1, <3>1, OwnSilent
    <3>2. CASE Reports(w) /\ got = work[w].h.on
      <4>1. SUFFICES ASSUME latest'[slot] # "none"
                     PROVE  Tells(slot)'
        BY DEF Stands
      <4>2. latest'[slot] = work[w].event[slot[2]]
        BY <1>1, <3>2, <4>1, Reporting
      <4>3. slot[1] = work[w].h.id /\ slot[2] \in DOMAIN work[w].event
        BY <1>1, SlotsOfCall
      <4>4. ASSUME NEW d \in got
            PROVE  \E i \in Showing(slot)' : items'[i].kind = d
        <5>1. PICK i \in DOMAIN items' :
                /\ items'[i].by = work[w].h.id /\ items'[i].of = work[w].event /\ items'[i].kind = d
                /\ items'[i].is = "open" /\ items'[i].about = About(w)
          BY <1>8 DEF Notes
        <5>2. i \in ItemsOf(slot)'
          BY <4>3, <5>1 DEF ItemsOf, Live
        <5>3. items'[i].about[slot[2]] = work[w].h.words[latest'[slot]]
          BY <4>2, <4>3, <5>1 DEF About
        <5> QED
          BY <2>1, <5>1, <5>2, <5>3 DEF Showing
      <4>5. work[w].h.does = "each" => \A d \in work[w].h.on : \E i \in Showing(slot)' : items'[i].kind = d
        BY <3>2, <4>4
      <4> QED
        BY <1>6, <2>1, <4>5 DEF Tells, Keepers
    <3> QED
      BY <1>9, <3>1, <3>2
  <2> QED
    BY <2>2, <2>3
<1>12. PolicyFound' /\ OwnPolicy' /\ Detached'
  BY <1>1, <1>2, <1>9, <1>10, SamePolicy, SameStreams
<1> QED
  BY <1>1, <1>5, <1>9, <1>10, <1>11, <1>12, OwnStep

-----------------------------------------------------------------------------
(* What happens to a handler: closing, restarts, eviction and expiry.      *)

\* Calls end or stay as they are, and the services are left alone.
LEMMA CalmStep ==
  ASSUME IInv, on' = on, items' = items, client' = client, latest' = latest, tried' = tried,
         dropped' = dropped, events' = events, faults' \in Nat, excused \subseteq excused',
         seen' \subseteq seen, work' \in [Workers -> Calls \cup {Idle}],
         \A v \in Workers : work'[v] = work[v] \/ work'[v] = Idle,
         RefsOK', Detached', connected' \subseteq Builds,
         closed' \in [Builds -> {"open", "closing", "closed"}],
         NEW S \in SUBSET Slots, \A slot \in S : <<slot, "forgot">> \in excused',
         \A slot \in Slots \ S :
           /\ \A v \in CallsOf(slot) : work'[v] = work[v]
           /\ \A b \in Builds : refs'[b][slot] = refs[b][slot],
         \A slot \in Slots :
           \/ <<slot, "store">> \in excused'
           \/ \A ev : slot[2] \in DOMAIN ev /\ <<"shared", HandlerOf(slot[1]).name, ev>> \in seen
                    => <<"shared", HandlerOf(slot[1]).name, ev>> \in seen'
  PROVE  IInv'
<1>1. TypeOK /\ Rivals /\ Settled /\ PolicyFound /\ OwnPolicy
  BY DEF IInv
<1>2. Slots' = Slots /\ Ids' = Ids /\ Calls' = Calls /\ \A id : HandlerOf(id)' = HandlerOf(id)
  BY SameHandlers
<1>3. \A v \in Busy' : v \in Busy /\ work'[v] = work[v] /\ ~At(v, "idle")
  BY DEF Busy, At, Idle
<1>4. \A v \in Busy' : /\ SlotsOf(v)' = SlotsOf(v) /\ TheRun(v)' = TheRun(v) /\ About(v)' = About(v)
                       /\ \A step : At(v, step)' <=> At(v, step)
  BY <1>3 DEF SlotsOf, TheRun, About, At
<1>5. ItemsOK' /\ Grown
  BY <1>1, NoItemStep DEF ItemStep
<1>6. TypeOK'
  <2>1. CallsOK'
    <3>1. ASSUME NEW v \in Busy'
          PROVE  IsCall(work[v])'
      <4>1. IsCall(work[v]) /\ work'[v] = work[v] /\ v \in Workers
        BY <1>1, <1>3, <3>1 DEF TypeOK, CallsOK, Busy
      <4>2. Procedure(work[v].h)' = Procedure(work[v].h) /\ RequestsOf(work[v].h)' = RequestsOf(work[v].h)
        BY <4>1 DEF Procedure, RequestsOf
      <4> QED
        BY <1>2, <4>1, <4>2 DEF IsCall
    <3> QED
      BY <1>2, <3>1 DEF CallsOK
  <2> QED
    BY <1>1, <1>2, <1>5, <2>1 DEF TypeOK
<1>7. Rivals'
  <2>1. \A slot \in Slots : Excused(slot, {"overlap"}) => Excused(slot, {"overlap"})'
    BY DEF Excused
  <2>2. ASSUME NEW v \in Busy', NEW w \in Busy', v # w, NEW slot \in SlotsOf(v)' \cap SlotsOf(w)'
        PROVE  "run" \in work'[v].met /\ Excused(slot, {"overlap"})'
    <3>1. v \in Busy /\ w \in Busy /\ work'[v] = work[v] /\ slot \in SlotsOf(v) \cap SlotsOf(w)
      BY <1>3, <1>4, <2>2
    <3>2. "run" \in work[v].met /\ Excused(slot, {"overlap"})
      BY <1>1, <2>2, <3>1 DEF Rivals
    <3>3. slot \in Slots
      BY <1>1, <1>3, <2>2, <3>1, SlotsOfCall DEF Busy
    <3> QED
      BY <2>1, <3>1, <3>2, <3>3
  <2> QED
    BY <2>2 DEF Rivals
<1>8. Settled'
  BY <1>1, <1>2, <1>3, <1>4 DEF Settled, CallsOf
<1>9. PolicyFound' /\ OwnPolicy'
  <2>1. PolicyFound'
    BY <1>1, <1>3, <1>4 DEF PolicyFound
  <2>2. OwnPolicy'
    BY <1>1, <1>3, <1>4 DEF OwnPolicy
  <2> QED
    BY <2>1, <2>2
<1>10. Registered' /\ OnlySeenDropped'
  BY SameEntries
<1>11. \A v \in Busy' : Knows(v)'
  <2>1. Live' = Live
    BY <1>1, QuietViews
  <2> QED
    BY <1>3, <1>4, <2>1 DEF IInv, Knows
<1>12. ASSUME NEW slot \in Slots
       PROVE  ToldOnce(slot)' /\ OneRef(slot)' /\ OneMessage(slot)' /\ Hanging(slot)' /\ Stands(slot)'
  <2>1. AllOf(slot)' = AllOf(slot) /\ ItemsOf(slot)' = ItemsOf(slot)
    BY <1>1, QuietViews
  <2>2. ToldOnce(slot) /\ OneRef(slot) /\ OneMessage(slot) /\ Hanging(slot) /\ Stands(slot)
    BY DEF IInv, Reported
  <2>3. Stands(slot)'
    BY <1>1, <2>1, <2>2, SameStands
  <2>4. CASE slot \in S
    <3>1. OneRef(slot)' /\ OneMessage(slot)' /\ Hanging(slot)'
      BY <2>4 DEF OneRef, OneMessage, Hanging, Excused
    <3>2. ToldOnce(slot)'
      <4>1. PICK h : h = HandlerOf(slot[1]) /\ h = HandlerOf(slot[1])'
        BY <1>2
      <4>2. SUFFICES ASSUME h.store = "shared", h.does = "post", ~Excused(slot, {"store", "repeated"})'
                     PROVE  ToldOnce(slot)'
        BY <4>1 DEF ToldOnce
      <4>3. ~Excused(slot, {"store", "repeated"}) /\ <<slot, "store">> \notin excused'
        BY <4>2 DEF Excused
      <4>4. /\ \A i \in AllOf(slot) : <<"shared", h.name, items[i].of>> \in seen
            /\ \A i, j \in AllOf(slot) : items[i].of = items[j].of => i = j
            /\ \A w \in Inside(slot) :
                 /\ <<"shared", h.name, work[w].event>> \in seen
                 /\ \A i \in AllOf(slot) : items[i].of # work[w].event
                 /\ \A v \in Inside(slot) : work[v].event = work[w].event => v = w
        BY <2>2, <4>1, <4>2, <4>3 DEF ToldOnce
      <4>5. \A v \in Inside(slot)' : v \in Inside(slot) /\ work'[v] = work[v]
        BY <1>3, <1>4 DEF Inside, CallsOf
      <4>6. /\ \A v \in Inside(slot) : slot[2] \in DOMAIN work[v].event
            /\ \A i \in AllOf(slot) : slot[2] \in DOMAIN items[i].of
        <5>1. \A v \in Inside(slot) : v \in Workers /\ ~At(v, "idle") /\ slot \in SlotsOf(v)
          BY DEF Inside, CallsOf, Busy
        <5> QED
          BY <1>1, <5>1, SlotsOfCall DEF AllOf
      <4>7. \A ev : slot[2] \in DOMAIN ev /\ <<"shared", h.name, ev>> \in seen
                      => <<"shared", h.name, ev>> \in seen'
        BY <4>1, <4>3
      <4>8. /\ \A i \in AllOf(slot) : <<"shared", h.name, items[i].of>> \in seen'
            /\ \A v \in Inside(slot)' : <<"shared", h.name, work'[v].event>> \in seen'
        BY <4>4, <4>5, <4>6, <4>7
      <4>9. \A w \in Inside(slot)' :
              /\ \A i \in AllOf(slot) : items[i].of # work'[w].event
              /\ \A v \in Inside(slot)' : work'[v].event = work'[w].event => v = w
        BY <4>4, <4>5
      <4> QED
        BY <2>1, <4>1, <4>4, <4>8, <4>9 DEF ToldOnce
    <3> QED
      BY <2>3, <3>1, <3>2
  <2>5. CASE slot \notin S
    <3>1. Untouched(slot)
      <4>1. \A v \in CallsOf(slot) : work'[v] = work[v] /\ v \in Busy'
        BY <2>5 DEF CallsOf, Busy, At
      <4>2. CallsOf(slot)' = CallsOf(slot)
        BY <1>3, <1>4, <4>1 DEF CallsOf
      <4>3. \A v \in CallsOf(slot) : Alike(work[v], work'[v])
        BY <4>1 DEF Alike
      <4> QED
        BY <2>1, <2>5, <4>2, <4>3 DEF Untouched
    <3> QED
      BY <1>1, <2>2, <2>3, <3>1, UntouchedToldOnce, UntouchedOneRef, UntouchedOneMessage,
         UntouchedHanging
  <2> QED
    BY <2>4, <2>5
<1> QED
  BY <1>2, <1>6, <1>7, <1>8, <1>9, <1>10, <1>11, <1>12 DEF IInv, Reported

\* Close and what it disconnects.
LEMMA CloseStep ==
  ASSUME IInv, NEW b \in Builds, Close(b) \/ Disconnect(b)
  PROVE  IInv'
<1>1. TypeOK /\ Detached /\ closed \in [Builds -> {"open", "closing", "closed"}]
      /\ connected \subseteq Builds /\ work \in [Workers -> Calls \cup {Idle}] /\ faults \in Nat
  BY DEF IInv, TypeOK, CallsOK
<1>2. /\ on' = on /\ items' = items /\ client' = client /\ latest' = latest /\ tried' = tried
      /\ dropped' = dropped /\ events' = events /\ excused' = excused /\ seen' = seen /\ work' = work
      /\ refs' = refs
  BY DEF Close, Disconnect, history
<1>3. faults' \in Nat
  BY <1>1, BesideSame DEF Close, Disconnect
<1>4. /\ connected' \subseteq Builds /\ closed' \in [Builds -> {"open", "closing", "closed"}]
      /\ Detached'
  <2>1. CASE Close(b)
    <3>1. closed' = [closed EXCEPT ![b] = "closing"] /\ connected' = connected
      BY <2>1 DEF Close
    <3> QED
      BY <1>1, <3>1 DEF Detached
  <2>2. CASE Disconnect(b)
    <3>1. closed' = [closed EXCEPT ![b] = "closed"] /\ connected' = connected \ {b}
      BY <2>2 DEF Disconnect
    <3> QED
      BY <1>1, <3>1 DEF Detached
  <2> QED
    BY <2>1, <2>2
<1>5. RefsOK' /\ \A c \in Builds, slot \in Slots : refs'[c][slot] = refs[c][slot]
  BY <1>1, <1>2, NoItemStep, RefsStay
<1>6. PICK S \in SUBSET Slots : S = {}
  OBVIOUS
<1> QED
  BY <1>1, <1>2, <1>3, <1>4, <1>5, <1>6, CalmStep

\* The store forgets a reference.
LEMMA EvictStep ==
  ASSUME IInv, NEW b \in Builds, NEW slot \in Slots, Evict(b, slot)
  PROVE  IInv'
<1>1. TypeOK /\ RefsOK /\ work \in [Workers -> Calls \cup {Idle}] /\ faults \in Nat
  BY DEF IInv, TypeOK, CallsOK
<1>2. /\ on' = on /\ items' = items /\ client' = client /\ latest' = latest /\ tried' = tried
      /\ dropped' = dropped /\ events' = events /\ seen' = seen /\ work' = work /\ UNCHANGED streams
  BY DEF Evict, history
<1>3. faults' \in Nat /\ connected' \subseteq Builds
      /\ closed' \in [Builds -> {"open", "closing", "closed"}] /\ Detached'
  BY <1>1, <1>2, BesideSame, SameStreams DEF Evict
<1>4. excused \subseteq excused' /\ <<slot, "forgot">> \in excused'
  BY DEF Evict, Excuse
<1>5. /\ refs' \in [Builds -> [Slots -> Nat]]
      /\ \A c \in Builds, s \in Slots :
           refs'[c][s] = IF c = b /\ s = slot THEN 0 ELSE refs[c][s]
  BY <1>1 DEF RefsOK, Evict
<1>6. RefsOK'
  <2>1. Slots' = Slots
    BY <1>2, SameHandlers
  <2> QED
    BY <1>1, <1>2, <1>5, <2>1 DEF RefsOK
<1>7. PICK S \in SUBSET Slots : S = {slot}
  OBVIOUS
<1> QED
  BY <1>1, <1>2, <1>3, <1>4, <1>5, <1>6, <1>7, CalmStep

\* A dedupe entry expires.
LEMMA ExpireStep ==
  ASSUME IInv, NEW k \in seen, Expire(k)
  PROVE  IInv'
<1>1. TypeOK /\ work \in [Workers -> Calls \cup {Idle}] /\ faults \in Nat
  BY DEF IInv, TypeOK, CallsOK
<1>2. /\ on' = on /\ items' = items /\ client' = client /\ latest' = latest /\ tried' = tried
      /\ dropped' = dropped /\ events' = events /\ seen' = seen \ {k} /\ work' = work
      /\ UNCHANGED streams /\ refs' = refs
  BY DEF Expire, history
<1>3. faults' \in Nat /\ connected' \subseteq Builds
      /\ closed' \in [Builds -> {"open", "closing", "closed"}] /\ Detached'
  BY <1>1, <1>2, BesideSame, SameStreams DEF Expire
<1>4. /\ excused \subseteq excused'
      /\ \A slot \in Slots : HandlerOf(slot[1]).name = k[2] /\ slot[2] \in DOMAIN k[3]
                               => <<slot, "store">> \in excused'
  BY DEF Expire, Excuse
<1>5. RefsOK' /\ \A c \in Builds, slot \in Slots : refs'[c][slot] = refs[c][slot]
  BY <1>1, <1>2, NoItemStep, RefsStay
<1>6. ASSUME NEW slot \in Slots, <<slot, "store">> \notin excused',
             NEW ev, slot[2] \in DOMAIN ev, <<"shared", HandlerOf(slot[1]).name, ev>> \in seen
      PROVE  <<"shared", HandlerOf(slot[1]).name, ev>> \in seen'
  <2>1. k # <<"shared", HandlerOf(slot[1]).name, ev>>
    BY <1>4, <1>6
  <2> QED
    BY <1>2, <1>6, <2>1
<1>7. PICK S \in SUBSET Slots : S = {}
  OBVIOUS
<1>8. seen' \subseteq seen
  BY <1>2
<1> QED
  BY <1>1, <1>2, <1>3, <1>4, <1>5, <1>6, <1>7, <1>8, CalmStep

\* A process dies with its calls, references and entries.
LEMMA RestartStep ==
  ASSUME IInv, NEW b \in Builds, Restart(b)
  PROVE  IInv'
<1>1. TypeOK /\ RefsOK /\ work \in [Workers -> Calls \cup {Idle}] /\ faults \in Nat
  BY DEF IInv, TypeOK, CallsOK
<1>2. PICK dying : dying = {w \in Busy : work[w].build = b}
  OBVIOUS
<1>3. PICK S : S = {slot \in Slots : refs[b][slot] # 0} \cup (UNION {SlotsOf(w) : w \in dying})
  OBVIOUS
<1>4. /\ on' = on /\ items' = items /\ client' = client /\ latest' = latest /\ tried' = tried
      /\ dropped' = dropped /\ events' = events /\ seen' = {k \in seen : k[1] # b}
      /\ work' = [w \in Workers |-> IF w \in dying THEN Idle ELSE work[w]]
      /\ UNCHANGED streams /\ refs' = [refs EXCEPT ![b] = [slot \in Slots |-> 0]]
      /\ excused' = excused \cup (S \X {"forgot"})
  BY <1>2, <1>3 DEF Restart, history, Excuse
<1>5. faults' \in Nat /\ connected' \subseteq Builds
      /\ closed' \in [Builds -> {"open", "closing", "closed"}] /\ Detached'
  BY <1>1, <1>4, BesideSame, SameStreams DEF Restart
<1>6. S \in SUBSET Slots /\ \A w \in dying : SlotsOf(w) \subseteq S
  <2>1. \A w \in dying : w \in Workers /\ ~At(w, "idle")
    BY <1>2 DEF Busy
  <2>2. \A w \in dying : SlotsOf(w) \subseteq Slots
    BY <1>1, <2>1, SlotsOfCall
  <2> QED
    BY <1>3, <2>2
<1>7. excused \subseteq excused' /\ \A slot \in S : <<slot, "forgot">> \in excused'
  BY <1>4
<1>8. /\ refs' \in [Builds -> [Slots -> Nat]]
      /\ \A c \in Builds, s \in Slots : refs'[c][s] = IF c = b THEN 0 ELSE refs[c][s]
  BY <1>1, <1>4 DEF RefsOK
<1>9. RefsOK'
  <2>1. Slots' = Slots
    BY <1>4, SameHandlers
  <2> QED
    BY <1>1, <1>4, <1>8, <2>1 DEF RefsOK
<1>10. /\ work' \in [Workers -> Calls \cup {Idle}]
       /\ \A v \in Workers : work'[v] = IF v \in dying THEN Idle ELSE work[v]
  BY <1>1, <1>4
<1>11. ASSUME NEW slot \in Slots \ S
       PROVE  /\ \A v \in CallsOf(slot) : work'[v] = work[v]
              /\ \A c \in Builds : refs'[c][slot] = refs[c][slot]
  <2>1. \A v \in CallsOf(slot) : v \in Workers /\ v \notin dying
    BY <1>6, <1>11 DEF CallsOf, Busy
  <2>2. refs[b][slot] = 0
    BY <1>3, <1>11
  <2> QED
    BY <1>8, <1>10, <2>1, <2>2
<1>12. /\ seen' \subseteq seen
       /\ \A name, ev : <<"shared", name, ev>> \in seen => <<"shared", name, ev>> \in seen'
  <2>1. b # "shared"
    BY NotifyAssumption
  <2> QED
    BY <1>4, <2>1
<1> QED
  BY <1>1, <1>4, <1>5, <1>6, <1>7, <1>9, <1>10, <1>11, <1>12, CalmStep

-----------------------------------------------------------------------------
(* What people do.                                                         *)

\* A call learns that it is not alone with its run.
LEMMA Disturbed ==
  ASSUME TypeOK, NEW v \in Workers, ~At(v, "idle"),
         work'[v] = [work[v] EXCEPT !.met = @ \cup {"run"}]
  PROVE  /\ Kept(v) /\ work'[v] \in Calls /\ "run" \in work'[v].met
         /\ "client" \in work'[v].met => "client" \in work[v].met
<1>1. /\ work[v] \in Calls /\ work[v].at \in Steps /\ work[v].doing \in Requests
      /\ work[v].ref \in Nat /\ work[v].tries \in Nat /\ work[v].met \in SUBSET {"run", "client"}
  BY CallOf
<1>2. PICK met : met = work[v].met \cup {"run"}
  OBVIOUS
<1>3. work'[v] = [work[v] EXCEPT !.met = met]
  BY <1>2
<1>4. work[v] = Call(work[v], work[v].at, work[v].doing, work[v].ref, work[v].tries, work[v].met)
  BY <1>1, CallIs
<1>5. work'[v] = Call(work[v], work[v].at, work[v].doing, work[v].ref, work[v].tries, met)
  BY <1>3, <1>4, SMT DEF Call
<1>6. /\ met \in SUBSET {"run", "client"} /\ work[v].met \subseteq met /\ "run" \in met
      /\ "client" \in met => "client" \in work[v].met
  BY <1>1, <1>2
<1>7. work'[v] \in Calls /\ Alike(work[v], work'[v]) /\ work'[v].met = met
  BY <1>1, <1>5, <1>6, CallFields DEF Alike
<1> QED
  BY <1>6, <1>7 DEF Kept

\* A deletion, on behalf of nobody, is known to the calls of the run.
LEMMA DeleteStep ==
  ASSUME IInv, NEW i \in DOMAIN items, Delete(i)
  PROVE  IInv'
<1>1. /\ TypeOK /\ RefsOK /\ ItemsOK /\ work \in [Workers -> Calls \cup {Idle}] /\ faults \in Nat
      /\ Rivals /\ Settled /\ PolicyFound /\ OwnPolicy
  BY DEF IInv, TypeOK, CallsOK
<1>2. PICK S : S = {slot \in Slots : i \in ItemsOf(slot)}
  OBVIOUS
<1>3. /\ on' = on /\ client' = client /\ UNCHANGED streams /\ UNCHANGED history /\ refs' = refs
      /\ seen' = seen /\ tried' = tried /\ dropped' = dropped /\ events' = events /\ excused' = excused
      /\ i \in Live
  BY DEF Delete, history
<1>4. /\ items' = [items EXCEPT ![i].is = "deleted"]
      /\ latest' = [slot \in Slots |-> IF slot \in S THEN "none" ELSE latest[slot]]
      /\ work' = [w \in Workers |-> IF w \in Busy /\ SlotsOf(w) \cap S # {}
                                    THEN [work[w] EXCEPT !.met = @ \cup {"run"}] ELSE work[w]]
  BY <1>2 DEF Delete
<1>5. Beside
  <2>1. Fault
    BY DEF Delete
  <2> QED
    BY <1>1, <1>3, <2>1, BesideSame DEF Beside
<1>6. Slots' = Slots /\ Ids' = Ids /\ Calls' = Calls /\ Items' = Items
      /\ \A id : HandlerOf(id)' = HandlerOf(id)
  BY <1>3, SameHandlers
<1>7. /\ DOMAIN items' = DOMAIN items /\ items' \in Seq(Items)
      /\ \A j \in DOMAIN items : j # i => items'[j] = items[j]
      /\ items'[i] = [items[i] EXCEPT !.is = "deleted"]
      /\ \A j \in DOMAIN items :
           /\ items'[j].by = items[j].by /\ items'[j].of = items[j].of /\ items'[j].to = items[j].to
           /\ items'[j].about = items[j].about /\ items'[j].kind = items[j].kind
           /\ items'[j].is = IF j = i THEN "deleted" ELSE items[j].is
  <2>1. items \in Seq(Items)
    BY <1>1 DEF ItemsOK
  <2>2. PICK x : x = [items[i] EXCEPT !.is = "deleted"]
    OBVIOUS
  <2>3. items[i] \in Items
    BY <2>1
  <2>4. /\ x \in Items /\ x.by = items[i].by /\ x.of = items[i].of /\ x.to = items[i].to
        /\ x.about = items[i].about /\ x.kind = items[i].kind /\ x.is = "deleted"
    BY <2>2, <2>3 DEF Items
  <2>5. items' = [items EXCEPT ![i] = x]
    BY <1>4, <2>2
  <2> QED
    BY <2>1, <2>2, <2>4, <2>5
<1>8. ItemsOK' /\ Grown
  <2>1. \A j \in DOMAIN items' :
          /\ IsItem(HandlerOf(items'[j].by), items'[j]) /\ items'[j].to < j
          /\ items'[j].to # 0 => /\ items'[items'[j].to].by = items'[j].by
                                 /\ DOMAIN items'[items'[j].to].of = DOMAIN items'[j].of
    <3>1. SUFFICES ASSUME NEW j \in DOMAIN items
                   PROVE  /\ IsItem(HandlerOf(items'[j].by), items'[j]) /\ items'[j].to < j
                          /\ items'[j].to # 0 => /\ items'[items'[j].to].by = items'[j].by
                                                 /\ DOMAIN items'[items'[j].to].of = DOMAIN items'[j].of
      BY <1>7
    <3>2. /\ IsItem(HandlerOf(items[j].by), items[j]) /\ items[j].to < j
          /\ items[j].to # 0 => /\ items[items[j].to].by = items[j].by
                                /\ DOMAIN items[items[j].to].of = DOMAIN items[j].of
      BY <1>1 DEF ItemsOK
    <3>3. items[j].to # 0 => items[j].to \in DOMAIN items
      <4>1. items[j].to \in Nat /\ j \in 1..Len(items) /\ DOMAIN items = 1..Len(items) /\ Len(items) \in Nat
        BY <1>1, ItemOf
      <4> QED
        BY <3>2, <4>1
    <3>4. IsItem(HandlerOf(items'[j].by), items'[j])
      BY <1>7, <3>2 DEF IsItem
    <3> QED
      BY <1>7, <3>2, <3>3, <3>4
  <2> QED
    BY <1>6, <1>7, <2>1 DEF ItemsOK, Grown
<1>9. RefsOK' /\ \A c \in Builds, slot \in Slots : refs'[c][slot] = refs[c][slot]
  BY <1>1, <1>3, <1>8, RefsStay
<1>10. ASSUME NEW v \in Workers
       PROVE  /\ Kept(v) /\ work'[v] \in Calls \cup {Idle}
              /\ v \in Busy /\ SlotsOf(v) \cap S # {} => "run" \in work'[v].met
              /\ "client" \in work'[v].met /\ v \in Busy => "client" \in work[v].met
  <2>1. CASE v \in Busy /\ SlotsOf(v) \cap S # {}
    <3>1. ~At(v, "idle") /\ work'[v] = [work[v] EXCEPT !.met = @ \cup {"run"}]
      BY <1>4, <2>1 DEF Busy
    <3>2. Kept(v) /\ work'[v] \in Calls /\ "run" \in work'[v].met
          /\ ("client" \in work'[v].met => "client" \in work[v].met)
      BY <1>1, <3>1, Disturbed
    <3> QED
      BY <3>2
  <2>2. CASE ~(v \in Busy /\ SlotsOf(v) \cap S # {})
    <3>1. work'[v] = work[v]
      BY <1>4, <2>2
    <3>2. ~At(v, "idle") => work[v] \in Calls
      BY <1>1, CallOf
    <3> QED
      BY <1>1, <2>2, <3>1, <3>2 DEF Kept, Alike
  <2> QED
    BY <2>1, <2>2
<1>11. /\ work' \in [Workers -> Calls \cup {Idle}]
       /\ \A v \in Workers : ~At(v, "idle") =>
            /\ IsCall(work[v])' /\ Alike(work[v], work'[v]) /\ work'[v] \in Calls
            /\ ~At(v, "idle")' /\ SlotsOf(v)' = SlotsOf(v) /\ TheRun(v)' = TheRun(v)
  <2>1. work' \in [Workers -> Calls \cup {Idle}]
    BY <1>4, <1>10
  <2> QED
    BY <1>1, <1>3, <1>8, <1>10, <2>1, KeptCall
<1>12. Busy' = Busy
  <2>1. \A v \in Workers : At(v, "idle") => At(v, "idle")'
    BY <1>10 DEF Kept, At
  <2> QED
    BY <1>11, <2>1 DEF Busy
<1>13. TypeOK'
  <2>1. CallsOK'
    <3>1. \A v \in Busy' : IsCall(work[v])'
      BY <1>11, <1>12 DEF Busy
    <3> QED
      BY <1>6, <1>11, <3>1 DEF CallsOK
  <2>2. latest' \in [Slots -> AllStates \cup {"none"}]
    BY <1>1, <1>4 DEF TypeOK
  <2> QED
    BY <1>1, <1>3, <1>5, <1>6, <1>8, <1>9, <2>1, <2>2 DEF TypeOK, Beside
<1>14. \A v \in Busy : /\ v \in Workers /\ ~At(v, "idle") /\ Alike(work[v], work'[v])
                       /\ SlotsOf(v)' = SlotsOf(v) /\ work[v].met \subseteq work'[v].met
                       /\ \A step : At(v, step)' <=> At(v, step)
  BY <1>11 DEF Busy, Alike, At
<1>15. Rivals' /\ Settled'
  <2>1. Rivals'
    BY <1>1, <1>3, <1>12, <1>14 DEF Rivals, Excused
  <2>2. \A slot \in Slots : latest'[slot] # "none" => latest[slot] # "none"
    BY <1>4
  <2>3. \A slot : CallsOf(slot)' = CallsOf(slot)
    BY <1>12, <1>14 DEF CallsOf
  <2> QED
    BY <1>1, <1>6, <2>1, <2>2, <2>3 DEF Settled
<1>16. PolicyFound' /\ OwnPolicy'
  <2>1. \A v \in Busy : work'[v].h = work[v].h /\ work'[v].tries = work[v].tries
                        /\ ("client" \notin work'[v].met => "client" \notin work[v].met)
    BY <1>14 DEF Alike
  <2>2. PolicyFound'
    BY <1>1, <1>3, <1>12, <1>14, <2>1 DEF PolicyFound
  <2>3. OwnPolicy'
    BY <1>1, <1>3, <1>12, <1>14, <2>1 DEF OwnPolicy
  <2> QED
    BY <2>2, <2>3
<1>17. Registered' /\ OnlySeenDropped' /\ Detached'
  BY <1>3, SameEntries, SameStreams
<1>18. ASSUME NEW slot \in Slots
       PROVE  /\ AllOf(slot)' = AllOf(slot) /\ CallsOf(slot)' = CallsOf(slot)
              /\ Inside(slot)' = Inside(slot) /\ ItemsOf(slot)' = ItemsOf(slot) \ {i}
              /\ \A v \in CallsOf(slot) : v \in Busy /\ Alike(work[v], work'[v])
  <2>1. AllOf(slot)' = AllOf(slot)
    BY <1>7 DEF AllOf
  <2>2. CallsOf(slot)' = CallsOf(slot) /\ \A v \in CallsOf(slot) : v \in Busy /\ Alike(work[v], work'[v])
    BY <1>12, <1>14 DEF CallsOf
  <2>3. Inside(slot)' = Inside(slot)
    BY <2>2 DEF Inside, Alike
  <2>4. Live' = Live \ {i}
    BY <1>7 DEF Live
  <2>5. \A j \in Live : items'[j].by = items[j].by /\ items'[j].of = items[j].of
    BY <1>7 DEF Live
  <2>6. ItemsOf(slot)' = ItemsOf(slot) \ {i}
    BY <2>4, <2>5 DEF ItemsOf
  <2> QED
    BY <2>1, <2>2, <2>3, <2>6
<1>19. ASSUME NEW slot \in Slots \ S
       PROVE  Untouched(slot) /\ latest'[slot] = latest[slot]
  <2>1. i \notin AllOf(slot)
    BY <1>2, <1>3, <1>19 DEF AllOf, ItemsOf
  <2>2. \A j \in AllOf(slot) : items'[j] = items[j]
    BY <1>7, <2>1 DEF AllOf
  <2> QED
    BY <1>3, <1>4, <1>9, <1>18, <1>19, <2>2 DEF Untouched
<1>20. ASSUME NEW slot \in S
       PROVE  ToldOnce(slot)' /\ OneRef(slot)' /\ OneMessage(slot)' /\ Hanging(slot)' /\ Stands(slot)'
  <2>1. slot \in Slots /\ latest'[slot] = "none"
    BY <1>2, <1>4
  <2>2. /\ ToldOnce(slot) /\ OneRef(slot) /\ OneMessage(slot) /\ Hanging(slot)
        /\ HandlerOf(slot[1])' = HandlerOf(slot[1])
        /\ \A reasons : Excused(slot, reasons)' <=> Excused(slot, reasons)
    BY <1>3, <1>6, <2>1 DEF IInv, Excused
  <2>3. /\ AllOf(slot)' = AllOf(slot) /\ CallsOf(slot)' = CallsOf(slot)
        /\ Inside(slot)' = Inside(slot) /\ ItemsOf(slot)' = ItemsOf(slot) \ {i}
        /\ \A v \in CallsOf(slot) :
             /\ work'[v].event = work[v].event /\ work'[v].ref = work[v].ref
             /\ work'[v].build = work[v].build /\ work'[v].doing = work[v].doing
             /\ Ref(v)' = Ref(v) /\ \A step : At(v, step)' <=> At(v, step)
    BY <1>3, <1>11, <1>14, <1>18, <2>1 DEF Alike, Ref
  <2>4. \A j \in AllOf(slot) : items'[j].of = items[j].of /\ items'[j].to = items[j].to
    BY <1>7 DEF AllOf
  <2>5. ToldOnce(slot)'
    <3>1. Inside(slot) \subseteq CallsOf(slot)
      BY DEF Inside
    <3> QED
      BY <1>3, <2>2, <2>3, <2>4, <3>1 DEF ToldOnce
  <2>6. OneRef(slot)'
    BY <1>3, <2>2, <2>3 DEF OneRef
  <2>7. OneMessage(slot)'
    <3>1. Inside(slot) \subseteq CallsOf(slot)
      BY DEF Inside
    <3> QED
      BY <1>3, <2>2, <2>3, <3>1, ZenonT(40) DEF OneMessage
  <2>8. Hanging(slot)'
    <3>1. /\ \A j \in AllOf(slot) : items[j].to # 0 => items[j].to \in AllOf(slot)
          /\ \A b \in Builds : refs[b][slot] # 0 => refs[b][slot] \in AllOf(slot)
      BY <1>1, <2>1, RepliesOf, RefsOf
    <3>2. SUFFICES ASSUME HandlerOf(slot[1]).does \in {"thread", "mail"},
                          ~Excused(slot, {"overlap", "elsewhere", "forgot", "repeated"})
                   PROVE  Hanging(slot)'
      BY <2>2 DEF Hanging
    <3>3. Replying(slot) /\ Referring(slot) /\ Saving(slot) /\ (IsMail(slot)' <=> IsMail(slot))
      BY <2>2, <3>2 DEF Hanging, IsMail
    <3>4. Replying(slot)'
      BY <2>3, <2>4, <3>1, <3>3 DEF Replying
    <3>5. Referring(slot)'
      BY <1>3, <2>3, <2>4, <3>1, <3>3 DEF Referring
    <3>6. Saving(slot)'
      <4>1. \A v \in CallsOf(slot) : At(v, "save") => work[v].ref \in AllOf(slot)
        <5>1. SUFFICES ASSUME NEW v \in CallsOf(slot), At(v, "save")
                       PROVE  work[v].ref \in AllOf(slot)
          OBVIOUS
        <5>2. v \in Workers /\ ~At(v, "idle") /\ slot \in SlotsOf(v) /\ work[v].at = "save"
              /\ work[v].at \notin Waiting
          BY <5>1 DEF CallsOf, Busy, At, Waiting
        <5> QED
          BY <1>1, <5>2, InsideFacts, SlotsOfCall DEF AllOf
      <4> QED
        BY <2>3, <2>4, <3>3, <4>1 DEF Saving
    <3> QED
      BY <3>4, <3>5, <3>6 DEF Hanging
  <2>9. Stands(slot)'
    BY <2>1 DEF Stands
  <2> QED
    BY <2>5, <2>6, <2>7, <2>8, <2>9
<1>21. \A slot \in Slots :
         ToldOnce(slot)' /\ OneRef(slot)' /\ OneMessage(slot)' /\ Hanging(slot)' /\ Stands(slot)'
  BY <1>1, <1>3, <1>19, <1>20, UntouchedToldOnce, UntouchedOneRef, UntouchedOneMessage,
     UntouchedHanging, UntouchedStands DEF IInv, Reported
<1>22. \A v \in Busy' : Knows(v)'
  <2>1. SUFFICES ASSUME NEW v \in Busy
                 PROVE  Knows(v)'
    BY <1>12
  <2>2. v \in Workers /\ ~At(v, "idle") /\ Kept(v) /\ Knows(v)
    BY <1>10 DEF Busy, IInv
  <2>3. \/ "run" \in work'[v].met
        \/ \A slot \in SlotsOf(v) : Untouched(slot)
    <3>1. SlotsOf(v) \subseteq Slots
      BY <1>1, <2>2, SlotsOfCall
    <3> QED
      BY <1>10, <1>19, <2>2, <3>1
  <2> QED
    BY <1>1, <1>3, <1>8, <2>2, <2>3, UntouchedKnows
<1> QED
  BY <1>6, <1>13, <1>15, <1>16, <1>17, <1>21, <1>22 DEF IInv, Reported

-----------------------------------------------------------------------------
(* A call begins.                                                          *)

\* The call as it begins.
NewCall(h, b, ev, met) ==
  [at |-> "dedupe", h |-> h, build |-> b, event |-> ev, doing |-> "", ref |-> 0, tries |-> 0,
   met |-> met]

\* Where the call begins, if it is wanted.
LEMMA Begins ==
  ASSUME TypeOK, NEW h \in on, NEW b \in Builds, NEW ev \in Events, NEW met \in SUBSET {"run", "client"},
         h.does = "flush" \/ Cardinality(DOMAIN ev) = 1,
         NEW first,
         first = IF h.store = "none" THEN Entered(NewCall(h, b, ev, met)) ELSE NewCall(h, b, ev, met),
         first # Idle
  PROVE  /\ first \in Calls /\ IsCall(first) /\ first.h = h /\ first.build = b /\ first.event = ev
         /\ first.ref = 0 /\ first.tries = 0 /\ first.met = met /\ first.at # "idle"
         /\ first.at = (IF h.store = "none" THEN FirstStep(h) ELSE "dedupe")
         /\ h.store = "none" => /\ first.doing \in FirstRequests(h.does)
                                /\ h.does = "alert" => \A r \in DOMAIN ev : first.doing = h.acts[ev[r]]
<1>1. IsHandler(h)
  BY HandlersByID DEF TypeOK
<1>2. /\ DOMAIN ev # {} /\ IsFiniteSet(DOMAIN ev) /\ DOMAIN ev \subseteq Runs
  BY NotifyAssumption
<1>3. h.does # "flush" => \E r \in Runs : DOMAIN ev = {r}
  BY <1>2, FS_Singleton
<1>4. PICK call : call = NewCall(h, b, ev, met)
  OBVIOUS
<1>5. /\ call \in Calls /\ call.at = "dedupe" /\ call.h = h /\ call.build = b /\ call.event = ev
      /\ call.doing = "" /\ call.ref = 0 /\ call.tries = 0 /\ call.met = met
  BY <1>4 DEF NewCall, Calls, Waiting, Requests
<1>6. CASE h.store # "none"
  <2>1. first = call
    BY <1>4, <1>6
  <2>2. IsCall(first)
    BY <1>3, <1>5, <1>6, <2>1 DEF IsCall, Waiting
  <2> QED
    BY <1>5, <1>6, <2>1, <2>2
<1>7. CASE h.store = "none"
  <2>1. first = Entered(call)
    BY <1>4, <1>7
  <2>2. \A q \in DOMAIN ev : Wanted(h, ev[q])
    BY <1>5, <2>1 DEF Entered
  <2>3. PICK r, doing : r = (CHOOSE q \in DOMAIN ev : TRUE) /\ doing = h.acts[ev[r]]
    OBVIOUS
  <2>4. PICK step : step = FirstStep(h)
    OBVIOUS
  <2>5. first = [call EXCEPT !.at = step, !.doing = doing]
    <3>1. \A q \in DOMAIN call.event : Wanted(call.h, call.event[q])
      BY <1>5, <2>2
    <3>2. Entered(call) = [call EXCEPT !.at = FirstStep(call.h),
                                       !.doing = call.h.acts[call.event[CHOOSE q \in DOMAIN call.event : TRUE]]]
      BY <3>1 DEF Entered
    <3>3. FirstStep(call.h) = step /\ call.h.acts[call.event[CHOOSE q \in DOMAIN call.event : TRUE]] = doing
      BY <1>5, <2>3, <2>4
    <3> QED
      BY <2>1, <3>2, <3>3
  <2>6. first = Call(call, step, doing, call.ref, call.tries, call.met)
    BY <1>5, <2>5, RewrittenEntry
  <2>7. r \in DOMAIN ev
    BY <1>2, <2>3
  <2>8. ev[r] \in DOMAIN h.acts
    BY <2>2, <2>7 DEF Wanted
  <2>9. doing \in FirstRequests(h.does)
    BY <1>1, <2>3, <2>8 DEF IsHandler
  <2>10. /\ step \in Procedure(h) /\ step \in Steps /\ step \notin Waiting
         /\ doing \in RequestsOf(h) /\ doing \in Requests /\ step # "save" /\ doing # "edit"
    BY <1>1, <2>4, <2>9, ProcedureFacts
  <2>11. /\ first \in Calls /\ first.at = step /\ first.doing = doing /\ first.ref = 0
         /\ first.tries = 0 /\ first.met = met /\ first.h = h /\ first.build = b /\ first.event = ev
    <3>1. call.ref \in Nat /\ call.tries \in Nat /\ call.met \in SUBSET {"run", "client"}
      BY <1>5 DEF Calls
    <3>2. /\ first \in Calls /\ first.at = step /\ first.doing = doing /\ first.ref = call.ref
          /\ first.tries = call.tries /\ first.met = call.met /\ first.h = call.h
          /\ first.build = call.build /\ first.event = call.event
      <4>1. call \in Calls /\ step \in Steps /\ doing \in Requests
        BY <1>5, <2>10
      <4>2. first = Call(call, step, doing, call.ref, call.tries, call.met)
        BY <2>6
      <4> QED
        BY <3>1, <4>1, <4>2, CallFields
    <3> QED
      BY <1>5, <3>2
  <2>12. IsCall(first)
    BY <1>3, <2>2, <2>10, <2>11 DEF IsCall
  <2>13. h.does = "alert" => \A q \in DOMAIN ev : doing = h.acts[ev[q]]
    BY <1>3, <2>3, <2>7
  <2>14. first.at # "idle"
    BY <2>11, NotIdle
  <2> QED
    BY <1>7, <2>4, <2>9, <2>11, <2>12, <2>13, <2>14
<1> QED
  BY <1>6, <1>7

\* Handle is called: the calls of the same runs learn of each other.
LEMMA StartStep ==
  ASSUME IInv, NEW w \in Workers, NEW h \in on, NEW ev \in Events, NEW b \in BuildsOf(h),
         Start(w, h, b, ev)
  PROVE  IInv'
<1>1. /\ TypeOK /\ RefsOK /\ work \in [Workers -> Calls \cup {Idle}] /\ At(w, "idle")
      /\ Rivals /\ Settled /\ PolicyFound /\ OwnPolicy
  BY DEF IInv, TypeOK, CallsOK, Start
<1>2. b \in Builds
  BY NotifyAssumption DEF BuildsOf
<1>3. PICK S, rivals :
        /\ S = {<<h.id, r>> : r \in DOMAIN ev}
        /\ rivals = {v \in Busy : SlotsOf(v) \cap S # {}}
  OBVIOUS
<1>4. PICK met, first :
        /\ met = (IF rivals = {} THEN {} ELSE {"run"})
        /\ first = IF h.store = "none" THEN Entered(NewCall(h, b, ev, met)) ELSE NewCall(h, b, ev, met)
  OBVIOUS
<1>5. PICK elsewhere : elsewhere = {slot \in S : \E c \in Builds \ {b} : refs[c][slot] # 0}
  OBVIOUS
<1>6. /\ first # Idle /\ (h.does = "flush" \/ Cardinality(DOMAIN ev) = 1)
      /\ work' = [v \in Workers |-> IF v = w THEN first
                                    ELSE IF v \in rivals THEN [work[v] EXCEPT !.met = @ \cup {"run"}]
                                    ELSE work[v]]
      /\ latest' = [slot \in Slots |-> IF slot \in S THEN "none" ELSE latest[slot]]
      /\ excused' = excused \cup (IF rivals = {} THEN {} ELSE S \X {"overlap"})
                            \cup (elsewhere \X {"elsewhere"})
      /\ events' = events + 1
  BY <1>3, <1>4, <1>5 DEF Start, NewCall
<1>7. /\ on' = on /\ items' = items /\ refs' = refs /\ seen' = seen /\ client' = client
      /\ UNCHANGED streams /\ tried' = tried /\ dropped' = dropped /\ faults' = faults
  BY DEF Start
<1>8. met \in SUBSET {"run", "client"}
  BY <1>4
<1>9. /\ first \in Calls /\ IsCall(first) /\ first.h = h /\ first.build = b /\ first.event = ev
      /\ first.ref = 0 /\ first.tries = 0 /\ first.met = met /\ first.at # "idle"
      /\ first.at = (IF h.store = "none" THEN FirstStep(h) ELSE "dedupe")
      /\ h.store = "none" => /\ first.doing \in FirstRequests(h.does)
                             /\ h.does = "alert" => \A r \in DOMAIN ev : first.doing = h.acts[ev[r]]
  BY <1>1, <1>2, <1>4, <1>6, <1>8, Begins
<1>10. IsHandler(h) /\ h.id \in Ids /\ HandlerOf(h.id) = h /\ DOMAIN ev # {} /\ DOMAIN ev \subseteq Runs
  BY <1>1, HandlersByID, NotifyAssumption DEF TypeOK
<1>11. S \subseteq Slots /\ \A slot \in S : slot[1] = h.id /\ slot[2] \in DOMAIN ev
  BY <1>3, <1>10 DEF Slots
<1>12. /\ first.at \notin {"save", "transport"}
       /\ first.at = "attempt" => h.via # "client" /\ h.does \notin Keepers
       /\ h.store # "none" => first.at \in Waiting
       /\ h.store = "none" => first.doing # "create" /\ (h.does = "issue" => first.doing = "search")
  BY <1>9, <1>10, FirstSteps DEF Waiting
<1>13. Slots' = Slots /\ Ids' = Ids /\ Calls' = Calls /\ \A id : HandlerOf(id)' = HandlerOf(id)
  BY <1>7, SameHandlers
<1>14. ItemsOK' /\ Grown
  BY <1>1, <1>7, NoItemStep DEF ItemStep
<1>15. RefsOK' /\ \A c \in Builds, slot \in Slots : refs'[c][slot] = refs[c][slot]
  BY <1>1, <1>7, <1>14, RefsStay
<1>16. work'[w] = first
  BY <1>6
<1>17. ASSUME NEW v \in Workers \ {w}
       PROVE  /\ Kept(v) /\ work'[v] \in Calls \cup {Idle}
              /\ v \in rivals => "run" \in work'[v].met
              /\ "client" \in work'[v].met /\ v \in Busy => "client" \in work[v].met
  <2>1. CASE v \in rivals
    <3>1. ~At(v, "idle") /\ work'[v] = [work[v] EXCEPT !.met = @ \cup {"run"}]
      BY <1>3, <1>6, <2>1 DEF Busy
    <3>2. Kept(v) /\ work'[v] \in Calls /\ "run" \in work'[v].met
          /\ ("client" \in work'[v].met => "client" \in work[v].met)
      BY <1>1, <3>1, Disturbed
    <3> QED
      BY <3>2
  <2>2. CASE v \notin rivals
    <3>1. work'[v] = work[v]
      BY <1>6, <2>2
    <3>2. ~At(v, "idle") => work[v] \in Calls
      BY <1>1, CallOf
    <3> QED
      BY <1>1, <2>2, <3>1, <3>2 DEF Kept, Alike
  <2> QED
    BY <2>1, <2>2
<1>18. \A v \in Busy : /\ v \in Workers \ {w} /\ ~At(v, "idle") /\ Alike(work[v], work'[v])
                       /\ IsCall(work[v])' /\ ~At(v, "idle")' /\ SlotsOf(v)' = SlotsOf(v)
                       /\ TheRun(v)' = TheRun(v)
                       /\ \A step : At(v, step)' <=> At(v, step)
  <2>1. \A v \in Busy : v \in Workers \ {w} /\ ~At(v, "idle")
    BY <1>1 DEF Busy
  <2>2. \A v \in Busy : /\ IsCall(work[v])' /\ Alike(work[v], work'[v]) /\ ~At(v, "idle")'
                        /\ SlotsOf(v)' = SlotsOf(v) /\ TheRun(v)' = TheRun(v)
    BY <1>1, <1>7, <1>14, <1>17, <2>1, KeptCall
  <2> QED
    BY <2>1, <2>2 DEF Alike, At
<1>19. Busy' = Busy \cup {w}
  <2>1. \A v \in Workers \ {w} : At(v, "idle") => At(v, "idle")'
    BY <1>17 DEF Kept, At
  <2>2. ~At(w, "idle")'
    BY <1>9, <1>16 DEF At
  <2> QED
    BY <1>18, <2>1, <2>2 DEF Busy
<1>20. SlotsOf(w)' = S
  BY <1>3, <1>9, <1>16 DEF SlotsOf
<1>21. TypeOK'
  <2>1. CallsOK'
    <3>1. work' \in [Workers -> Calls \cup {Idle}]
      <4>1. \A v \in Workers : work'[v] \in Calls \cup {Idle}
        BY <1>9, <1>16, <1>17
      <4>2. work' = [v \in Workers |-> work'[v]]
        BY <1>6
      <4> QED
        BY <4>1, <4>2
    <3>2. IsCall(work[w])'
      <4>1. Procedure(h)' = Procedure(h) /\ RequestsOf(h)' = RequestsOf(h)
        BY DEF Procedure, RequestsOf
      <4> QED
        BY <1>9, <1>13, <1>16, <4>1 DEF IsCall
    <3> QED
      BY <1>13, <1>18, <1>19, <3>1, <3>2 DEF CallsOK
  <2>2. latest' \in [Slots -> AllStates \cup {"none"}]
    BY <1>1, <1>6 DEF TypeOK
  <2>3. events' \in Nat
    BY <1>1, <1>6 DEF TypeOK
  <2> QED
    BY <1>1, <1>7, <1>13, <1>14, <1>15, <2>1, <2>2, <2>3 DEF TypeOK, streams
<1>22. excused \subseteq excused'
  BY <1>6
<1>23. rivals # {} => met = {"run"} /\ \A slot \in S : <<slot, "overlap">> \in excused'
  BY <1>4, <1>6
<1>24. Rivals'
  <2>1. SUFFICES ASSUME NEW v \in Busy', NEW u \in Busy', v # u,
                        NEW slot \in SlotsOf(v)' \cap SlotsOf(u)'
                 PROVE  "run" \in work'[v].met /\ Excused(slot, {"overlap"})'
    BY DEF Rivals
  <2>2. CASE v = w
    <3>1. u \in Busy /\ slot \in SlotsOf(u) /\ slot \in S
      BY <1>18, <1>19, <1>20, <2>1, <2>2
    <3>2. u \in rivals
      BY <1>3, <3>1
    <3> QED
      BY <1>9, <1>16, <1>23, <2>2, <3>1, <3>2 DEF Excused
  <2>3. CASE u = w
    <3>1. v \in Busy /\ slot \in SlotsOf(v) /\ slot \in S /\ v \in Workers \ {w}
      BY <1>18, <1>19, <1>20, <2>1, <2>3
    <3>2. v \in rivals
      BY <1>3, <3>1
    <3> QED
      BY <1>17, <1>23, <3>1, <3>2 DEF Excused
  <2>4. CASE v # w /\ u # w
    <3>1. v \in Busy /\ u \in Busy /\ slot \in SlotsOf(v) \cap SlotsOf(u) /\ Alike(work[v], work'[v])
      BY <1>18, <1>19, <2>1, <2>4
    <3>2. "run" \in work[v].met /\ Excused(slot, {"overlap"})
      BY <1>1, <2>1, <3>1 DEF Rivals
    <3> QED
      BY <1>22, <3>1, <3>2 DEF Alike, Excused
  <2> QED
    BY <2>2, <2>3, <2>4
<1>25. \A slot \in Slots :
         /\ slot \notin S => CallsOf(slot)' = CallsOf(slot)
         /\ slot \in S => CallsOf(slot)' = CallsOf(slot) \cup {w}
         /\ w \notin CallsOf(slot)
         /\ \A v \in CallsOf(slot) : v \in Busy /\ Alike(work[v], work'[v])
  <2>1. w \notin Busy
    BY <1>1 DEF Busy
  <2> QED
    BY <1>18, <1>19, <1>20, <2>1 DEF CallsOf
<1>26. Settled'
  BY <1>1, <1>6, <1>13, <1>25 DEF Settled
<1>27. PolicyFound' /\ OwnPolicy'
  <2>1. \A v \in Busy : work'[v].h = work[v].h /\ work'[v].tries = work[v].tries
                        /\ ("client" \notin work'[v].met => "client" \notin work[v].met)
    BY <1>17, <1>18 DEF Alike
  <2>2. PolicyFound'
    <3>1. ~At(w, "transport")'
      BY <1>12, <1>16 DEF At
    <3> QED
      BY <1>1, <1>7, <1>18, <1>19, <2>1, <3>1 DEF PolicyFound
  <2>3. OwnPolicy'
    <3>1. ~(At(w, "attempt")' /\ work'[w].h.via = "client")
      BY <1>9, <1>12, <1>16 DEF At
    <3> QED
      BY <1>1, <1>7, <1>18, <1>19, <2>1, <3>1 DEF OwnPolicy
  <2> QED
    BY <2>2, <2>3
<1>28. Registered' /\ OnlySeenDropped' /\ Detached'
  BY <1>7, SameEntries, SameStreams
<1>29. \A slot : AllOf(slot)' = AllOf(slot) /\ ItemsOf(slot)' = ItemsOf(slot)
  BY <1>1, <1>7, QuietViews
<1>30. ASSUME NEW slot \in Slots \ S
       PROVE  Untouched(slot) /\ latest'[slot] = latest[slot]
  BY <1>6, <1>7, <1>15, <1>22, <1>25, <1>29, <1>30 DEF Untouched
<1>31. ASSUME NEW slot \in S
       PROVE  ToldOnce(slot)' /\ OneRef(slot)' /\ OneMessage(slot)' /\ Hanging(slot)' /\ Stands(slot)'
  <2>1. /\ slot \in Slots /\ latest'[slot] = "none" /\ HandlerOf(slot[1]) = h /\ HandlerOf(slot[1])' = h
        /\ CallsOf(slot)' = CallsOf(slot) \cup {w} /\ w \notin CallsOf(slot)
    BY <1>6, <1>10, <1>11, <1>13, <1>25, <1>31
  <2>2. /\ ToldOnce(slot) /\ OneRef(slot) /\ OneMessage(slot) /\ Hanging(slot)
        /\ \A reasons : Excused(slot, reasons) => Excused(slot, reasons)'
    BY <1>22, <2>1 DEF IInv, Excused
  <2>3. AllOf(slot)' = AllOf(slot) /\ ItemsOf(slot)' = ItemsOf(slot)
    BY <1>29
  <2>4. ~Excused(slot, {"overlap"})' => CallsOf(slot) = {} /\ CallsOf(slot)' = {w}
    <3>1. CallsOf(slot) \subseteq rivals
      BY <1>3, <1>31 DEF CallsOf
    <3> QED
      BY <1>23, <1>31, <2>1, <3>1 DEF Excused
  <2>5. ToldOnce(slot)'
    <3>1. SUFFICES ASSUME h.store = "shared", h.does = "post", ~Excused(slot, {"store", "repeated"})'
                   PROVE  ToldOnce(slot)'
      BY <2>1 DEF ToldOnce
    <3>2. work'[w].at \in Waiting
      BY <1>12, <1>16, <3>1
    <3>3. Inside(slot)' = Inside(slot) /\ \A v \in Inside(slot) : work'[v].event = work[v].event
      BY <1>25, <2>1, <3>2 DEF Inside, Alike
    <3> QED
      BY <1>7, <2>1, <2>2, <2>3, <3>1, <3>3 DEF ToldOnce
  <2>6. OneRef(slot)'
    <3>1. SUFFICES ASSUME h.does \in Keepers, ~Excused(slot, {"overlap", "elsewhere", "forgot"})'
                   PROVE  OneRef(slot)'
      BY <2>1 DEF OneRef
    <3>2. ~Excused(slot, {"overlap"})' /\ <<slot, "elsewhere">> \notin excused'
          /\ ~Excused(slot, {"overlap", "elsewhere", "forgot"})
      BY <2>2, <3>1 DEF Excused
    <3>3. CallsOf(slot)' = {w}
      BY <2>4, <3>2
    <3>4. \A c \in Builds : refs[c][slot] # 0 => c = b
      BY <1>5, <1>6, <1>31, <3>2
    <3>5. work'[w].build = b /\ ~At(w, "attempt")'
      BY <1>9, <1>12, <1>16, <3>1 DEF At
    <3> QED
      BY <1>7, <3>3, <3>4, <3>5 DEF OneRef
  <2>7. OneMessage(slot)'
    <3>1. SUFFICES ASSUME h.does \in {"upsert", "repost", "issue"},
                          ~Excused(slot, {"overlap", "elsewhere", "forgot", "edit failed", "repeated"})'
                   PROVE  OneMessage(slot)'
      BY <2>1 DEF OneMessage
    <3>2. ~Excused(slot, {"overlap"})'
      BY <3>1 DEF Excused
    <3>3. ~Excused(slot, {"overlap", "elsewhere", "forgot", "edit failed", "repeated"})
      BY <2>2, <3>1
    <3>4. CallsOf(slot) = {} /\ CallsOf(slot)' = {w}
      BY <2>4, <3>2
    <3>5. /\ \A i, j \in ItemsOf(slot) : i = j
          /\ h.does # "issue" => \A i \in ItemsOf(slot) : \E c \in Builds : refs[c][slot] = i
      BY <2>1, <2>2, <3>1, <3>3, <3>4 DEF OneMessage
    <3>6. w \in Inside(slot)' => /\ ~At(w, "save")' /\ work'[w].doing # "create"
                                 /\ ~(At(w, "attempt")' /\ work'[w].doing = "post")
      <4>1. w \in Inside(slot)' => h.store = "none"
        BY <1>12, <1>16 DEF Inside
      <4> QED
        BY <1>12, <1>16, <3>1, <4>1 DEF At, Keepers
    <3>7. Inside(slot)' \subseteq {w}
      BY <3>4 DEF Inside
    <3> QED
      BY <1>7, <2>1, <2>3, <3>5, <3>6, <3>7 DEF OneMessage
  <2>8. Hanging(slot)'
    <3>1. SUFFICES ASSUME h.does \in {"thread", "mail"},
                          ~Excused(slot, {"overlap", "elsewhere", "forgot", "repeated"})'
                   PROVE  Hanging(slot)'
      BY <2>1 DEF Hanging
    <3>2. ~Excused(slot, {"overlap"})' /\ ~Excused(slot, {"overlap", "elsewhere", "forgot", "repeated"})
      BY <2>2, <3>1 DEF Excused
    <3>3. CallsOf(slot) = {} /\ CallsOf(slot)' = {w}
      BY <2>4, <3>2
    <3>4. Replying(slot) /\ Referring(slot) /\ (IsMail(slot)' <=> IsMail(slot))
      BY <2>1, <2>2, <3>1, <3>2 DEF Hanging, IsMail
    <3>5. ~At(w, "save")'
      BY <1>12, <1>16 DEF At
    <3>6. Replying(slot)'
      BY <1>7, <2>3, <3>4 DEF Replying
    <3>7. Referring(slot)'
      BY <1>7, <2>3, <3>3, <3>4 DEF Referring
    <3>8. Saving(slot)'
      BY <3>3, <3>5 DEF Saving
    <3> QED
      BY <3>6, <3>7, <3>8 DEF Hanging
  <2>9. Stands(slot)'
    BY <2>1 DEF Stands
  <2> QED
    BY <2>5, <2>6, <2>7, <2>8, <2>9
<1>32. \A slot \in Slots :
         ToldOnce(slot)' /\ OneRef(slot)' /\ OneMessage(slot)' /\ Hanging(slot)' /\ Stands(slot)'
  BY <1>1, <1>7, <1>30, <1>31, UntouchedToldOnce, UntouchedOneRef, UntouchedOneMessage,
     UntouchedHanging, UntouchedStands DEF IInv, Reported
<1>33. \A v \in Busy' : Knows(v)'
  <2>1. Knows(w)'
    <3>1. ~At(w, "save")'
      BY <1>12, <1>16 DEF At
    <3>2. ~At(w, "dedupe")' => h.store = "none"
      BY <1>9, <1>16 DEF At
    <3> QED
      BY <1>9, <1>16, <3>1, <3>2 DEF Knows
  <2>2. ASSUME NEW v \in Busy
        PROVE  Knows(v)'
    <3>1. v \in Workers /\ v # w /\ ~At(v, "idle") /\ Kept(v) /\ Knows(v)
      BY <1>17, <1>18 DEF IInv
    <3>2. "run" \in work'[v].met \/ \A slot \in SlotsOf(v) : Untouched(slot)
      <4>1. SlotsOf(v) \subseteq Slots
        BY <1>1, <3>1, SlotsOfCall
      <4> QED
        BY <1>3, <1>17, <1>30, <3>1, <4>1
    <3> QED
      BY <1>1, <1>7, <1>14, <3>1, <3>2, UntouchedKnows
  <2> QED
    BY <1>19, <2>1, <2>2
<1> QED
  BY <1>13, <1>21, <1>24, <1>26, <1>27, <1>28, <1>32, <1>33 DEF IInv, Reported

-----------------------------------------------------------------------------
(* The theorems.                                                           *)

\* Nothing has happened yet.
LEMMA Initially ==
  ASSUME Init
  PROVE  IInv
<1>1. /\ on \in Setups /\ items = <<>> /\ seen = {} /\ excused = {} /\ tried = {} /\ dropped = {}
      /\ refs = [b \in Builds |-> [slot \in Slots |-> 0]]
      /\ client = [max |-> 0, http |-> "none"] /\ connected = Builds
      /\ closed = [b \in Builds |-> "open"] /\ work = [w \in Workers |-> Idle]
      /\ latest = [slot \in Slots |-> "none"] /\ events = 0 /\ faults = 0
  BY DEF Init
<1>2. Busy = {}
  BY <1>1 DEF Busy, At, Idle
<1>3. DOMAIN items = {} /\ items \in Seq(Items)
  BY <1>1
<1>4. /\ \A b \in Builds, slot \in Slots : refs[b][slot] = 0
      /\ refs \in [Builds -> [Slots -> Nat]]
  BY <1>1
<1>5. TypeOK
  <2>1. ItemsOK
    BY <1>3 DEF ItemsOK
  <2>2. RefsOK
    BY <1>4 DEF RefsOK
  <2>3. CallsOK
    BY <1>1, <1>2 DEF CallsOK
  <2>4. client \in [max : {0} \cup {h.attempts - 1 : h \in on}, http : Ids \cup {"none"}]
    BY <1>1
  <2>5. /\ connected \subseteq Builds /\ closed \in [Builds -> {"open", "closing", "closed"}]
        /\ latest \in [Slots -> AllStates \cup {"none"}]
    BY <1>1
  <2> QED
    BY <1>1, <2>1, <2>2, <2>3, <2>4, <2>5 DEF TypeOK
<1>6. Rivals /\ PolicyFound /\ OwnPolicy /\ \A w \in Busy : Knows(w)
  BY <1>2 DEF Rivals, PolicyFound, OwnPolicy
<1>7. Registered /\ OnlySeenDropped /\ Detached
  BY <1>1 DEF Registered, OnlySeenDropped, Detached
<1>8. /\ \A slot : AllOf(slot) = {} /\ ItemsOf(slot) = {} /\ CallsOf(slot) = {} /\ Inside(slot) = {}
      /\ \A slot \in Slots : latest[slot] = "none"
  BY <1>1, <1>2, <1>3 DEF AllOf, ItemsOf, Live, CallsOf, Inside
<1>9. Settled /\ Reported
  BY <1>8 DEF Settled, Reported, Stands
<1>10. ASSUME NEW slot \in Slots
       PROVE  ToldOnce(slot) /\ OneRef(slot) /\ OneMessage(slot) /\ Hanging(slot)
  <2>1. ToldOnce(slot)
    BY <1>8 DEF ToldOnce
  <2>2. OneRef(slot)
    BY <1>4, <1>8 DEF OneRef
  <2>3. OneMessage(slot)
    BY <1>8 DEF OneMessage
  <2>4. Hanging(slot)
    BY <1>4, <1>8 DEF Hanging, Replying, Referring, Saving
  <2> QED
    BY <2>1, <2>2, <2>3, <2>4
<1> QED
  BY <1>5, <1>6, <1>7, <1>9, <1>10 DEF IInv

\* Nothing happens.
LEMMA Stuttering ==
  ASSUME IInv, UNCHANGED vars
  PROVE  IInv'
<1>1. TypeOK /\ work \in [Workers -> Calls \cup {Idle}]
  BY DEF IInv, TypeOK, CallsOK
<1>2. /\ on' = on /\ items' = items /\ client' = client /\ latest' = latest /\ tried' = tried
      /\ dropped' = dropped /\ events' = events /\ excused' = excused /\ seen' = seen /\ work' = work
      /\ refs' = refs /\ faults' = faults /\ UNCHANGED streams
  BY DEF vars, streams
<1>3. /\ connected' \subseteq Builds /\ closed' \in [Builds -> {"open", "closing", "closed"}]
      /\ Detached' /\ faults' \in Nat
  BY <1>1, <1>2, BesideSame, SameStreams
<1>4. RefsOK' /\ \A c \in Builds, slot \in Slots : refs'[c][slot] = refs[c][slot]
  BY <1>1, <1>2, NoItemStep, RefsStay
<1>5. PICK S \in SUBSET Slots : S = {}
  OBVIOUS
<1> QED
  BY <1>1, <1>2, <1>3, <1>4, <1>5, CalmStep

\* Every step keeps the invariant.
LEMMA NextStep ==
  ASSUME IInv, [Next]_vars
  PROVE  IInv'
<1>1. ASSUME NEW w \in Workers,
             NEW h \in on, NEW ev \in Events, NEW b \in BuildsOf(h), Start(w, h, b, ev)
      PROVE  IInv'
  BY <1>1, StartStep
<1>2. ASSUME NEW w \in Workers, Dedupe(w) \/ Mark(w)
      PROVE  IInv'
  BY <1>2, DedupeStep, MarkStep
<1>3. ASSUME NEW w \in Workers, Load(w) \/ Save(w)
      PROVE  IInv'
  BY <1>3, LoadStep, SaveStep
<1>4. ASSUME NEW w \in Workers, SetPolicy(w) \/ SetTransport(w)
      PROVE  IInv'
  BY <1>4, SetPolicyStep, SetTransportStep
<1>5. ASSUME NEW w \in Workers, Attempt(w) \/ Annotate(w) \/ Check(w)
      PROVE  IInv'
  BY <1>5, AttemptStep, AnnotateStep, CheckStep
<1>6. ASSUME NEW b \in Builds, NEW slot \in Slots, Evict(b, slot)
      PROVE  IInv'
  BY <1>6, EvictStep
<1>7. ASSUME NEW b \in Builds, Restart(b) \/ Close(b) \/ Disconnect(b)
      PROVE  IInv'
  BY <1>7, RestartStep, CloseStep
<1>8. ASSUME NEW k \in seen, Expire(k)
      PROVE  IInv'
  BY <1>8, ExpireStep
<1>9. ASSUME NEW i \in DOMAIN items, Delete(i)
      PROVE  IInv'
  BY <1>9, DeleteStep
<1> QED
  BY <1>1, <1>2, <1>3, <1>4, <1>5, <1>6, <1>7, <1>8, <1>9, Stuttering DEF Next

\* The handlers, their wrappers and the services keep to the inductive
\* invariant, whatever overlaps, fails, is repeated, lost or forgotten.
THEOREM Invariant == Spec => []IInv
<1>1. Init => IInv
  BY Initially
<1>2. IInv /\ [Next]_vars => IInv'
  BY NextStep
<1> QED
  BY <1>1, <1>2, PTL DEF Spec

\* Calls stay within the procedure of their handler, and references and
\* replies within their run.
THEOREM TypeCorrect == Spec => []TypeOK
<1>1. IInv => TypeOK
  BY DEF IInv
<1> QED
  BY <1>1, Invariant, PTL

\* What Handle has reported stands: the service tells it, until the next
\* event of the run.
THEOREM ReportsStand == Spec => []Reported
<1>1. IInv => Reported
  BY DEF IInv
<1> QED
  BY <1>1, Invariant, PTL

\* DedupeHandler drops no event that no handler of its name has been given.
THEOREM DropsOnlySeen == Spec => []OnlySeenDropped
<1>1. IInv => OnlySeenDropped
  BY DEF IInv
<1> QED
  BY <1>1, Invariant, PTL

\* DoWithRetryPolicy: undisturbed, a call's attempts follow its own policy;
\* disturbed, they are still bounded by one of the policies.
THEOREM PolicyOfOwn == Spec => []OwnPolicy
<1>1. IInv => OwnPolicy
  BY DEF IInv
<1> QED
  BY <1>1, Invariant, PTL

\* All of a set that are the same are one.
LEMMA AtMostOne ==
  ASSUME NEW S, \A i, j \in S : i = j
  PROVE  Cardinality(S) <= 1
<1>1. CASE S = {}
  BY <1>1, FS_EmptySet
<1>2. CASE S # {}
  <2>1. PICK i \in S : S = {i}
    BY <1>2
  <2>2. Cardinality(S) = 1
    BY <2>1, FS_Singleton
  <2> QED
    BY <2>2
<1> QED
  BY <1>1, <1>2

\* Upsert handlers, createIssue and handlers with a shared dedupe store say
\* a thing twice only for one of the reasons that the model names.
THEOREM DuplicatesHaveReasons == Spec => []DuplicatesExplained
<1>1. ASSUME IInv
      PROVE  DuplicatesExplained
  <2>1. SUFFICES ASSUME NEW slot \in Slots
                 PROVE  /\ HandlerOf(slot[1]).does \in {"upsert", "repost", "issue"} =>
                             \/ Cardinality(ItemsOf(slot)) <= 1
                             \/ Excused(slot, {"overlap", "elsewhere", "forgot", "edit failed", "repeated"})
                        /\ HandlerOf(slot[1]).store = "shared" /\ HandlerOf(slot[1]).does = "post" =>
                             \/ \A i, j \in ItemsOf(slot) : items[i].of = items[j].of => i = j
                             \/ Excused(slot, {"store", "repeated"})
    BY DEF DuplicatesExplained
  <2>2. OneMessage(slot) /\ ToldOnce(slot)
    BY <1>1 DEF IInv
  <2>3. ASSUME HandlerOf(slot[1]).does \in {"upsert", "repost", "issue"},
               ~Excused(slot, {"overlap", "elsewhere", "forgot", "edit failed", "repeated"})
        PROVE  Cardinality(ItemsOf(slot)) <= 1
    <3>1. \A i, j \in ItemsOf(slot) : i = j
      BY <2>2, <2>3 DEF OneMessage
    <3> QED
      BY <3>1, AtMostOne
  <2>4. ASSUME HandlerOf(slot[1]).store = "shared" /\ HandlerOf(slot[1]).does = "post",
               ~Excused(slot, {"store", "repeated"})
        PROVE  \A i, j \in ItemsOf(slot) : items[i].of = items[j].of => i = j
    <3>1. \A i, j \in AllOf(slot) : items[i].of = items[j].of => i = j
      BY <2>2, <2>4 DEF ToldOnce
    <3>2. ItemsOf(slot) \subseteq AllOf(slot)
      BY DEF ItemsOf, AllOf, Live
    <3> QED
      BY <3>1, <3>2
  <2> QED
    BY <2>3, <2>4
<1> QED
  BY <1>1, Invariant, PTL

\* Thread mode and mail: the messages of a run hang together.
THEOREM ThreadsHang == Spec => []OneThread
<1>1. ASSUME IInv
      PROVE  OneThread
  <2> SUFFICES ASSUME NEW slot \in Slots, HandlerOf(slot[1]).does \in {"thread", "mail"}
               PROVE  LET its == {i \in DOMAIN items : items[i].by = slot[1] /\ slot[2] \in DOMAIN items[i].of}
                          replies == {i \in its : items[i].to # 0}
                      IN  /\ \A i \in replies : items[i].to \in its
                          /\ \/ Excused(slot, {"overlap", "elsewhere", "forgot", "repeated"})
                             \/ /\ Cardinality(its \ replies) <= 1
                                /\ \A i \in replies :
                                     IF HandlerOf(slot[1]).does = "mail" THEN items[i].to \in its \ replies
                                     ELSE items[i].to = Max({j \in its : j < i})
    BY DEF OneThread
  <2> DEFINE its == {i \in DOMAIN items : items[i].by = slot[1] /\ slot[2] \in DOMAIN items[i].of}
             replies == {i \in its : items[i].to # 0}
  <2>1. its = AllOf(slot) /\ HandlerOf(slot[1]).does \in {"thread", "mail"}
    BY DEF AllOf
  <2>2. /\ TypeOK /\ Hanging(slot) /\ its \subseteq DOMAIN items
        /\ DOMAIN items = 1..Len(items) /\ Len(items) \in Nat
    <3>1. TypeOK /\ Hanging(slot) /\ its \subseteq DOMAIN items
      BY <1>1, <2>1 DEF IInv, AllOf
    <3>2. items \in Seq(Items)
      BY <3>1 DEF TypeOK, ItemsOK
    <3> QED
      BY <3>1, <3>2
  <2>3. ASSUME NEW i \in replies
        PROVE  items[i].to \in its /\ items[i].to < i /\ i \in its /\ items[i].to # 0
    <3>1. i \in its /\ i \in DOMAIN items /\ items[i].to # 0
      BY <2>1, <2>2
    <3>2. /\ items[i].to < i /\ items[items[i].to].by = items[i].by
          /\ DOMAIN items[items[i].to].of = DOMAIN items[i].of
      BY <2>2, <3>1 DEF TypeOK, ItemsOK
    <3>3. items[i].to \in Nat
      BY <2>2, <3>1, ItemOf
    <3>4. items[i].to \in DOMAIN items
      BY <2>2, <3>1, <3>2, <3>3
    <3> QED
      BY <2>1, <3>1, <3>2, <3>4 DEF AllOf
  <2>4. ASSUME ~Excused(slot, {"overlap", "elsewhere", "forgot", "repeated"})
        PROVE  /\ Cardinality(its \ replies) <= 1
               /\ \A i \in replies :
                    IF HandlerOf(slot[1]).does = "mail" THEN items[i].to \in its \ replies
                    ELSE items[i].to = Max({j \in its : j < i})
    <3>1. Replying(slot)
      BY <2>1, <2>2, <2>4 DEF Hanging
    <3>2. Cardinality(its \ replies) <= 1
      <4>1. \A i, j \in its \ replies : i = j
        BY <2>1, <2>2, <3>1 DEF Replying
      <4> QED
        BY <4>1, AtMostOne
    <3>3. ASSUME NEW i \in replies, HandlerOf(slot[1]).does = "mail"
          PROVE  items[i].to \in its \ replies
      <4>1. items[items[i].to].to = 0
        BY <2>1, <2>3, <3>1, <3>3 DEF Replying, IsMail
      <4> QED
        BY <2>1, <2>3, <4>1
    <3>4. ASSUME NEW i \in replies, HandlerOf(slot[1]).does # "mail"
          PROVE  items[i].to = Max({j \in its : j < i})
      <4>1. \A j \in its : j < i => j <= items[i].to
        BY <2>1, <2>3, <3>1, <3>4 DEF Replying, IsMail
      <4>2. PICK S : S = {j \in its : j < i}
        OBVIOUS
      <4>3. PICK n \in Nat : n = Len(items)
        BY <2>2
      <4>4. items[i].to \in S /\ S \subseteq 1..n /\ \A j \in S : j <= items[i].to
        BY <2>2, <2>3, <4>1, <4>2, <4>3
      <4>5. PICK top : top = Max(S)
        OBVIOUS
      <4>6. top \in S /\ \A j \in S : top >= j
        BY <4>4, <4>5, MaxIn
      <4>7. PICK to : to = items[i].to
        OBVIOUS
      <4>8. to = top
        <5>1. \A m \in S : m \in Nat
          BY <4>4
        <5>2. to \in S /\ to <= top /\ top <= to
          BY <4>4, <4>6, <4>7
        <5> QED
          BY <4>6, <5>1, <5>2
      <4> QED
        BY <4>2, <4>5, <4>7, <4>8
    <3> QED
      BY <3>2, <3>3, <3>4
  <2> QED
    BY <2>3, <2>4
<1> QED
  BY <1>1, Invariant, PTL

\* An attempt ends its own call or carries it on.
LEMMA OwnCallOnly ==
  ASSUME NEW v, Attempt(v) \/ Annotate(v)
  PROVE  \E call : work' = [work EXCEPT ![v] = call]
BY DEF Attempt, Annotate, Answered, NotOffered, Refused, Retry, Return, Leave, Request, Goto

\* Close: a Handle that found the stream open puts nothing out once Close
\* has returned, unless the connection drains.
THEOREM SilentAfterClose == Spec => NothingAfterClose
<1>1. ASSUME IInv, [Next]_vars
      PROVE  \A w \in Busy :
               (At(w, "attempt") /\ work[w].doing = "publish" /\ work[w].h.name # "nats"
                  /\ closed[work[w].build] = "closed" /\ work'[w] = Idle) => items' = items
  <2>1. SUFFICES ASSUME NEW w \in Workers, At(w, "attempt"), ~At(w, "idle"),
                        work[w].doing = "publish", work[w].h.name # "nats",
                        closed[work[w].build] = "closed", work'[w] = Idle
                 PROVE  items' = items
    BY DEF Busy
  <2>2. TypeOK /\ Detached /\ work \in [Workers -> Calls \cup {Idle}]
    BY <1>1 DEF IInv, TypeOK, CallsOK
  <2>3. work[w] # Idle /\ work[w].build \in Builds /\ work[w] \in Calls
    BY <2>1, <2>2, CallOf DEF At, Idle
  <2>4. ~Accepted(w)
    <3>1. work[w].build \notin connected
      BY <2>1, <2>2, <2>3 DEF Detached
    <3> QED
      BY <2>1, <3>1 DEF Accepted
  <2>5. ASSUME NEW v \in Workers, Attempt(v) \/ Annotate(v)
        PROVE  items' = items
    <3>1. v = w
      <4>1. PICK call : work' = [work EXCEPT ![v] = call]
        BY <2>5, OwnCallOnly
      <4> QED
        BY <2>1, <2>2, <2>3, <4>1
    <3>2. Attempt(w)
      BY <2>1, <2>5, <3>1 DEF Annotate, At
    <3> QED
      BY <2>4, <3>2 DEF Attempt
  <2>6. ASSUME NEW v \in Workers,
               \/ \E h \in on, ev \in Events : \E b \in BuildsOf(h) : Start(v, h, b, ev)
               \/ Dedupe(v) \/ Mark(v) \/ Load(v) \/ Save(v)
               \/ SetPolicy(v) \/ SetTransport(v) \/ Check(v)
        PROVE  items' = items
    <3>1. ASSUME NEW h \in on, NEW ev \in Events, NEW b \in BuildsOf(h), Start(v, h, b, ev)
          PROVE  items' = items
      BY <3>1 DEF Start
    <3>2. ASSUME Dedupe(v) \/ Mark(v) \/ Load(v) \/ Save(v)
          PROVE  items' = items
      BY <3>2 DEF Dedupe, Mark, Load, Save
    <3>3. ASSUME SetPolicy(v) \/ SetTransport(v) \/ Check(v)
          PROVE  items' = items
      BY <3>3 DEF SetPolicy, SetTransport, Check
    <3> QED
      BY <2>6, <3>1, <3>2, <3>3
  <2>7. ASSUME NEW b \in Builds,
               \/ \E slot \in Slots : Evict(b, slot)
               \/ Restart(b) \/ Close(b) \/ Disconnect(b)
        PROVE  items' = items
    BY <2>7 DEF Evict, Restart, Close, Disconnect
  <2>8. ASSUME NEW k \in seen, Expire(k)
        PROVE  items' = items
    BY <2>8 DEF Expire
  <2>9. ASSUME NEW i \in DOMAIN items, Delete(i)
        PROVE  FALSE
    <3>1. work'[w] = work[w] \/ work'[w] = [work[w] EXCEPT !.met = @ \cup {"run"}]
      BY <2>1, <2>9 DEF Delete
    <3>2. work'[w].at = work[w].at
      BY <2>3, <3>1 DEF Calls
    <3> QED
      BY <2>1, <3>2 DEF At, Idle
  <2>10. ASSUME UNCHANGED vars
         PROVE  items' = items
    BY <2>10 DEF vars
  <2> QED
    BY <1>1, <2>5, <2>6, <2>7, <2>8, <2>9, <2>10 DEF Next
<1> QED
  BY <1>1, Invariant, PTL DEF Spec, NothingAfterClose
=============================================================================
