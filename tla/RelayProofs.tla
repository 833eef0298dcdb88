---------------------------- MODULE RelayProofs ----------------------------
(***************************************************************************)
(* Proofs about Relay, for any number of events, handlers, goroutines,     *)
(* replay calls and faults: the type invariant, that every acknowledged    *)
(* event is accounted for, that the dead letter queue changes only in the  *)
(* ways DeadLetterStep lists, and, where a store is shared, that a handler *)
(* is called once for an event and once more for each claim forgotten.     *)
(***************************************************************************)
EXTENDS Relay, FiniteSetTheorems, TLAPS

\* The state is always well typed: in particular a replay never runs under
\* an event of its own making, an override changes only the dedupe identity.
THEOREM TypeCorrect == Spec => []TypeOK
<1> USE RelayAssumption DEF TypeOK, Ids, Stages, ErrorKinds, Marks, SenderStates, Fates
<1>1. Init => TypeOK
  <2> SUFFICES ASSUME Init PROVE TypeOK
    OBVIOUS
  <2>1. ev \in [Slots -> Events] /\ id \in [Slots -> Ids]
    BY DEF Init
  <2> QED BY <2>1 DEF Init
<1>2. TypeOK /\ [Next]_vars => TypeOK'
  <2> SUFFICES ASSUME TypeOK, [Next]_vars PROVE TypeOK'
    OBVIOUS
  <2> USE DEF slotVars, jobVars, histVars, Goto, Stain, Respond, Fault
  <2>1. ASSUME NEW s \in Slots, Receive(s) PROVE TypeOK'
    <3>1. pc' \in [Slots -> Stages]
      BY <2>1, SMTT(20) DEF Receive, ParseFails, DecodeFails, Validator, EventFilter, ChainOK, ChainPermanent
    <3>2. sender' = sender \/ Respond(s, "acked") \/ Respond(s, "rejected")
      BY <2>1 DEF Receive, ParseFails, DecodeFails, Validator, EventFilter, ChainOK, ChainPermanent
    <3>3. sender' \in [Events -> SenderStates]
      BY <3>2
    <3> QED BY <2>1, <3>1, <3>3 DEF Receive
  <2>2. ASSUME NEW s \in Slots, FirstSeen(s) PROVE TypeOK'
    <3>1. CASE Duplicate(s)
      <4>1. pc' \in [Slots -> Stages] /\ sender' \in [Events -> SenderStates]
        BY <3>1 DEF Duplicate, ChainOK
      <4>2. mark' \in [Events -> SUBSET Marks]
        BY <3>1 DEF Duplicate
      <4>3. todo' = todo /\ seen' = seen
        BY <3>1 DEF Duplicate
      <4> QED BY <2>2, <4>1, <4>2, <4>3 DEF FirstSeen
    <3>2. CASE seen' = seen \cup {id[s]} /\ Admit(s)
      BY <2>2, <3>2 DEF FirstSeen, Admit
    <3>3. CASE Goto(s, "add") /\ UNCHANGED <<sender, todo, seen, mark>>
      BY <2>2, <3>3 DEF FirstSeen
    <3> HIDE DEF TypeOK
    <3> QED BY <2>2, <3>1, <3>2, <3>3 DEF FirstSeen
  <2>3. ASSUME NEW s \in Slots, AddSeen(s) PROVE TypeOK'
    BY <2>3 DEF AddSeen, Admit
  <2>4. ASSUME NEW s \in Slots, NEW h \in Handlers, CallHandler(s, h) PROVE TypeOK'
    BY <2>4 DEF CallHandler
  <2>5. ASSUME NEW s \in Slots, NEW h \in Handlers, SkipHandler(s, h) PROVE TypeOK'
    BY <2>5 DEF SkipHandler
  <2>6. ASSUME NEW s \in Slots, Join(s) PROVE TypeOK'
    <3>1. pc' \in [Slots -> Stages]
      BY <2>6 DEF Join, IsRetryable, ChainOK, ChainPermanent, ChainRetryable
    <3>2. sender' \in [Events -> SenderStates]
      <4>1. CASE ChainOK(s)
        BY <4>1 DEF ChainOK
      <4>2. CASE ChainRetryable(s)
        BY <4>2 DEF ChainRetryable
      <4>3. CASE ChainPermanent(s)
        BY <4>3 DEF ChainPermanent
      <4> HIDE DEF TypeOK
      <4> QED
        BY <2>6, <4>1, <4>2, <4>3 DEF Join
    <3>3. mark' \in [Events -> SUBSET Marks]
      <4>1. CASE ChainRetryable(s)
        BY <4>1 DEF ChainRetryable
      <4>2. CASE UNCHANGED mark
        BY <4>2
      <4> HIDE DEF TypeOK
      <4> QED
        BY <2>6, <4>1, <4>2 DEF Join
    <3> QED BY <2>6, <3>1, <3>2, <3>3 DEF Join
  <2>7. ASSUME NEW s \in Slots, Preserve(s) PROVE TypeOK'
    <3>1. pc' \in [Slots -> Stages] /\ sender' \in [Events -> SenderStates]
      BY <2>7 DEF Preserve
    <3>2. mark' \in [Events -> SUBSET Marks] /\ dlq' \subseteq Events /\ faults' \in Nat
      BY <2>7 DEF Preserve
    <3> QED BY <2>7, <3>1, <3>2 DEF Preserve
  <2>8. ASSUME NEW s \in Slots, Remove(s) PROVE TypeOK'
    BY <2>8 DEF Remove
  <2>9. ASSUME NEW e \in Events, NEW s \in Slots, Send(e, s) PROVE TypeOK'
    BY <2>9 DEF Send, Start
  <2>10. ASSUME NEW j \in Jobs, NEW over \in BOOLEAN, NEW chosen \in SUBSET Events,
                StartReplay(j, over, chosen) PROVE TypeOK'
    BY <2>10 DEF StartReplay
  <2>11. ASSUME NEW j \in Jobs, NEW e \in Events, NEW s \in Slots, ReplayEntry(j, e, s)
         PROVE TypeOK'
    BY <2>11 DEF ReplayEntry, Start
  <2>12. ASSUME NEW s \in Slots, ClientGone(s) PROVE TypeOK'
    BY <2>12 DEF ClientGone
  <2>13. ASSUME NEW j \in Jobs, ReplayGone(j) PROVE TypeOK'
    BY <2>13 DEF ReplayGone
  <2>14. ASSUME NEW s \in Slots, StoreError(s) PROVE TypeOK'
    BY <2>14 DEF StoreError, Admit
  <2>15. ASSUME NEW i \in Ids, Expire(i) PROVE TypeOK'
    BY <2>15 DEF Expire
  <2>16. ASSUME NEW e \in Events, Purge(e) PROVE TypeOK'
    BY <2>16 DEF Purge
  <2>17. CASE Crash
    BY <2>17 DEF Crash
  <2>18. CASE UNCHANGED vars
    BY <2>18 DEF vars
  <2> HIDE DEF TypeOK, Ids, slotVars, jobVars, histVars, Goto, Stain, Respond, Fault
  <2> QED
    BY <2>1, <2>2, <2>3, <2>4, <2>5, <2>6, <2>7, <2>8, <2>9, <2>10, <2>11, <2>12,
       <2>13, <2>14, <2>15, <2>16, <2>17, <2>18 DEF Next, SlotStep, Environment
<1> QED
  BY <1>1, <1>2, PTL DEF Spec

-----------------------------------------------------------------------------
(* Nothing that explains an event is ever lost again.                      *)

\* Deliveries and marks are histories: no step takes one back.
LEMMA Monotone ==
  ASSUME TypeOK, [Next]_vars
  PROVE  /\ delivered \subseteq delivered'
         /\ \A e \in Events : mark[e] \subseteq mark'[e]
<1> USE DEF TypeOK, slotVars, histVars, Stain
<1>1. ASSUME NEW s \in Slots, SlotStep(s)
      PROVE  delivered \subseteq delivered' /\ \A e \in Events : mark[e] \subseteq mark'[e]
  <2>1. CASE Receive(s)
    BY <2>1 DEF Receive
  <2>2. CASE FirstSeen(s)
    BY <2>2 DEF FirstSeen, Duplicate, Admit
  <2>3. CASE AddSeen(s)
    BY <2>3 DEF AddSeen, Admit
  <2>4. ASSUME NEW h \in Handlers, CallHandler(s, h) \/ SkipHandler(s, h)
        PROVE  delivered \subseteq delivered' /\ mark' = mark
    BY <2>4 DEF CallHandler, SkipHandler
  <2>5. CASE Join(s)
    BY <2>5 DEF Join, IsRetryable, ChainRetryable
  <2>6. CASE Preserve(s)
    BY <2>6 DEF Preserve
  <2>7. CASE Remove(s)
    BY <2>7 DEF Remove
  <2> QED
    BY <1>1, <2>1, <2>2, <2>3, <2>4, <2>5, <2>6, <2>7 DEF SlotStep
<1>2. CASE Environment
  BY <1>2 DEF Environment, ClientGone, StoreError, Admit, ReplayGone, Expire, Purge, Crash
<1>3. ASSUME NEW e \in Events, NEW s \in Slots, Send(e, s)
      PROVE  delivered' = delivered /\ mark' = mark
  BY <1>3 DEF Send
<1>4. ASSUME NEW j \in Jobs, NEW over \in BOOLEAN, NEW chosen \in SUBSET Events,
             StartReplay(j, over, chosen)
      PROVE  delivered' = delivered /\ mark' = mark
  BY <1>4 DEF StartReplay
<1>5. ASSUME NEW j \in Jobs, NEW e \in Events, NEW s \in Slots, ReplayEntry(j, e, s)
      PROVE  delivered' = delivered /\ mark' = mark
  BY <1>5 DEF ReplayEntry
<1>6. CASE UNCHANGED vars
  BY <1>6 DEF vars
<1> QED
  BY <1>1, <1>2, <1>3, <1>4, <1>5, <1>6 DEF Next

\* Remove and Purge are the only steps that take an entry from the queue: the
\* first one after a delivery or for a marked event, the second one marks it.
LEMMA QueueLeaves ==
  ASSUME TypeOK, SlotsSound, [Next]_vars, NEW e \in dlq, e \notin dlq'
  PROVE  DeliveredAll(e) \/ mark'[e] # {}
<1> USE DEF TypeOK, slotVars, histVars
<1>1. ASSUME NEW s \in Slots, SlotStep(s)
      PROVE  DeliveredAll(e) \/ mark'[e] # {}
  <2>1. Remove(s) \/ dlq \subseteq dlq'
    BY <1>1 DEF SlotStep, Receive, FirstSeen, AddSeen, CallHandler, SkipHandler, Join, Preserve
  <2>2. CASE Remove(s)
    <3>1. ev[s] = e /\ pc[s] = "remove"
      BY <2>2 DEF Remove
    <3> QED BY <2>2, <3>1 DEF Remove, SlotsSound, SlotSound
  <2> QED BY <2>1, <2>2
<1>2. CASE Environment
  <2>1. \/ dlq' = dlq
        \/ \E f \in Events : Purge(f)
    BY <1>2 DEF Environment, ClientGone, StoreError, ReplayGone, Expire, Crash
  <2>2. ASSUME NEW f \in Events, Purge(f) PROVE mark'[e] # {}
    BY <2>2 DEF Purge, Stain
  <2> QED BY <2>1, <2>2
<1>3. ASSUME NEW f \in Events, NEW s \in Slots, Send(f, s) PROVE FALSE
  BY <1>3 DEF Send
<1>4. ASSUME NEW j \in Jobs, NEW over \in BOOLEAN, NEW chosen \in SUBSET Events,
             StartReplay(j, over, chosen) PROVE FALSE
  BY <1>4 DEF StartReplay
<1>5. ASSUME NEW j \in Jobs, NEW f \in Events, NEW s \in Slots, ReplayEntry(j, f, s) PROVE FALSE
  BY <1>5 DEF ReplayEntry
<1>6. CASE UNCHANGED vars
  BY <1>6 DEF vars
<1> QED
  BY <1>1, <1>2, <1>3, <1>4, <1>5, <1>6 DEF Next

\* So an explained event stays explained.
LEMMA ExplainedStable ==
  ASSUME TypeOK, SlotsSound, [Next]_vars, NEW e \in Events
  PROVE  /\ DeliveredAll(e) => DeliveredAll(e)'
         /\ mark[e] # {} => mark'[e] # {}
         /\ Explained(e) => Explained(e)'
<1>1. DeliveredAll(e) => DeliveredAll(e)'
  BY Monotone DEF DeliveredAll
<1>2. mark[e] # {} => mark'[e] # {}
  BY Monotone
<1>3. e \in dlq /\ e \notin dlq' => DeliveredAll(e) \/ mark'[e] # {}
  BY QueueLeaves
<1> QED
  BY <1>1, <1>2, <1>3 DEF Explained, Settled

\* A goroutine that leaves the part of the chain in which its event is in
\* flight leaves the event explained.
LEMMA AccountedStable ==
  ASSUME TypeOK, SlotsSound, [Next]_vars, NEW e \in Events, Accounted(e)
  PROVE  Accounted(e)'
<1> SUFFICES ASSUME ~Explained(e), NEW s \in Slots, ev[s] = e, kind[s] = Live,
                    pc[s] \in {"add", "dispatch", "preserve"}
             PROVE  Accounted(e)'
  BY ExplainedStable DEF Accounted, InFlight
<1> DEFINE Busy == /\ ev'[s] = e /\ kind'[s] = Live
                   /\ pc'[s] \in {"add", "dispatch", "preserve"}
<1> SUFFICES Busy \/ Explained(e)'
  BY DEF Accounted, InFlight
<1> USE DEF TypeOK, slotVars, histVars, Goto
<1>1. ASSUME NEW t \in Slots, SlotStep(t) PROVE Busy \/ Explained(e)'
  <2>1. ev' = ev /\ kind' = kind
    BY <1>1 DEF SlotStep, Receive, FirstSeen, AddSeen, CallHandler, SkipHandler, Join,
                Preserve, Remove
  <2>2. CASE t # s
    <3>1. pc'[s] = pc[s]
      <4>1. CASE Receive(t)
        BY <2>2, <4>1 DEF Receive, ParseFails, DecodeFails, Validator, EventFilter, ChainOK, ChainPermanent
      <4>2. CASE FirstSeen(t)
        BY <2>2, <4>2 DEF FirstSeen, Duplicate, Admit, ChainOK
      <4>3. CASE AddSeen(t) \/ Preserve(t) \/ Remove(t)
        BY <2>2, <4>3 DEF AddSeen, Admit, Preserve, Remove
      <4>4. CASE \E h \in Handlers : CallHandler(t, h) \/ SkipHandler(t, h)
        BY <4>4 DEF CallHandler, SkipHandler
      <4>5. CASE Join(t)
        BY <2>2, <4>5 DEF Join, IsRetryable, ChainOK, ChainPermanent, ChainRetryable
      <4> QED BY <1>1, <4>1, <4>2, <4>3, <4>4, <4>5 DEF SlotStep
    <3> QED BY <2>1, <3>1
  <2>3. CASE t = s /\ pc[s] = "add"
    <3>1. AddSeen(s)
      BY <1>1, <2>3 DEF SlotStep, Receive, FirstSeen, CallHandler, SkipHandler, Join,
                        Preserve, Remove
    <3> QED BY <2>1, <3>1 DEF AddSeen, Admit
  <2>4. CASE t = s /\ pc[s] = "preserve"
    <3>1. Preserve(s)
      BY <1>1, <2>4 DEF SlotStep, Receive, FirstSeen, AddSeen, CallHandler, SkipHandler,
                        Join, Remove
    <3>2. \/ e \in dlq'
          \/ mark' = [mark EXCEPT ![e] = @ \cup {"unpreserved"}]
      BY <3>1 DEF Preserve, Stain
    <3>3. e \in dlq' \/ "unpreserved" \in mark'[e]
      BY <3>2
    <3> QED BY <3>3 DEF Explained, Settled
  <2>5. CASE t = s /\ pc[s] = "dispatch"
    <3>1. Join(s) \/ (\E h \in Handlers : CallHandler(s, h) \/ SkipHandler(s, h))
      BY <1>1, <2>5 DEF SlotStep, Receive, FirstSeen, AddSeen, Preserve, Remove
    <3>2. CASE \E h \in Handlers : CallHandler(s, h) \/ SkipHandler(s, h)
      BY <2>1, <2>5, <3>2 DEF CallHandler, SkipHandler
    <3>3. CASE Join(s)
      <4>1. CASE errs[s] = {}
        <5>1. DeliveredAll(e)
          BY <2>5, <3>3, <4>1 DEF Join, SlotsSound, SlotSound, DeliveredAll
        <5> QED BY <5>1 DEF Explained, Settled
      <4>2. CASE IsRetryable(errs[s])
        <5>1. ChainRetryable(s)
          BY <3>3, <4>2 DEF Join, IsRetryable
        <5>2. mark' = [mark EXCEPT ![e] = @ \cup {"backpressured"}]
          BY <5>1 DEF ChainRetryable, Stain
        <5>3. "backpressured" \in mark'[e]
          BY <5>2
        <5> QED BY <5>3 DEF Explained
      <4>3. CASE errs[s] # {} /\ ~IsRetryable(errs[s])
        <5>1. ChainPermanent(s)
          BY <3>3, <4>3 DEF Join, IsRetryable
        <5> QED BY <2>1, <5>1 DEF ChainPermanent
      <4> QED BY <3>3, <4>1, <4>2, <4>3 DEF Join
    <3> QED BY <3>1, <3>2, <3>3
  <2> QED BY <2>2, <2>3, <2>4, <2>5
<1>2. CASE Environment
  <2>1. CASE Crash
    <3>1. mark'[e] # {}
      BY <2>1 DEF Crash
    <3> QED BY <3>1 DEF Explained
  <2>2. CASE \E t \in Slots : ClientGone(t)
    BY <2>2 DEF ClientGone
  <2>3. CASE \E t \in Slots : StoreError(t)
    BY <2>3 DEF StoreError, Admit
  <2>4. CASE \E j \in Jobs : ReplayGone(j)
    BY <2>4 DEF ReplayGone
  <2>5. CASE (\E i \in Ids : Expire(i)) \/ (\E f \in Events : Purge(f))
    BY <2>5 DEF Expire, Purge
  <2> QED BY <1>2, <2>1, <2>2, <2>3, <2>4, <2>5 DEF Environment
<1>3. ASSUME NEW f \in Events, NEW t \in Slots, Send(f, t) PROVE Busy
  BY <1>3 DEF Send, Start
<1>4. ASSUME NEW j \in Jobs, NEW over \in BOOLEAN, NEW chosen \in SUBSET Events,
             StartReplay(j, over, chosen) PROVE Busy
  BY <1>4 DEF StartReplay
<1>5. ASSUME NEW j \in Jobs, NEW f \in Events, NEW t \in Slots, ReplayEntry(j, f, t) PROVE Busy
  BY <1>5 DEF ReplayEntry, Start
<1>6. CASE UNCHANGED vars
  BY <1>6 DEF vars
<1> HIDE DEF Busy
<1> QED
  BY <1>1, <1>2, <1>3, <1>4, <1>5, <1>6 DEF Next

-----------------------------------------------------------------------------
(* The inductive invariant.                                                *)

\* A step that leaves a goroutine alone, or ends it, keeps it sound.
LEMMA SlotFrame ==
  ASSUME TypeOK, SlotsSound, [Next]_vars, NEW t \in Slots,
         pc'[t] \in {pc[t], "idle"}, ev'[t] = ev[t], id'[t] = id[t],
         kind'[t] = kind[t], todo'[t] = todo[t], errs'[t] = errs[t]
  PROVE  SlotSound(t)'
<1> SUFFICES ASSUME NEW e \in Events, ev[t] = e PROVE SlotSound(t)'
  BY DEF TypeOK
<1>1. SlotSound(t)
  BY DEF SlotsSound
<1>2. /\ DeliveredAll(e) => DeliveredAll(e)'
      /\ mark[e] # {} => mark'[e] # {}
      /\ Explained(e) => Explained(e)'
  BY ExplainedStable
<1>3. delivered \subseteq delivered'
  BY Monotone
<1> QED
  BY <1>1, <1>2, <1>3 DEF SlotSound, Explained, Settled, DeliveredAll, Wanted

\* The step, goroutine by goroutine: the one that moves is sound where it
\* arrives, the others are covered by SlotFrame.
LEMMA SlotsStep ==
  ASSUME TypeOK, SlotsSound, StoresSound, [Next]_vars
  PROVE  SlotsSound'
<1> SUFFICES ASSUME NEW t \in Slots PROVE SlotSound(t)'
  BY DEF SlotsSound
<1> USE DEF TypeOK, slotVars, jobVars, histVars, Goto
<1>0. SlotSound(t) /\ \A e \in Events : Explained(e) => Explained(e)'
  BY ExplainedStable DEF SlotsSound
<1>1. ASSUME NEW s \in Slots, Receive(s) PROVE SlotSound(t)'
  <2>1. CASE t # s
    BY <1>1, <2>1, SlotFrame DEF Receive, ParseFails, DecodeFails, Validator, EventFilter, ChainOK, ChainPermanent
  <2>2. CASE t = s
    BY <1>0, <1>1, <2>2 DEF Receive, ParseFails, DecodeFails, Validator, EventFilter, ChainOK, ChainPermanent, SlotSound, Explained, Settled, DeliveredAll, Wanted
  <2> QED BY <2>1, <2>2
<1>2. ASSUME NEW s \in Slots, FirstSeen(s) PROVE SlotSound(t)'
  <2>1. CASE t # s
    BY <1>2, <2>1, SlotFrame DEF FirstSeen, Duplicate, Admit, ChainOK
  <2>2. CASE t = s
    <3>1. CASE Duplicate(s)
      BY <1>0, <1>2, <2>2, <3>1, ZenonT(40) DEF FirstSeen, Duplicate, ChainOK, SlotSound, Explained, Settled, DeliveredAll, Wanted
    <3>2. CASE Admit(s)
      BY <1>0, <1>2, <2>2, <3>2 DEF FirstSeen, Admit, SlotSound, Explained, Settled, DeliveredAll, Wanted
    <3>3. CASE Goto(s, "add") /\ UNCHANGED <<sender, todo, seen, mark>>
      BY <1>0, <1>2, <2>2, <3>3 DEF FirstSeen, SlotSound, Explained, Settled, DeliveredAll, Wanted
    <3> QED BY <1>2, <3>1, <3>2, <3>3 DEF FirstSeen
  <2> QED BY <2>1, <2>2
<1>3. ASSUME NEW s \in Slots, AddSeen(s) PROVE SlotSound(t)'
  <2>1. CASE t # s
    BY <1>3, <2>1, SlotFrame DEF AddSeen, Admit
  <2>2. CASE t = s
    BY <1>0, <1>3, <2>2 DEF AddSeen, Admit, SlotSound, Explained, Settled, DeliveredAll, Wanted
  <2> QED BY <2>1, <2>2
<1>4. ASSUME NEW s \in Slots, NEW h \in Handlers, CallHandler(s, h) PROVE SlotSound(t)'
  <2>1. CASE t # s
    BY <1>4, <2>1, SlotFrame DEF CallHandler
  <2>2. CASE t = s
    BY <1>0, <1>4, <2>2, ZenonT(40) DEF CallHandler, SlotSound, Explained, Settled, DeliveredAll, Wanted
  <2> QED BY <2>1, <2>2
<1>5. ASSUME NEW s \in Slots, NEW h \in Handlers, SkipHandler(s, h) PROVE SlotSound(t)'
  <2>1. CASE t # s
    BY <1>5, <2>1, SlotFrame DEF SkipHandler
  <2>2. CASE t = s
    BY <1>0, <1>5, <2>2 DEF SkipHandler, SlotSound, Explained, Settled, DeliveredAll, Wanted
  <2> QED BY <2>1, <2>2
<1>6. ASSUME NEW s \in Slots, Join(s) PROVE SlotSound(t)'
  <2>1. CASE t # s
    BY <1>6, <2>1, SlotFrame DEF Join, IsRetryable, ChainOK, ChainPermanent, ChainRetryable
  <2>2. CASE t = s
    <3>1. CASE errs[s] = {} /\ ChainOK(s) /\ mark' = mark
      BY <1>0, <1>6, <2>2, <3>1 DEF Join, IsRetryable, ChainOK, SlotSound, Explained, Settled, DeliveredAll, Wanted
    <3>2. CASE ChainRetryable(s) \/ ChainPermanent(s)
      BY <1>0, <1>6, <2>2, <3>2 DEF Join, IsRetryable, ChainRetryable, ChainPermanent, SlotSound, Explained, Settled, DeliveredAll, Wanted
    <3> QED BY <1>6, <3>1, <3>2 DEF Join
  <2> QED BY <2>1, <2>2
<1>7. ASSUME NEW s \in Slots, Preserve(s) PROVE SlotSound(t)'
  <2>1. CASE t # s
    BY <1>7, <2>1, SlotFrame DEF Preserve
  <2>2. CASE t = s
    BY <1>7, <2>2, SlotFrame DEF Preserve
  <2> QED BY <2>1, <2>2
<1>8. ASSUME NEW s \in Slots, Remove(s) PROVE SlotSound(t)'
  <2>1. CASE t # s
    BY <1>8, <2>1, SlotFrame DEF Remove
  <2>2. CASE t = s
    BY <1>8, <2>2, SlotFrame DEF Remove
  <2> QED BY <2>1, <2>2
<1>9. ASSUME NEW e \in Events, NEW s \in Slots, Send(e, s) PROVE SlotSound(t)'
  <2>1. CASE t # s
    BY <1>9, <2>1, SlotFrame DEF Send, Start
  <2>2. CASE t = s
    BY <1>9, <2>2 DEF Send, Start, SlotSound, Explained, Settled, DeliveredAll, Wanted
  <2> QED BY <2>1, <2>2
<1>10. ASSUME NEW j \in Jobs, NEW e \in Events, NEW s \in Slots,
             ReplayEntry(j, e, s) PROVE SlotSound(t)'
  <2>1. CASE t # s
    BY <1>10, <2>1, SlotFrame DEF ReplayEntry, Start
  <2>2. CASE t = s
    <3>1. Wanted(e) /\ Explained(e)'
      BY <1>0, <1>10 DEF ReplayEntry, StoresSound
    <3> QED BY <1>10, <2>2, <3>1, LiveAssumption DEF ReplayEntry, Start, SlotSound, Explained, Settled, DeliveredAll, Wanted
  <2> QED BY <2>1, <2>2
<1>11. ASSUME NEW s \in Slots, StoreError(s) PROVE SlotSound(t)'
  <2>1. CASE t # s
    BY <1>11, <2>1, SlotFrame DEF StoreError, Admit
  <2>2. CASE t = s
    BY <1>0, <1>11, <2>2 DEF StoreError, Admit, SlotSound, Explained, Settled, DeliveredAll, Wanted
  <2> QED BY <2>1, <2>2
<1>12. CASE \/ \E j \in Jobs, over \in BOOLEAN, chosen \in SUBSET Events : StartReplay(j, over, chosen)
            \/ \E s \in Slots : ClientGone(s)
            \/ \E j \in Jobs : ReplayGone(j)
            \/ \E i \in Ids : Expire(i)
            \/ \E e \in Events : Purge(e)
            \/ Crash
            \/ UNCHANGED vars
  BY <1>12, SlotFrame
     DEF StartReplay, ClientGone, ReplayGone, Expire, Purge, Crash, vars
<1> HIDE DEF TypeOK
<1> QED
  BY <1>1, <1>2, <1>3, <1>4, <1>5, <1>6, <1>7, <1>8, <1>9, <1>10, <1>11, <1>12
     DEF Next, SlotStep, Environment

\* The queue, the replay snapshots and the dedupe store stay explained.
LEMMA StoresStep ==
  ASSUME TypeOK, SlotsSound, StoresSound, [Next]_vars
  PROVE  StoresSound'
<1> USE DEF TypeOK, slotVars, jobVars, histVars
<1>0. /\ \A e \in Events : Explained(e) => Explained(e)'
      /\ \A e \in Events : Accounted(e) => Accounted(e)'
  BY ExplainedStable, AccountedStable
<1>1. \A e \in dlq' : Wanted(e)
  <2> SUFFICES ASSUME NEW e \in dlq', e \notin dlq PROVE Wanted(e)
    BY DEF StoresSound, Wanted
  <2>1. PICK s \in Slots : Preserve(s)
    BY DEF Next, SlotStep, Environment, Receive, FirstSeen, AddSeen, CallHandler, SkipHandler,
           Join, Remove, Send, StartReplay, ReplayEntry, ClientGone, StoreError,
           ReplayGone, Expire, Purge, Crash, vars
  <2>2. e = ev[s] /\ pc[s] = "preserve"
    BY <2>1 DEF Preserve
  <2> QED BY <2>2 DEF SlotsSound, SlotSound
<1>2. \A j \in Jobs : \A e \in jobTodo'[j] : Wanted(e) /\ Explained(e)'
  <2> SUFFICES ASSUME NEW j \in Jobs, NEW e \in jobTodo'[j]
               PROVE  Wanted(e) /\ Explained(e)'
    OBVIOUS
  <2>1. \/ e \in jobTodo[j]
        \/ \E k \in Jobs, over \in BOOLEAN, chosen \in SUBSET Events : StartReplay(k, over, chosen)
    BY ZenonT(40) DEF Next, SlotStep, Environment, Receive, FirstSeen, AddSeen, CallHandler, SkipHandler,
           Join, Preserve, Remove, Send, ReplayEntry, ClientGone, StoreError,
           ReplayGone, Expire, Purge, Crash, vars
  <2>2. e \in jobTodo[j] \/ e \in dlq
    BY <2>1 DEF StartReplay
  <2>3. e \in Events /\ Wanted(e) /\ Explained(e)
    BY <2>2 DEF StoresSound, Explained, Settled
  <2> QED BY <1>0, <2>3
<1>3. \A e \in Events : e \in seen' => Accounted(e)'
  <2> SUFFICES ASSUME NEW e \in Events, e \in seen', e \notin seen PROVE Accounted(e)'
    BY <1>0 DEF StoresSound
  <2>1. PICK s \in Slots : FirstSeen(s) \/ AddSeen(s) \/ StoreError(s)
    BY DEF Next, SlotStep, Environment, Receive, CallHandler, SkipHandler, Join, Preserve,
           Remove, Send, StartReplay, ReplayEntry, ClientGone, ReplayGone, Expire, Purge,
           Crash, vars
  <2>2. id[s] = e /\ Admit(s) /\ ev' = ev /\ kind' = kind /\ pc[s] # "idle"
    BY <2>1 DEF FirstSeen, AddSeen, StoreError, Duplicate
  <2>3. CASE kind[s] = Live
    <3>1. ev'[s] = e /\ kind'[s] = Live /\ pc'[s] = "dispatch"
      BY <2>2, <2>3 DEF Admit, Goto, SlotsSound, SlotSound
    <3> QED BY <3>1 DEF Accounted, InFlight
  <2>4. CASE kind[s] # Live
    <3>1. ev[s] = e /\ Explained(ev[s])
      BY <2>2, <2>4, RelayAssumption DEF SlotsSound, SlotSound
    <3>2. Explained(e)
      BY <3>1
    <3> QED BY <1>0, <3>2 DEF Accounted
  <2> QED BY <2>3, <2>4
<1> QED
  BY <1>1, <1>2, <1>3 DEF StoresSound, Wanted

\* An event that is acknowledged in this step is explained by it, or was
\* dropped as a duplicate of one that is accounted for.
LEMMA AckedStep ==
  ASSUME TypeOK, SlotsSound, StoresSound, AckedAccounted, [Next]_vars
  PROVE  AckedAccounted'
<1> USE DEF TypeOK, slotVars, jobVars, histVars
<1> SUFFICES ASSUME NEW e \in Events, sender'[e] = "acked", Wanted(e) PROVE Accounted(e)'
  BY DEF AckedAccounted, Wanted
<1>0. Accounted(e) => Accounted(e)'
  BY AccountedStable
<1>1. CASE sender[e] = "acked"
  BY <1>0, <1>1 DEF AckedAccounted
<1>2. CASE sender[e] # "acked"
  <2>1. PICK s \in Slots : Receive(s) \/ FirstSeen(s) \/ Join(s) \/ Preserve(s)
    BY <1>2 DEF Next, SlotStep, Environment, AddSeen, Admit, CallHandler, SkipHandler, Remove,
           Send, StartReplay, ReplayEntry, ClientGone, StoreError, ReplayGone,
           Expire, Purge, Crash, vars
  <2>2. CASE Receive(s)
    <3>1. Fate[ev[s]] \in {"filtered", "undecodable"} /\ ev[s] = e
      BY <1>2, <2>2 DEF Receive, ParseFails, DecodeFails, Validator, EventFilter, ChainPermanent, ChainOK, Respond
    <3> QED BY <3>1 DEF Wanted
  <2>3. CASE FirstSeen(s)
    <3>1. Duplicate(s) /\ ev[s] = e /\ kind[s] = Live
      BY <1>2, <2>3 DEF FirstSeen, Duplicate, Admit, ChainOK, Respond
    <3>2. e \in seen
      BY <3>1 DEF Duplicate, SlotsSound, SlotSound
    <3> QED BY <1>0, <3>2 DEF StoresSound
  <2>4. CASE Join(s)
    <3>1. errs[s] = {} /\ ev[s] = e /\ pc[s] = "dispatch" /\ kind[s] = Live
      BY <1>2, <2>4 DEF Join, IsRetryable, ChainOK, ChainRetryable, ChainPermanent, Respond
    <3>2. DeliveredAll(e)
      BY <2>4, <3>1 DEF Join, SlotsSound, SlotSound, DeliveredAll
    <3> QED BY <1>0, <3>2 DEF Accounted, Explained, Settled
  <2>5. CASE Preserve(s)
    <3>1. pc[s] = "preserve" /\ ev[s] = e
      BY <1>2, <2>5 DEF Preserve, Respond
    <3>2. InFlight(e)
      BY <3>1 DEF InFlight, SlotsSound, SlotSound
    <3> QED BY <1>0, <3>2 DEF Accounted
  <2> QED BY <2>1, <2>2, <2>3, <2>4, <2>5
<1> QED BY <1>1, <1>2

\* The inductive invariant holds in the initial states.
LEMMA SoundInit == Init => SlotsSound /\ StoresSound /\ AckedAccounted
<1> SUFFICES ASSUME Init PROVE SlotsSound /\ StoresSound /\ AckedAccounted
  OBVIOUS
<1>1. SlotsSound
  BY DEF Init, SlotsSound, SlotSound
<1>2. StoresSound
  BY DEF Init, StoresSound
<1>3. AckedAccounted
  BY DEF Init, AckedAccounted
<1> QED BY <1>1, <1>2, <1>3

\* Whatever the number of events, goroutines, replays and faults, an event the
\* sender was told 200 for is delivered, queued, in flight, or marked with the
\* mishap that lost it.
THEOREM EveryAckAccounted == Spec => []AckedAccounted
<1> DEFINE Sound == SlotsSound /\ StoresSound /\ AckedAccounted
<1>1. Init => Sound
  BY SoundInit
<1>2. TypeOK /\ Sound /\ [Next]_vars => Sound'
  BY SlotsStep, StoresStep, AckedStep
<1>3. Sound => AckedAccounted
  OBVIOUS
<1> HIDE DEF Sound
<1> QED
  BY <1>1, <1>2, <1>3, TypeCorrect, PTL DEF Spec

-----------------------------------------------------------------------------
(* How the dead letter queue may change.                                   *)

\* A step that leaves a goroutine alone, or ends it, keeps its errors sound.
LEMMA ErrorFrame ==
  ASSUME TypeOK, [Next]_vars, NEW t \in Slots, ErrorSound(t),
         pc'[t] \in {pc[t], "idle"}, ev'[t] = ev[t], errs'[t] = errs[t]
  PROVE  ErrorSound(t)'
<1>1. ev[t] \in Events
  BY DEF TypeOK
<1>2. delivered \subseteq delivered' /\ mark[ev[t]] \subseteq mark'[ev[t]]
  BY <1>1, Monotone
<1> QED
  BY <1>2 DEF ErrorSound, DeliveredAll

LEMMA ErrorsStep ==
  ASSUME TypeOK, SlotsSound, ErrorsSound, [Next]_vars
  PROVE  ErrorsSound'
<1> SUFFICES ASSUME NEW t \in Slots PROVE ErrorSound(t)'
  BY DEF ErrorsSound
<1> USE DEF TypeOK, slotVars, jobVars, histVars, Goto
<1>0. ErrorSound(t) /\ SlotSound(t)
  BY DEF ErrorsSound, SlotsSound
<1>1. ASSUME NEW s \in Slots, Receive(s) PROVE ErrorSound(t)'
  <2>1. CASE t # s
    BY <1>0, <1>1, <2>1, ErrorFrame
       DEF Receive, ParseFails, DecodeFails, Validator, EventFilter, ChainOK, ChainPermanent
  <2>2. CASE t = s
    BY <1>0, <1>1, <2>2
       DEF Receive, ParseFails, DecodeFails, Validator, EventFilter, ChainOK, ChainPermanent,
           ErrorSound, SlotSound, Wanted
  <2> QED BY <2>1, <2>2
<1>2. ASSUME NEW s \in Slots, FirstSeen(s) PROVE ErrorSound(t)'
  <2>1. CASE t # s
    BY <1>0, <1>2, <2>1, ErrorFrame DEF FirstSeen, Duplicate, Admit, ChainOK
  <2>2. CASE t = s
    BY <1>0, <1>2, <2>2 DEF FirstSeen, Duplicate, Admit, ChainOK, ErrorSound
  <2> QED BY <2>1, <2>2
<1>3. ASSUME NEW s \in Slots, AddSeen(s) \/ StoreError(s) PROVE ErrorSound(t)'
  <2>1. CASE t # s
    BY <1>0, <1>3, <2>1, ErrorFrame DEF AddSeen, StoreError, Admit
  <2>2. CASE t = s
    BY <1>0, <1>3, <2>2 DEF AddSeen, StoreError, Admit, ErrorSound
  <2> QED BY <2>1, <2>2
<1>4. ASSUME NEW s \in Slots, NEW h \in Handlers, CallHandler(s, h) \/ SkipHandler(s, h)
      PROVE  ErrorSound(t)'
  <2>1. CASE t # s
    BY <1>0, <1>4, <2>1, ErrorFrame DEF CallHandler, SkipHandler
  <2>2. CASE t = s
    BY <1>0, <1>4, <2>2 DEF CallHandler, SkipHandler, ErrorSound
  <2> QED BY <2>1, <2>2
<1>5. ASSUME NEW s \in Slots, Join(s) PROVE ErrorSound(t)'
  <2>1. CASE t # s
    BY <1>0, <1>5, <2>1, ErrorFrame
       DEF Join, IsRetryable, ChainOK, ChainPermanent, ChainRetryable
  <2>2. CASE t = s /\ errs[s] = {}
    <3>1. DeliveredAll(ev[s])
      BY <1>0, <1>5, <2>2 DEF Join, SlotSound, DeliveredAll
    <3> QED BY <1>5, <2>2, <3>1 DEF Join, IsRetryable, ChainOK, ErrorSound, DeliveredAll
  <2>3. CASE t = s /\ errs[s] # {}
    BY <1>5, <2>3 DEF Join, IsRetryable, ChainPermanent, ChainRetryable, ErrorSound, ErrorKinds
  <2> QED BY <2>1, <2>2, <2>3
<1>6. ASSUME NEW s \in Slots, Preserve(s) \/ Remove(s) PROVE ErrorSound(t)'
  BY <1>0, <1>6, ErrorFrame DEF Preserve, Remove
<1>7. ASSUME NEW e \in Events, NEW s \in Slots, Send(e, s) PROVE ErrorSound(t)'
  <2>1. CASE t # s
    BY <1>0, <1>7, <2>1, ErrorFrame DEF Send, Start
  <2>2. CASE t = s
    BY <1>7, <2>2 DEF Send, Start, ErrorSound
  <2> QED BY <2>1, <2>2
<1>8. ASSUME NEW j \in Jobs, NEW e \in Events, NEW s \in Slots, ReplayEntry(j, e, s)
      PROVE  ErrorSound(t)'
  <2>1. CASE t # s
    BY <1>0, <1>8, <2>1, ErrorFrame DEF ReplayEntry, Start
  <2>2. CASE t = s
    BY <1>8, <2>2 DEF ReplayEntry, Start, ErrorSound
  <2> QED BY <2>1, <2>2
<1>9. CASE \/ \E j \in Jobs, over \in BOOLEAN, chosen \in SUBSET Events : StartReplay(j, over, chosen)
           \/ \E s \in Slots : ClientGone(s)
           \/ \E j \in Jobs : ReplayGone(j)
           \/ \E i \in Ids : Expire(i)
           \/ \E e \in Events : Purge(e)
           \/ Crash
           \/ UNCHANGED vars
  BY <1>0, <1>9, ErrorFrame
     DEF StartReplay, ClientGone, ReplayGone, Expire, Purge, Crash, vars
<1> HIDE DEF TypeOK
<1> QED
  BY <1>1, <1>2, <1>3, <1>4, <1>5, <1>6, <1>7, <1>8, <1>9 DEF Next, SlotStep, Environment

\* Preserve is the only step that adds an entry, Remove and Purge the only
\* ones that take one away.
LEMMA LettersStep ==
  ASSUME TypeOK, SlotsSound, ErrorsSound, [Next]_vars
  PROVE  [LettersMove]_vars
<1> USE DEF TypeOK, slotVars, jobVars, histVars
<1>1. ASSUME NEW s \in Slots, Preserve(s) PROVE LettersMove
  <2>1. dlq \subseteq dlq' /\ dlq' \ dlq \subseteq {ev[s]}
    BY <1>1 DEF Preserve
  <2>2. Wanted(ev[s]) /\ pc[s] = "preserve" /\ errs[s] \subseteq {"permanent"}
    BY <1>1 DEF Preserve, SlotsSound, SlotSound, ErrorsSound, ErrorSound
  <2> QED BY <2>1, <2>2 DEF LettersMove
<1>2. ASSUME NEW s \in Slots, Remove(s) PROVE LettersMove
  <2>1. dlq' \subseteq dlq /\ dlq \ dlq' \subseteq {ev[s]}
    BY <1>2 DEF Remove
  <2>2. /\ kind[s] \in Jobs /\ errs[s] = {}
        /\ DeliveredAll(ev[s]) \/ "swallowed" \in mark[ev[s]]
    BY <1>2 DEF Remove, SlotsSound, SlotSound, ErrorsSound, ErrorSound
  <2> QED BY <2>1, <2>2 DEF LettersMove
<1>3. ASSUME NEW e \in Events, Purge(e) PROVE LettersMove
  BY <1>3 DEF Purge, Stain, LettersMove
<1>4. \/ dlq' = dlq
      \/ \E s \in Slots : Preserve(s) \/ Remove(s)
      \/ \E e \in Events : Purge(e)
  BY DEF Next, SlotStep, Environment, Receive, FirstSeen, AddSeen, CallHandler, SkipHandler,
         Join, Send, StartReplay, ReplayEntry, ClientGone, StoreError, ReplayGone, Expire,
         Crash, vars
<1>5. dlq' = dlq => LettersMove
  BY DEF LettersMove
<1> QED
  BY <1>1, <1>2, <1>3, <1>4, <1>5

\* An entry enters the dead letter queue only by a request for an event that
\* should be delivered and whose errors were all permanent, and leaves it only
\* by retention or by a replay without errors that delivered the event
\* or had it dropped as a duplicate.
THEOREM DeadLettersMove == Spec => DeadLetterStep
<1> DEFINE Sound == SlotsSound /\ StoresSound /\ AckedAccounted
           Inv == Sound /\ ErrorsSound
<1>1. Init => Inv
  BY SoundInit DEF Init, ErrorsSound, ErrorSound
<1>2. TypeOK /\ Inv /\ [Next]_vars => Inv' /\ [LettersMove]_vars
  BY SlotsStep, StoresStep, AckedStep, ErrorsStep, LettersStep
<1> HIDE DEF Inv
<1> QED
  BY <1>1, <1>2, TypeCorrect, PTL DEF Spec, DeadLetterStep

-----------------------------------------------------------------------------
(* At most one dispatch per dedupe identity.                               *)

\* Sets of goroutines are finite, so they can be counted.
LEMMA Counted ==
  ASSUME NEW P \in SUBSET Slots
  PROVE  /\ Cardinality(P) \in Nat
         /\ \A Q \in SUBSET P : Cardinality(Q) <= Cardinality(P)
         /\ \A s \in Slots : Cardinality(P \cup {s}) <= Cardinality(P) + 1
         /\ \A s \in P : Cardinality(P \ {s}) = Cardinality(P) - 1
<1>1. IsFiniteSet(P)
  BY RelayAssumption, FS_Subset
<1>2. Cardinality(P) \in Nat
  BY <1>1, FS_CardinalityType
<1>3. \A Q \in SUBSET P : Cardinality(Q) <= Cardinality(P)
  BY <1>1, FS_Subset
<1>4. \A s \in Slots : Cardinality(P \cup {s}) <= Cardinality(P) + 1
  <2> SUFFICES ASSUME NEW s \in Slots PROVE Cardinality(P \cup {s}) <= Cardinality(P) + 1
    OBVIOUS
  <2>1. Cardinality(P \cup {s}) = IF s \in P THEN Cardinality(P) ELSE Cardinality(P) + 1
    BY <1>1, FS_AddElement
  <2> QED BY <1>2, <2>1
<1>5. \A s \in P : Cardinality(P \ {s}) = Cardinality(P) - 1
  BY <1>1, FS_RemoveElement
<1> QED
  BY <1>2, <1>3, <1>4, <1>5

\* A step after which no more calls are to come, none was made, and the store
\* holds the ID or has lost it once more.
LEMMA PaidFrame ==
  ASSUME TypeOK, CallsPaid, NEW i \in Ids, NEW h \in Handlers,
         Pending(i, h)' \subseteq Pending(i, h), invoked'[<<i, h>>] = invoked[<<i, h>>],
         \/ (i \in seen => i \in seen') /\ forgot'[i] = forgot[i]
         \/ forgot'[i] = forgot[i] + 1
  PROVE  invoked'[<<i, h>>] + Cardinality(Pending(i, h)') <= forgot'[i] + (IF i \in seen' THEN 1 ELSE 0)
<1>1. Pending(i, h) \in SUBSET Slots
  BY DEF Pending
<1>2. Cardinality(Pending(i, h)') <= Cardinality(Pending(i, h))
  BY <1>1, Counted
<1>3. Cardinality(Pending(i, h)) \in Nat /\ Cardinality(Pending(i, h)') \in Nat
  BY <1>1, Counted
<1>4. invoked[<<i, h>>] + Cardinality(Pending(i, h)) <= forgot[i] + (IF i \in seen THEN 1 ELSE 0)
  BY DEF CallsPaid
<1>5. invoked[<<i, h>>] \in Nat /\ forgot[i] \in Nat
  BY DEF TypeOK
<1> QED
  BY <1>2, <1>3, <1>4, <1>5

\* The deduper admits an event: the call to come is paid for by the ID's
\* entering the store, or by the error that kept it out.
LEMMA PaidAdmit ==
  ASSUME TypeOK, CallsPaid, NEW i \in Ids, NEW h \in Handlers, NEW s \in Slots,
         Admit(s), UNCHANGED <<id, invoked>>,
         \/ id[s] \notin seen /\ seen' = seen \cup {id[s]} /\ forgot' = forgot
         \/ seen \subseteq seen' /\ forgot' = [forgot EXCEPT ![id[s]] = @ + 1]
  PROVE  invoked'[<<i, h>>] + Cardinality(Pending(i, h)') <= forgot'[i] + (IF i \in seen' THEN 1 ELSE 0)
<1>1. Pending(i, h) \in SUBSET Slots
  BY DEF Pending
<1>2. CASE id[s] = i
  <2>1. Pending(i, h)' \in SUBSET (Pending(i, h) \cup {s})
    BY DEF Pending, Admit, Goto, TypeOK
  <2>2. Pending(i, h) \cup {s} \in SUBSET Slots
    BY <1>1
  <2>3. Cardinality(Pending(i, h)') <= Cardinality(Pending(i, h) \cup {s})
    BY <2>1, <2>2, Counted
  <2>4. Cardinality(Pending(i, h) \cup {s}) <= Cardinality(Pending(i, h)) + 1
    BY <1>1, Counted
  <2>5. /\ Cardinality(Pending(i, h)) \in Nat /\ Cardinality(Pending(i, h) \cup {s}) \in Nat
        /\ Cardinality(Pending(i, h)') \in Nat
    BY <1>1, <2>1, <2>2, Counted
  <2>6. invoked[<<i, h>>] + Cardinality(Pending(i, h)) <= forgot[i] + (IF i \in seen THEN 1 ELSE 0)
    BY DEF CallsPaid
  <2>7. invoked[<<i, h>>] \in Nat /\ forgot[i] \in Nat
    BY DEF TypeOK
  <2>8. \/ i \notin seen /\ i \in seen' /\ forgot'[i] = forgot[i]
        \/ (i \in seen => i \in seen') /\ forgot'[i] = forgot[i] + 1
    BY <1>2 DEF TypeOK
  <2> QED BY <2>3, <2>4, <2>5, <2>6, <2>7, <2>8
<1>3. CASE id[s] # i
  <2>1. Pending(i, h)' \subseteq Pending(i, h)
    BY <1>3 DEF Pending, Admit, Goto, TypeOK
  <2>2. (i \in seen => i \in seen') /\ forgot'[i] = forgot[i]
    BY <1>3 DEF TypeOK
  <2> QED BY <2>1, <2>2, PaidFrame
<1> QED BY <1>2, <1>3

LEMMA PaidStep ==
  ASSUME SharedStore, TypeOK, CallsPaid, [Next]_vars
  PROVE  CallsPaid'
<1> USE DEF slotVars, jobVars, histVars
<1>1. \A s \in Slots : pc'[s] # "add"
  <2> SUFFICES ASSUME NEW t \in Slots, pc'[t] = "add", pc[t] # "add" PROVE FALSE
    BY DEF CallsPaid
  <2> USE DEF TypeOK, Goto
  <2>1. ASSUME NEW s \in Slots, SlotStep(s) PROVE FALSE
    BY <2>1 DEF SlotStep, Receive, ParseFails, DecodeFails, Validator, EventFilter, FirstSeen,
           Duplicate, Admit, AddSeen, CallHandler, SkipHandler, Join, IsRetryable, Preserve,
           Remove, ChainOK, ChainPermanent, ChainRetryable
  <2>2. CASE Environment
    BY <2>2 DEF Environment, ClientGone, StoreError, Admit, ReplayGone, Expire, Purge, Crash
  <2> QED
    BY <2>1, <2>2 DEF Next, Send, Start, StartReplay, ReplayEntry, vars
<1> SUFFICES ASSUME NEW i \in Ids, NEW h \in Handlers
             PROVE  invoked'[<<i, h>>] + Cardinality(Pending(i, h)')
                      <= forgot'[i] + (IF i \in seen' THEN 1 ELSE 0)
  BY <1>1 DEF CallsPaid
<1> DEFINE Paid == invoked'[<<i, h>>] + Cardinality(Pending(i, h)')
                     <= forgot'[i] + (IF i \in seen' THEN 1 ELSE 0)
<1>2. ASSUME NEW s \in Slots, Receive(s) \/ Join(s) \/ Preserve(s) \/ Remove(s) PROVE Paid
  <2>1. Pending(i, h)' \subseteq Pending(i, h)
    BY <1>2 DEF Pending, Goto, TypeOK, Receive, ParseFails, DecodeFails, Validator, EventFilter,
           Join, IsRetryable, Preserve, Remove, ChainOK, ChainPermanent, ChainRetryable
  <2>2. invoked' = invoked /\ seen' = seen /\ forgot' = forgot
    BY <1>2 DEF Receive, Join, Preserve, Remove
  <2> QED BY <2>1, <2>2, PaidFrame
<1>3. ASSUME NEW s \in Slots, FirstSeen(s) PROVE Paid
  <2>1. CASE Duplicate(s)
    <3>1. Pending(i, h)' \subseteq Pending(i, h)
      BY <1>3, <2>1 DEF FirstSeen, Duplicate, ChainOK, Pending, Goto, TypeOK
    <3>2. invoked' = invoked /\ seen' = seen /\ forgot' = forgot
      BY <1>3, <2>1 DEF FirstSeen, Duplicate
    <3> QED BY <3>1, <3>2, PaidFrame
  <2>2. CASE ~Duplicate(s)
    <3>1. id[s] \notin seen /\ seen' = seen \cup {id[s]} /\ Admit(s)
      BY <1>3, <2>2 DEF FirstSeen
    <3>2. UNCHANGED <<id, invoked, forgot>>
      BY <1>3 DEF FirstSeen
    <3> QED BY <3>1, <3>2, PaidAdmit
  <2> QED BY <2>1, <2>2
<1>4. ASSUME NEW s \in Slots, AddSeen(s) PROVE Paid
  BY <1>4 DEF AddSeen, CallsPaid
<1>5. ASSUME NEW s \in Slots, NEW g \in Handlers, CallHandler(s, g) PROVE Paid
  <2>1. CASE id[s] = i /\ g = h
    <3>1. Pending(i, h)' = Pending(i, h) \ {s} /\ s \in Pending(i, h)
      BY <1>5, <2>1 DEF CallHandler, Pending, TypeOK
    <3>2. Pending(i, h) \in SUBSET Slots
      BY DEF Pending
    <3>3. Cardinality(Pending(i, h)') = Cardinality(Pending(i, h)) - 1 /\ Cardinality(Pending(i, h)) \in Nat
      BY <3>1, <3>2, Counted
    <3>4. invoked'[<<i, h>>] = invoked[<<i, h>>] + 1 /\ seen' = seen /\ forgot' = forgot
      BY <1>5, <2>1 DEF CallHandler, TypeOK
    <3>5. invoked[<<i, h>>] \in Nat /\ forgot[i] \in Nat
      BY DEF TypeOK
    <3>6. invoked[<<i, h>>] + Cardinality(Pending(i, h)) <= forgot[i] + (IF i \in seen THEN 1 ELSE 0)
      BY DEF CallsPaid
    <3> QED BY <3>3, <3>4, <3>5, <3>6
  <2>2. CASE ~(id[s] = i /\ g = h)
    <3>1. Pending(i, h)' \subseteq Pending(i, h)
      BY <1>5 DEF CallHandler, Pending, TypeOK
    <3>2. invoked'[<<i, h>>] = invoked[<<i, h>>] /\ seen' = seen /\ forgot' = forgot
      BY <1>5, <2>2 DEF CallHandler, TypeOK
    <3> QED BY <3>1, <3>2, PaidFrame
  <2> QED BY <2>1, <2>2
<1>6. ASSUME NEW s \in Slots, NEW g \in Handlers, SkipHandler(s, g) PROVE Paid
  <2>1. Pending(i, h)' \subseteq Pending(i, h)
    BY <1>6 DEF SkipHandler, Pending, TypeOK
  <2> QED BY <1>6, <2>1, PaidFrame DEF SkipHandler
<1>7. ASSUME NEW e \in Events, NEW s \in Slots, Send(e, s) PROVE Paid
  <2>1. Pending(i, h)' \subseteq Pending(i, h)
    BY <1>7 DEF Send, Start, Goto, Pending, TypeOK
  <2> QED BY <1>7, <2>1, PaidFrame DEF Send
<1>8. ASSUME NEW j \in Jobs, NEW over \in BOOLEAN, NEW chosen \in SUBSET Events,
             StartReplay(j, over, chosen) PROVE Paid
  BY <1>8, PaidFrame DEF StartReplay, Pending
<1>9. ASSUME NEW j \in Jobs, NEW e \in Events, NEW s \in Slots, ReplayEntry(j, e, s) PROVE Paid
  <2>1. Pending(i, h)' \subseteq Pending(i, h)
    BY <1>9 DEF ReplayEntry, Start, Goto, Pending, TypeOK
  <2> QED BY <1>9, <2>1, PaidFrame DEF ReplayEntry
<1>10. ASSUME NEW s \in Slots, StoreError(s) PROVE Paid
  <2>1. Admit(s) /\ UNCHANGED <<id, invoked>>
    BY <1>10 DEF StoreError
  <2>2. seen \subseteq seen' /\ forgot' = [forgot EXCEPT ![id[s]] = @ + 1]
    BY <1>10 DEF StoreError
  <2> QED BY <2>1, <2>2, PaidAdmit
<1>11. ASSUME NEW k \in Ids, Expire(k) PROVE Paid
  <2>1. Pending(i, h)' = Pending(i, h) /\ invoked' = invoked
    BY <1>11 DEF Expire, Pending
  <2>2. \/ (i \in seen => i \in seen') /\ forgot'[i] = forgot[i]
        \/ forgot'[i] = forgot[i] + 1
    BY <1>11 DEF Expire, TypeOK
  <2> QED BY <2>1, <2>2, PaidFrame
<1>12. ASSUME Crash PROVE Paid
  <2>1. Pending(i, h)' \subseteq Pending(i, h)
    BY <1>12 DEF Crash, Pending
  <2> QED BY <1>12, <2>1, PaidFrame DEF Crash
<1>13. ASSUME \/ \E s \in Slots : ClientGone(s)
              \/ \E j \in Jobs : ReplayGone(j)
              \/ \E e \in Events : Purge(e)
              \/ UNCHANGED vars
       PROVE  Paid
  <2>1. Pending(i, h)' = Pending(i, h) /\ UNCHANGED <<invoked, seen, forgot>>
    BY <1>13 DEF ClientGone, ReplayGone, Purge, vars, Pending
  <2> QED BY <2>1, PaidFrame
<1> HIDE DEF Paid, slotVars, jobVars, histVars
<1>14. ASSUME NEW s \in Slots, SlotStep(s) PROVE Paid
  BY <1>2, <1>3, <1>4, <1>5, <1>6, <1>14 DEF SlotStep
<1>15. ASSUME Environment PROVE Paid
  BY <1>10, <1>11, <1>12, <1>13, <1>15 DEF Environment
<1>16. Paid
  BY <1>7, <1>8, <1>9, <1>13, <1>14, <1>15 DEF Next
<1> QED BY <1>16 DEF Paid

\* With a store whose FirstSeen is one step, no handler is called more often
\* under one CloudEvent ID than once, plus once for every time the store lost
\* or could not record it, for any number of concurrent requests,
\* retransmissions and replays.
THEOREM DispatchedOnce == ASSUME SharedStore PROVE Spec => []AtMostOncePerId
<1>1. Init => CallsPaid
  <2> SUFFICES ASSUME Init PROVE CallsPaid
    OBVIOUS
  <2>1. \A i \in Ids, h \in Handlers : Pending(i, h) = {}
    BY DEF Init, Pending
  <2>2. Cardinality({}) = 0
    BY FS_EmptySet
  <2>3. \A i \in Ids, h \in Handlers : invoked[<<i, h>>] = 0 /\ forgot[i] = 0
    BY DEF Init
  <2>4. \A s \in Slots : pc[s] # "add"
    BY DEF Init
  <2> QED BY <2>1, <2>2, <2>3, <2>4 DEF CallsPaid
<1>2. TypeOK /\ CallsPaid /\ [Next]_vars => CallsPaid'
  BY PaidStep
<1>3. TypeOK /\ CallsPaid => AtMostOncePerId
  <2> SUFFICES ASSUME TypeOK, CallsPaid, NEW i \in Ids, NEW h \in Handlers
               PROVE  invoked[<<i, h>>] <= 1 + forgot[i]
    BY DEF AtMostOncePerId
  <2>1. Cardinality(Pending(i, h)) \in Nat
    BY Counted DEF Pending
  <2>2. invoked[<<i, h>>] \in Nat /\ forgot[i] \in Nat
    BY DEF TypeOK
  <2>3. invoked[<<i, h>>] + Cardinality(Pending(i, h)) <= forgot[i] + (IF i \in seen THEN 1 ELSE 0)
    BY DEF CallsPaid
  <2> QED BY <2>1, <2>2, <2>3
<1> QED
  BY <1>1, <1>2, <1>3, TypeCorrect, PTL DEF Spec
=============================================================================
