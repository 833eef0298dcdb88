---------------------------- MODULE ReloadProofs ----------------------------
(***************************************************************************)
(* Proofs about Reload, for any number of requests, file changes and       *)
(* signals.                                                                *)
(***************************************************************************)
EXTENDS Reload, TLAPS, SequenceTheorems

\* What the sequence of registries is.
LEMMA BuiltType ==
  ASSUME TypeOK
  PROVE  /\ built \in Seq(0 .. MaxVersion) /\ Len(built) \in Nat
         /\ DOMAIN built = 1 .. Len(built)
         /\ \A i \in 1 .. Len(built) : built[i] \in 0 .. MaxVersion
BY LenProperties DEF TypeOK

\* newApp establishes the invariant.
LEMMA InitIInv == ASSUME Init PROVE IInv
<1>1. /\ built \in Seq(0 .. MaxVersion) /\ Len(built) = 1 /\ DOMAIN built = {1} /\ built[1] = 0
  BY ReloadAssumption DEF Init
<1>2. disk \in Configs /\ next \in Configs /\ disk.v = 0 /\ next.v = 0
  BY ReloadAssumption DEF Init, Configs, Contents
<1>3. TypeOK
  <2>1. NoRequest \in [at : {"idle", "chain", "call", "done"}, chain : {0} \cup {1},
                       reg : {0} \cup {1}]
    BY DEF NoRequest
  <2>2. req \in [Requests -> [at : {"idle", "chain", "call", "done"}, chain : {0} \cup {1},
                              reg : {0} \cup {1}]]
    BY <2>1 DEF Init
  <2>3. 0 \in Nat /\ 0 \in 0 .. MaxSignals
    BY ReloadAssumption
  <2> QED BY <1>1, <1>2, <2>2, <2>3 DEF Init, TypeOK
<1>4. Pointers /\ OpenOnes /\ OpenStill
  BY <1>1 DEF Init, Pointers, OpenOnes, OpenStill, Resting, Replacing
<1>6. Ending
  BY DEF Init, Ending
<1>5. InOrder
  BY <1>1, <1>2 DEF Init, InOrder
<1> QED BY <1>3, <1>4, <1>5, <1>6 DEF IInv

\* A step that changes no pointer, no registry, not where the reload is and not
\* what shutdown closes.
LEMMA OutsideStep ==
  ASSUME IInv, UNCHANGED <<disk, watch, next, old, built, holders, closed, taken>>, TypeOK', Ending'
  PROVE  IInv'
<1>1. Pointers' /\ OpenOnes' /\ OpenStill'
  BY DEF IInv, Pointers, OpenOnes, OpenStill, Resting, Replacing, holders, closed
<1>2. InOrder'
  BY DEF IInv, InOrder
<1> QED BY <1>1, <1>2 DEF IInv

\* A step that leaves the shutdown, what is closed, requests and the reload's
\* place alone.
LEMMA SameEnding ==
  ASSUME IInv, UNCHANGED <<watch, old, reg, closed, req, ending>>
  PROVE  Ending'
BY DEF IInv, Ending, Served, closed, ending

\* The file changes.
LEMMA ChangeFileStep == ASSUME IInv, NEW is \in Contents, ChangeFile(is) PROVE IInv'
<1> USE DEF IInv
<1>1. /\ disk.v < MaxVersion /\ disk' = [v |-> disk.v + 1, is |-> is] /\ fs' = fs + 1
      /\ UNCHANGED <<hup, signals, timer, due, watch, next, old, built, reg, chain, closed, req, ending>>
  BY DEF ChangeFile, holders
<1>2. disk \in Configs /\ next \in Configs /\ fs \in Nat /\ MaxVersion \in Nat
  BY ReloadAssumption DEF TypeOK
<1>3. disk.v \in Nat /\ next.v \in Nat /\ disk'.v = disk.v + 1 /\ disk' \in Configs
  BY <1>1, <1>2 DEF Configs
<1>4. TypeOK'
  BY <1>1, <1>2, <1>3 DEF TypeOK, closed, ending
<1>5. Pointers' /\ OpenOnes' /\ OpenStill' /\ Ending'
  BY <1>1, SameEnding DEF Pointers, OpenOnes, OpenStill, Resting, Replacing, closed, ending
<1>6. \A i \in DOMAIN built : built[i] \in Nat
  BY BuiltType, <1>2
<1>7. InOrder'
  BY <1>1, <1>3, <1>6 DEF InOrder
<1> QED BY <1>4, <1>5, <1>7

\* Requests read pointers and call handlers.
LEMMA RequestStep == ASSUME IInv, NEW r \in Requests, Request(r) PROVE IInv'
<1>1. UNCHANGED <<disk, triggers, watch, next, old, built, holders, closed, ending>>
  BY DEF Request, Enter, Dispatch, CallHandlers
<1>2. TypeOK'
  <2>1. req' \in [Requests -> [at : {"idle", "chain", "call", "done"}, chain : {0} \cup DOMAIN built,
                               reg : {0} \cup DOMAIN built]]
    <3> DEFINE R == [at : {"idle", "chain", "call", "done"}, chain : {0} \cup DOMAIN built,
                     reg : {0} \cup DOMAIN built]
    <3>1. req \in [Requests -> R] /\ req[r] \in R /\ reg \in DOMAIN built /\ chain \in DOMAIN built
      BY DEF IInv, TypeOK
    <3>2. CASE Enter(r)
      <4>1. req' = [req EXCEPT ![r] = [req[r] EXCEPT !.at = "chain", !.chain = chain]]
        BY <3>2 DEF Enter
      <4> QED BY <3>1, <4>1
    <3>3. CASE Dispatch(r)
      <4>1. req' = [req EXCEPT ![r] = [req[r] EXCEPT !.at = "call", !.reg = reg]]
        BY <3>3 DEF Dispatch
      <4> QED BY <3>1, <4>1
    <3>4. CASE CallHandlers(r)
      <4>1. req' = [req EXCEPT ![r] = [req[r] EXCEPT !.at = "done"]]
        BY <3>4 DEF CallHandlers
      <4> QED BY <3>1, <4>1
    <3> QED BY <3>2, <3>3, <3>4 DEF Request
  <2> QED BY <1>1, <2>1 DEF IInv, TypeOK, triggers, holders, closed, ending
<1>3. req[r].at \in {"idle", "chain", "call", "done"}
  BY DEF IInv, TypeOK
<1>4. main \in {"running", "drain"} \/ late
  <2>1. main = "running" \/ ~Served
    BY DEF Request, Enter, Dispatch, CallHandlers, Served
  <2> QED BY <2>1 DEF IInv, Ending
<1>5. Ending'
  BY <1>1, <1>4 DEF IInv, Ending, closed, ending, holders
<1> QED BY <1>1, <1>2, <1>5, OutsideStep DEF ending

\* Triggers come and go.
LEMMA TriggerStep ==
  ASSUME IInv, Signal \/ TakeFileEvent \/ TimerFires
  PROVE  IInv'
<1>1. UNCHANGED <<disk, watch, next, old, built, holders, closed, req, ending>>
  BY DEF Signal, TakeFileEvent, TimerFires
<1>2. /\ fs' \in Nat /\ hup' \in BOOLEAN /\ signals' \in 0 .. MaxSignals /\ timer' \in BOOLEAN
      /\ due' \in BOOLEAN
  <2>1. CASE Signal
    BY <2>1, ReloadAssumption DEF IInv, TypeOK, Signal
  <2>2. CASE TakeFileEvent
    BY <2>2 DEF IInv, TypeOK, TakeFileEvent
  <2>3. CASE TimerFires
    BY <2>3 DEF IInv, TypeOK, TimerFires
  <2> QED BY <2>1, <2>2, <2>3
<1>3. TypeOK'
  BY <1>1, <1>2 DEF IInv, TypeOK, holders, closed, ending
<1> QED BY <1>1, <1>3, SameEnding, OutsideStep DEF holders, ending

\* The reload starts, fails to load, or the goroutine stops: from one resting
\* point to another.
LEMMA RestStep ==
  ASSUME IInv, TakeSignal \/ TakeDue \/ WatchStops \/ Load
  PROVE  IInv'
<1> USE DEF IInv
<1>1. /\ Resting /\ Resting' /\ watch # "build" /\ watch' \in {"select", "load", "build", "stopped"}
      /\ UNCHANGED <<disk, fs, signals, old, built, reg, chain, closed, req, ending>>
  BY DEF TakeSignal, TakeDue, WatchStops, Load, Resting, triggers, holders
<1>2. /\ next' \in {next, disk} /\ hup' \in BOOLEAN /\ timer' \in BOOLEAN /\ due' \in BOOLEAN
      /\ watch' = "build" => next' = disk
  BY DEF TakeSignal, TakeDue, WatchStops, Load, triggers, TypeOK
<1>3. TypeOK'
  BY <1>1, <1>2 DEF TypeOK, closed, ending
<1>4. Pointers'
  BY <1>1 DEF Pointers, Resting
<1>5. OpenOnes' /\ OpenStill' /\ Ending'
  <2>1. watch' \notin {"swap", "chain", "close", "flush"} /\ watch # "flush"
    BY <1>1 DEF Resting
  <2> QED BY <1>1, <2>1 DEF OpenOnes, OpenStill, Ending, Resting, Replacing, Served, closed, ending
<1>6. InOrder'
  <2>1. disk.v \in Nat
    BY DEF TypeOK, Configs
  <2> QED BY <1>1, <1>2, <2>1 DEF InOrder
<1> QED BY <1>3, <1>4, <1>5, <1>6

\* A registry is built, or the build fails.
LEMMA BuildStep == ASSUME IInv, Build PROVE IInv'
<1> USE DEF IInv
<1>1. /\ watch = "build" /\ Up
      /\ UNCHANGED <<disk, fs, hup, signals, timer, due, next, old, reg, chain, closed, req, ending>>
  BY DEF Build, triggers, holders
<1>e. watch' # "flush" => Ending'
  BY <1>1 DEF Ending, Served, closed, ending
<1>2. CASE next.is # "good"
  <2>1. watch' = "select" /\ built' = built
    BY <1>2 DEF Build
  <2>2. TypeOK' /\ Pointers'
    BY <1>1, <2>1 DEF TypeOK, Pointers, Resting, closed, ending
  <2>3. OpenOnes' /\ OpenStill'
    BY <1>1, <2>1 DEF OpenOnes, OpenStill, Resting, Replacing, closed, ending
  <2>4. InOrder'
    BY <1>1, <2>1 DEF InOrder
  <2> QED BY <1>e, <2>1, <2>2, <2>3, <2>4
<1>3. CASE next.is = "good"
  <2>1. watch' = "swap" /\ built' = Append(built, next.v)
    BY <1>3 DEF Build
  <2>2. next.v \in 0 .. MaxVersion /\ disk.v \in Nat
    BY ReloadAssumption DEF TypeOK, Configs
  <2>3. built \in Seq(0 .. MaxVersion) /\ Len(built) \in Nat /\ DOMAIN built = 1 .. Len(built)
        /\ \A i \in 1 .. Len(built) : built[i] \in 0 .. MaxVersion
    BY BuiltType
  <2>4. /\ built' \in Seq(0 .. MaxVersion) /\ Len(built') = Len(built) + 1
        /\ \A i \in 1 .. Len(built) : built'[i] = built[i]
        /\ built'[Len(built) + 1] = next.v
    BY <2>1, <2>2, <2>3, AppendProperties
  <2>5. DOMAIN built' = 1 .. (Len(built) + 1)
    BY <2>4, LenProperties
  <2>6. DOMAIN built \subseteq DOMAIN built'
    BY <2>3, <2>5
  <2>7. TypeOK'
    BY <1>1, <2>1, <2>4, <2>6 DEF TypeOK, closed, ending
  <2>8. reg \in 1 .. Len(built) /\ reg = chain
    BY <1>1, <2>3 DEF TypeOK, Pointers, Resting
  <2>9. Pointers'
    BY <1>1, <2>1, <2>3, <2>4, <2>8 DEF Pointers, Resting
  <2>10. (1 .. Len(built)) \ {reg, taken} \subseteq flushed /\ shut \subseteq 1 .. Len(built)
        /\ taken # Len(built) + 1
    BY <1>1, <2>3 DEF TypeOK, OpenOnes, Resting
  <2>11. OpenOnes' /\ OpenStill'
    BY <1>1, <2>1, <2>3, <2>4, <2>8, <2>10 DEF OpenOnes, OpenStill, Resting, Replacing, closed, ending
  <2>12. \A i \in 1 .. Len(built) : built[i] <= next.v
    BY <1>1, <2>3 DEF InOrder
  <2>13. InOrder'
    BY <1>1, <2>1, <2>2, <2>3, <2>4, <2>5, <2>12 DEF InOrder
  <2> QED BY <1>e, <2>1, <2>7, <2>9, <2>11, <2>13
<1> QED BY <1>2, <1>3

\* The pointers are stored and the old registry closed and flushed.
LEMMA SwapStep ==
  ASSUME IInv, SwapRegistry \/ SwapChain \/ CloseOld \/ FlushOld
  PROVE  IInv'
<1> USE DEF IInv
<1>0. Len(built) \in Nat /\ DOMAIN built = 1 .. Len(built) /\ reg \in 1 .. Len(built)
      /\ old \in 1 .. Len(built) /\ Len(built) \in 1 .. Len(built)
      /\ taken \in 0 .. Len(built)
  BY BuiltType DEF TypeOK
<1>1. /\ UNCHANGED <<disk, fs, hup, signals, timer, due, next, built, req, ctx, main, taken, store, late>>
      /\ watch' \in {"chain", "close", "flush", "select"}
  BY DEF SwapRegistry, SwapChain, CloseOld, FlushOld, triggers, ending
<1>2. /\ reg' \in DOMAIN built /\ chain' \in DOMAIN built /\ old' \in DOMAIN built
      /\ shut' \subseteq DOMAIN built /\ flushed' \subseteq shut' /\ overtook' \in BOOLEAN
  BY <1>0 DEF SwapRegistry, SwapChain, CloseOld, FlushOld, TypeOK, OpenStill, holders, closed, ending
<1>3. TypeOK'
  BY <1>1, <1>2 DEF TypeOK
<1>4. InOrder'
  BY <1>1 DEF InOrder
<1>5. Pointers'
  BY <1>1 DEF SwapRegistry, SwapChain, CloseOld, FlushOld, Pointers, Resting, holders
<1>6. CASE SwapRegistry
  <2>1. OpenOnes' /\ OpenStill'
    BY <1>0, <1>1, <1>6 DEF SwapRegistry, Pointers, OpenOnes, OpenStill, Resting, Replacing, closed
  <2>2. Ending'
    BY <1>6 DEF SwapRegistry, Ending, Served, closed
  <2> QED BY <1>3, <1>4, <1>5, <2>1, <2>2
<1>7. CASE SwapChain
  <2>1. OpenOnes' /\ OpenStill'
    BY <1>7 DEF SwapChain, OpenOnes, OpenStill, Resting, Replacing, closed, ending
  <2>2. Ending'
    BY <1>7 DEF SwapChain, Ending, Served, closed, ending
  <2> QED BY <1>3, <1>4, <1>5, <2>1, <2>2
<1>8. CASE CloseOld
  <2>1. OpenOnes' /\ OpenStill'
    BY <1>0, <1>8 DEF CloseOld, Pointers, OpenOnes, OpenStill, Resting, Replacing, holders, ending
  <2>2. Ending'
    BY <1>0, <1>8 DEF CloseOld, Ending, OpenStill, Served, holders, ending
  <2> QED BY <1>3, <1>4, <1>5, <2>1, <2>2
<1>9. CASE FlushOld
  <2>1. OpenOnes' /\ OpenStill'
    BY <1>9 DEF FlushOld, OpenOnes, OpenStill, Resting, Replacing, holders, ending
  <2>2. Ending'
    BY <1>9 DEF FlushOld, Ending, Served, holders, ending
  <2> QED BY <1>3, <1>4, <1>5, <2>1, <2>2
<1> QED BY <1>6, <1>7, <1>8, <1>9

\* The shutdown goes on, from the cancelled context to the end of the process.
LEMMA ShutdownStep == ASSUME IInv, Shutdown PROVE IInv'
<1> USE DEF IInv
<1>0. Len(built) \in Nat /\ DOMAIN built = 1 .. Len(built) /\ reg \in 1 .. Len(built)
      /\ old \in 1 .. Len(built) /\ taken \in 0 .. Len(built)
  BY BuiltType DEF TypeOK
<1>1. UNCHANGED <<disk, fs, hup, signals, timer, due, watch, next, old, built, reg, chain, req, overtook>>
  BY DEF Shutdown, Stop, Drained, Look, CloseTaken, FlushTaken, CloseStore, Exit, elsewhere, triggers, holders
<1>2. /\ ctx' \in BOOLEAN /\ store' \in BOOLEAN /\ late' \in BOOLEAN
      /\ main' \in {"running", "drain", "look", "close", "flush", "store", "return", "exited"}
      /\ taken' \in {0} \cup DOMAIN built
  BY DEF Shutdown, Stop, Drained, Look, CloseTaken, FlushTaken, CloseStore, Exit, TypeOK
<1>3. shut' \subseteq DOMAIN built /\ flushed' \subseteq shut'
  <2>1. CASE CloseTaken
    BY <1>0, <2>1 DEF CloseTaken, TypeOK, Ending
  <2>2. CASE FlushTaken
    BY <2>2 DEF FlushTaken, TypeOK, Ending
  <2>3. CASE UNCHANGED closed
    BY <2>3 DEF closed, TypeOK
  <2> QED BY <2>1, <2>2, <2>3 DEF Shutdown, Stop, Drained, Look, CloseStore, Exit
<1>4. TypeOK'
  BY <1>1, <1>2, <1>3 DEF TypeOK
<1>5. Pointers' /\ InOrder'
  BY <1>1 DEF Pointers, InOrder, Resting
<1>6. CASE Stop
  BY <1>1, <1>4, <1>6, OutsideStep DEF Stop, Ending, Served, elsewhere, closed, holders
<1>7. CASE Drained
  BY <1>1, <1>4, <1>7, OutsideStep DEF Drained, Ending, Served, elsewhere, closed, holders
<1>8. CASE Look
  <2>1. /\ taken = 0 /\ taken' = reg /\ main = "look" /\ main' = "close" /\ reg \notin shut
        /\ UNCHANGED <<shut, flushed, store, late>>
    BY <1>0, <1>8 DEF Look, Ending, OpenStill, closed
  <2>2. OpenOnes'
    <3>1. (1 .. Len(built)) \ {reg, taken} = (1 .. Len(built)) \ {reg, taken'}
      BY <2>1, <1>0
    <3>2. Resting => (1 .. Len(built)) \ {reg, taken'} \subseteq flushed
      BY <3>1 DEF OpenOnes
    <3>3. watch = "swap" => (1 .. Len(built)) \ {reg, Len(built), taken'} \subseteq flushed
      BY <2>1, <1>0 DEF OpenOnes
    <3>4. Replacing => (1 .. Len(built)) \ {reg, old, taken'} \subseteq flushed
      BY <2>1, <1>0 DEF OpenOnes
    <3> QED BY <1>1, <2>1, <3>2, <3>3, <3>4 DEF OpenOnes, Resting, Replacing
  <2>4. OpenStill'
    <3>1. watch = "swap" => Len(built) \notin shut /\ Len(built) # taken'
      BY <2>1 DEF OpenStill, Pointers
    <3>2. watch \in {"chain", "close"} => old \notin shut
      BY <1>0, <2>1 DEF OpenStill
    <3>3. watch = "flush" => old \in shut
      BY DEF OpenStill
    <3> QED BY <1>1, <2>1, <3>1, <3>2, <3>3 DEF OpenStill
  <2>3. Ending'
    BY <1>0, <1>1, <2>1 DEF Ending, Served
  <2> QED BY <1>4, <1>5, <2>2, <2>3, <2>4
<1>9. CASE CloseTaken
  <2>1. /\ main = "close" /\ shut' = shut \cup {taken}
        /\ main' = IF taken \in shut THEN "store" ELSE "flush"
        /\ UNCHANGED <<flushed, taken, store, late>>
    BY <1>9 DEF CloseTaken
  <2>2. OpenOnes' /\ OpenStill'
    BY <1>1, <2>1, <1>0 DEF OpenOnes, OpenStill, Pointers, Resting, Replacing
  <2>3. Ending'
    BY <1>1, <2>1 DEF Ending, Served
  <2> QED BY <1>4, <1>5, <2>2, <2>3
<1>10. CASE FlushTaken
  <2>1. /\ main = "flush" /\ flushed' = flushed \cup {taken} /\ main' = "store"
        /\ UNCHANGED <<shut, taken, store, late>>
    BY <1>10 DEF FlushTaken
  <2>2. OpenOnes' /\ OpenStill'
    BY <1>1, <2>1 DEF OpenOnes, OpenStill, Resting, Replacing
  <2>3. Ending'
    BY <1>1, <2>1 DEF Ending, Served
  <2> QED BY <1>4, <1>5, <2>2, <2>3
<1>11. CASE CloseStore \/ Exit
  BY <1>1, <1>4, <1>11, OutsideStep DEF CloseStore, Exit, Ending, Served, elsewhere, closed, holders
<1> QED BY <1>6, <1>7, <1>8, <1>9, <1>10, <1>11 DEF Shutdown

\* Every step keeps the invariant.
LEMMA NextIInv == ASSUME IInv, [Next]_vars PROVE IInv'
<1>1. CASE UNCHANGED vars
  <2>1. TypeOK'
    BY <1>1 DEF vars, triggers, holders, closed, ending, IInv, TypeOK
  <2> QED BY <1>1, <2>1, SameEnding, OutsideStep DEF vars, holders, ending
<1>2. CASE Next
  BY <1>2, ChangeFileStep, RequestStep, TriggerStep, RestStep, BuildStep, SwapStep, ShutdownStep
  DEF Next, Watch
<1> QED BY <1>1, <1>2

\* The state keeps its types.
THEOREM TypeCorrect == Spec => []TypeOK
<1>1. IInv => TypeOK
  BY DEF IInv
<1> QED BY InitIInv, NextIInv, <1>1, PTL DEF Spec

\* Between reloads, failed ones included, the chain and the handlers come from
\* one configuration.
THEOREM ConfigurationsMatch == Spec => []OneConfiguration
<1>1. IInv => OneConfiguration
  BY DEF IInv, Pointers, OneConfiguration, Resting
<1> QED BY InitIInv, NextIInv, <1>1, PTL DEF Spec

\* Neither a reload nor the shutdown closes the store, or the handlers in use,
\* under a request before the shutdown's time has run out.
THEOREM ServedWhileOpen == Spec => []ServedOpen
<1>1. IInv => ServedOpen
  <2> SUFFICES ASSUME IInv, NEW r \in Requests, req[r].at \in {"chain", "call"}, ~late
               PROVE  store /\ reg \notin shut
    BY DEF ServedOpen
  <2>1. ~Served
    BY DEF Served
  <2>2. store /\ taken = 0
    BY <2>1 DEF IInv, Ending
  <2>3. reg # 0
    BY BuiltType DEF IInv, TypeOK
  <2> QED BY <2>2, <2>3 DEF IInv, OpenStill
<1> QED BY InitIInv, NextIInv, <1>1, PTL DEF Spec

\* Between reloads every replaced registry is closed and flushed, but for one
\* the shutdown is closing.
THEOREM ReplacedAreClosed == Spec => []ReplacedClosed
<1>1. IInv => ReplacedClosed
  BY DEF IInv, OpenOnes, ReplacedClosed, Resting
<1> QED BY InitIInv, NextIInv, <1>1, PTL DEF Spec

\* When the process ends every registry is closed and flushed, but for those
\* that a reload overlapping the shutdown was installing or closing.
THEOREM ExitLeavesFlushed == Spec => []ExitFlushed
<1>1. IInv => ExitFlushed
  <2> SUFFICES ASSUME IInv, main = "exited", NEW i \in (1 .. Len(built)) \ flushed
               PROVE  \/ watch = "swap" /\ i = Len(built)
                      \/ watch \in {"chain", "close", "flush"} /\ i = old
                      \/ overtook /\ i = reg
    BY DEF ExitFlushed
  <2>1. watch \in {"select", "load", "build", "swap", "chain", "close", "flush", "stopped"}
    BY DEF IInv, TypeOK
  <2>2. taken \in flushed \/ (watch = "flush" /\ old = taken)
    BY DEF IInv, Ending
  <2>3. ~overtook => reg = taken
    BY DEF IInv, Ending
  <2>4. CASE Resting
    BY <2>2, <2>3, <2>4 DEF IInv, OpenOnes, Resting
  <2>5. CASE watch = "swap"
    BY <2>2, <2>3, <2>5 DEF IInv, OpenOnes
  <2>6. CASE Replacing
    BY <2>2, <2>3, <2>6 DEF IInv, OpenOnes, Replacing
  <2> QED BY <2>1, <2>4, <2>5, <2>6 DEF Resting, Replacing
<1> QED BY InitIInv, NextIInv, <1>1, PTL DEF Spec

\* The configuration in use never goes back to an older one.
THEOREM ConfigurationAdvances == Spec => NeverBack
<1>1. ASSUME IInv, [Next]_vars
      PROVE  [built'[reg'] >= built[reg] /\ built'[chain'] >= built[chain]]_vars
  <2>1. /\ Len(built) \in Nat /\ reg \in 1 .. Len(built) /\ chain \in 1 .. Len(built)
        /\ \A i \in 1 .. Len(built) : built[i] \in Nat
        /\ \A i, j \in 1 .. Len(built) : i <= j => built[i] <= built[j]
    <3>1. TypeOK /\ InOrder
      BY <1>1 DEF IInv
    <3>2. Len(built) \in Nat /\ DOMAIN built = 1 .. Len(built)
          /\ \A i \in 1 .. Len(built) : built[i] \in 0 .. MaxVersion
      BY <3>1, BuiltType
    <3>3. reg \in 1 .. Len(built) /\ chain \in 1 .. Len(built)
      BY <3>1, <3>2 DEF TypeOK
    <3>4. \A i, j \in 1 .. Len(built) : i <= j => built[i] <= built[j]
      BY <3>1, <3>2 DEF InOrder
    <3> QED BY <3>2, <3>3, <3>4, ReloadAssumption
  <2>2. CASE UNCHANGED vars
    BY <2>2
  <2>3. CASE SwapRegistry
    BY <2>1, <2>3 DEF SwapRegistry
  <2>4. CASE SwapChain
    BY <2>1, <2>4 DEF SwapChain
  <2>5. CASE Build
    <3>1. next.v \in 0 .. MaxVersion /\ built \in Seq(0 .. MaxVersion)
      BY <1>1 DEF IInv, TypeOK, Configs
    <3>2. \A i \in 1 .. Len(built) : built'[i] = built[i]
      BY <2>5, <3>1, AppendProperties DEF Build
    <3> QED BY <2>1, <2>5, <3>2 DEF Build, holders
  <2>6. CASE UNCHANGED <<built, holders>>
    BY <2>1, <2>6 DEF holders
  <2>7. CASE \E is \in Contents : ChangeFile(is)
    BY <2>6, <2>7 DEF ChangeFile
  <2>8. CASE \E r \in Requests : Request(r)
    BY <2>6, <2>8 DEF Request, Enter, Dispatch, CallHandlers
  <2>9. CASE Signal \/ TimerFires
    BY <2>6, <2>9 DEF Signal, TimerFires
  <2>10. CASE TakeFileEvent \/ TakeSignal \/ TakeDue \/ WatchStops \/ Load \/ CloseOld \/ FlushOld
    BY <2>6, <2>10 DEF TakeFileEvent, TakeSignal, TakeDue, WatchStops, Load, CloseOld, FlushOld
  <2>11. CASE Shutdown
    BY <2>6, <2>11 DEF Shutdown, Stop, Drained, Look, CloseTaken, FlushTaken, CloseStore, Exit, elsewhere
  <2> QED BY <1>1, <2>2, <2>3, <2>4, <2>5, <2>7, <2>8, <2>9, <2>10, <2>11 DEF Next, Watch
<1> QED BY InitIInv, NextIInv, <1>1, PTL DEF Spec, NeverBack
=============================================================================
