------------------------------- MODULE Reload -------------------------------
(***************************************************************************)
(* cmd/receiver/reload.go and the shutdown of main.go. One goroutine,      *)
(* watchConfig, turns SIGHUP and file events (debounced by a timer) into   *)
(* reloads; a reload reads the file, builds handlers and a chain, stores   *)
(* the registry and the chain in two atomic pointers, one after the other, *)
(* and closes the handlers it replaced. Requests load the chain pointer    *)
(* when they enter and the registry pointer when they reach the            *)
(* dispatcher. main stops accepting requests, waits for those in flight    *)
(* for a bounded time, closes the handlers of the current registry and the *)
(* store, and the process ends; it waits for no reload.                    *)
(*                                                                         *)
(* A registry is named by its place in the order in which registries were  *)
(* built, a chain by the registry it was built with. Its handlers are one  *)
(* unit: Close marks them as closed and then waits until what they hold is *)
(* sent (batch.go) and their connections are shut; a second Close finds    *)
(* the mark and returns at once.                                           *)
(***************************************************************************)
EXTENDS Naturals, Sequences

CONSTANTS
  Requests,    \* requests that carry an event
  MaxVersion,  \* bound on the changes of the config file
  MaxSignals   \* bound on the SIGHUPs

ASSUME ReloadAssumption == MaxVersion \in Nat /\ MaxSignals \in Nat

VARIABLES
  disk,     \* the config file: its version, and whether it loads and builds
  fs,       \* file events the watcher has not delivered
  hup,      \* is a SIGHUP in the channel?
  signals,  \* SIGHUPs sent
  timer,    \* is the debounce timer running?
  due,      \* does debounceCh hold a token?
  watch,    \* where watchConfig is
  next,     \* the configuration it read
  old,      \* the registry whose handlers it will close
  built,    \* the config version each registry was built from
  reg,      \* regHolder
  chain,    \* chainHolder
  shut,     \* registries whose handlers are marked as closed
  flushed,  \* registries whose handlers are closed and have sent what they held
  req,      \* where each request is, its chain and its registry
  ctx,      \* is the context of run not cancelled?
  main,     \* where main is
  taken,    \* the registry whose handlers shutdown closes, 0 before it looked
  store,    \* is the store open?
  late,     \* history: did the shutdown's time run out under a request?
  overtook  \* history: was a registry installed after shutdown looked?

triggers == <<fs, hup, signals, timer, due>>
holders == <<reg, chain>>
closed == <<shut, flushed>>
ending == <<ctx, main, taken, store, late, overtook>>
vars == <<disk, triggers, watch, next, old, built, holders, closed, req, ending>>

Contents == {"good", "invalid", "unbuildable"}
Configs == [v : 0..MaxVersion, is : Contents]
NoRequest == [at |-> "idle", chain |-> 0, reg |-> 0]

TypeOK ==
  /\ disk \in Configs /\ next \in Configs
  /\ fs \in Nat /\ hup \in BOOLEAN /\ signals \in 0..MaxSignals
  /\ timer \in BOOLEAN /\ due \in BOOLEAN
  /\ watch \in {"select", "load", "build", "swap", "chain", "close", "flush", "stopped"}
  /\ built \in Seq(0..MaxVersion)
  /\ old \in DOMAIN built /\ reg \in DOMAIN built /\ chain \in DOMAIN built
  /\ shut \subseteq DOMAIN built /\ flushed \subseteq shut
  /\ req \in [Requests -> [at : {"idle", "chain", "call", "done"}, chain : {0} \cup DOMAIN built,
                           reg : {0} \cup DOMAIN built]]
  /\ ctx \in BOOLEAN
  /\ main \in {"running", "drain", "look", "close", "flush", "store", "return", "exited"}
  /\ taken \in {0} \cup DOMAIN built
  /\ store \in BOOLEAN /\ late \in BOOLEAN /\ overtook \in BOOLEAN

\* newApp loads and builds the first configuration.
Init ==
  /\ disk = [v |-> 0, is |-> "good"]
  /\ fs = 0 /\ hup = FALSE /\ signals = 0 /\ timer = FALSE /\ due = FALSE
  /\ watch = "select" /\ next = disk /\ old = 1
  /\ built = <<0>> /\ reg = 1 /\ chain = 1
  /\ shut = {} /\ flushed = {}
  /\ req = [r \in Requests |-> NoRequest]
  /\ ctx = TRUE /\ main = "running"
  /\ taken = 0 /\ store = TRUE /\ late = FALSE /\ overtook = FALSE

Up == main # "exited"

-----------------------------------------------------------------------------
(* The outside: the config file, signals and requests.                     *)

\* The config file changes: a ConfigMap's ..data link is swapped, or a file is
\* rewritten, which is two changes, the first of which may not load.
ChangeFile(is) ==
  /\ Up /\ disk.v < MaxVersion
  /\ disk' = [v |-> disk.v + 1, is |-> is]
  /\ fs' = fs + 1
  /\ UNCHANGED <<hup, signals, timer, due, watch, next, old, built, holders, closed, req, ending>>

\* signal.Notify drops a signal when the channel is full.
Signal ==
  /\ Up /\ signals < MaxSignals
  /\ signals' = signals + 1
  /\ hup' = TRUE
  /\ UNCHANGED <<disk, fs, timer, due, watch, next, old, built, holders, closed, req, ending>>

\* chainHolder.Handle
Enter(r) ==
  /\ main = "running" /\ req[r].at = "idle"
  /\ req' = [req EXCEPT ![r].at = "chain", ![r].chain = chain]
  /\ UNCHANGED <<disk, triggers, watch, next, old, built, holders, closed, ending>>

\* Dispatcher.Handle takes the handlers of the current registry.
Dispatch(r) ==
  /\ Up /\ req[r].at = "chain"
  /\ req' = [req EXCEPT ![r].at = "call", ![r].reg = reg]
  /\ UNCHANGED <<disk, triggers, watch, next, old, built, holders, closed, ending>>

\* It calls them; they may have been closed since.
CallHandlers(r) ==
  /\ Up /\ req[r].at = "call"
  /\ req' = [req EXCEPT ![r].at = "done"]
  /\ UNCHANGED <<disk, triggers, watch, next, old, built, holders, closed, ending>>

-----------------------------------------------------------------------------
(* watchConfig.                                                            *)

\* scheduleReload: the timer is stopped and started anew.
TakeFileEvent ==
  /\ Up /\ watch = "select" /\ fs > 0
  /\ fs' = fs - 1
  /\ timer' = TRUE
  /\ UNCHANGED <<disk, hup, signals, due, watch, next, old, built, holders, closed, req, ending>>

\* The timer's function leaves a token, unless one is there.
TimerFires ==
  /\ Up /\ timer
  /\ timer' = FALSE
  /\ due' = TRUE
  /\ UNCHANGED <<disk, fs, hup, signals, watch, next, old, built, holders, closed, req, ending>>

TakeSignal ==
  /\ Up /\ watch = "select" /\ hup
  /\ hup' = FALSE
  /\ watch' = "load"
  /\ UNCHANGED <<disk, fs, signals, timer, due, next, old, built, holders, closed, req, ending>>

TakeDue ==
  /\ Up /\ watch = "select" /\ due
  /\ due' = FALSE
  /\ watch' = "load"
  /\ UNCHANGED <<disk, fs, hup, signals, timer, next, old, built, holders, closed, req, ending>>

WatchStops ==
  /\ Up /\ watch = "select" /\ ~ctx
  /\ watch' = "stopped"
  /\ timer' = FALSE
  /\ UNCHANGED <<disk, fs, hup, signals, due, next, old, built, holders, closed, req, ending>>

-----------------------------------------------------------------------------
(* reload.                                                                 *)

\* Mutant: a file that does not load counts as the default configuration.
LoadDefaults ==
  /\ Up /\ watch = "load"
  /\ next' = IF disk.is = "invalid" THEN [v |-> 0, is |-> "good"] ELSE disk
  /\ watch' = "build"
  /\ UNCHANGED <<disk, triggers, old, built, holders, closed, req, ending>>

\* config.Load
Load ==
  /\ Up /\ watch = "load"
  /\ next' = disk
  /\ watch' = IF disk.is = "invalid" THEN "select" ELSE "build"
  /\ UNCHANGED <<disk, triggers, old, built, holders, closed, req, ending>>

\* factory.BuildAll and buildChain; the file may have changed since. A build
\* that fails leaves the handlers it had built open: they belong to no registry
\* and are not counted here (Config follows them).
Build ==
  /\ Up /\ watch = "build"
  /\ IF next.is = "good"
     THEN built' = Append(built, next.v) /\ watch' = "swap"
     ELSE watch' = "select" /\ UNCHANGED built
  /\ UNCHANGED <<disk, triggers, next, old, holders, closed, req, ending>>

SwapRegistry ==
  /\ Up /\ watch = "swap"
  /\ old' = reg
  /\ reg' = Len(built)
  /\ watch' = "chain"
  /\ overtook' = (overtook \/ taken # 0)
  /\ UNCHANGED <<disk, triggers, next, built, chain, closed, req, ctx, main, taken, store, late>>

\* Mutant: the chain, which reads regHolder, is not replaced.
SwapChainSkipped ==
  /\ Up /\ watch = "chain"
  /\ watch' = "close"
  /\ UNCHANGED <<disk, triggers, next, old, built, reg, chain, closed, req, ending>>

SwapChain ==
  /\ Up /\ watch = "chain"
  /\ chain' = Len(built)
  /\ watch' = "close"
  /\ UNCHANGED <<disk, triggers, next, old, built, reg, closed, req, ending>>

\* Mutant: a reload that meets the shutdown leaves the closing to it.
CloseOldUnlessStopping ==
  /\ Up /\ watch = "close"
  /\ shut' = IF ctx THEN shut \cup {old} ELSE shut
  /\ watch' = IF ctx THEN "flush" ELSE "select"
  /\ UNCHANGED <<disk, triggers, next, old, built, holders, flushed, req, ending>>

\* Close of the handlers looked up before the swap: at once when shutdown has
\* closed them.
CloseOld ==
  /\ Up /\ watch = "close"
  /\ shut' = shut \cup {old}
  /\ watch' = IF old \in shut THEN "select" ELSE "flush"
  /\ UNCHANGED <<disk, triggers, next, old, built, holders, flushed, req, ending>>

\* Mutant: what was triggered during the reload is dropped.
FlushOldDrains ==
  /\ Up /\ watch = "flush"
  /\ flushed' = flushed \cup {old}
  /\ watch' = "select"
  /\ fs' = 0 /\ timer' = FALSE /\ due' = FALSE
  /\ UNCHANGED <<disk, hup, signals, next, old, built, holders, shut, req, ending>>

\* Their last flush is done and their connections are shut; the reload ends.
FlushOld ==
  /\ Up /\ watch = "flush"
  /\ flushed' = flushed \cup {old}
  /\ watch' = "select"
  /\ UNCHANGED <<disk, triggers, next, old, built, holders, shut, req, ending>>

-----------------------------------------------------------------------------
(* run and shutdown.                                                       *)

elsewhere == <<disk, triggers, watch, next, old, built, holders, req>>
Served == \A r \in Requests : req[r].at \in {"idle", "done"}

\* SIGTERM, or the server failed.
Stop ==
  /\ main = "running"
  /\ ctx' = FALSE
  /\ main' = "drain"
  /\ UNCHANGED <<elsewhere, closed, taken, store, late, overtook>>

\* Mutant: the server is closed without waiting for its requests.
ServerClosed ==
  /\ main = "drain"
  /\ main' = "look"
  /\ UNCHANGED <<elsewhere, closed, ctx, taken, store, late, overtook>>

\* srv.Shutdown returns: the requests are done, or its time is up.
Drained ==
  /\ main = "drain"
  /\ late' = ~Served
  /\ main' = "look"
  /\ UNCHANGED <<elsewhere, closed, ctx, taken, store, overtook>>

\* Mutant: the handlers newApp built are closed.
LookAtFirst ==
  /\ main = "look"
  /\ taken' = 1
  /\ main' = "close"
  /\ UNCHANGED <<elsewhere, closed, ctx, store, late, overtook>>

\* regHolder.All: the handlers of the registry in use now.
Look ==
  /\ main = "look"
  /\ taken' = reg
  /\ main' = "close"
  /\ UNCHANGED <<elsewhere, closed, ctx, store, late, overtook>>

\* Their Close: at once when a reload replaced them since and closes them.
CloseTaken ==
  /\ main = "close"
  /\ shut' = shut \cup {taken}
  /\ main' = IF taken \in shut THEN "store" ELSE "flush"
  /\ UNCHANGED <<elsewhere, flushed, ctx, taken, store, late, overtook>>

\* Their last flush is done and their connections are shut.
FlushTaken ==
  /\ main = "flush"
  /\ flushed' = flushed \cup {taken}
  /\ main' = "store"
  /\ UNCHANGED <<elsewhere, shut, ctx, taken, store, late, overtook>>

CloseStore ==
  /\ main = "store"
  /\ store' = FALSE
  /\ main' = "return"
  /\ UNCHANGED <<elsewhere, closed, ctx, taken, late, overtook>>

\* run and main return: the process ends, whatever its goroutines are at.
Exit ==
  /\ main = "return"
  /\ main' = "exited"
  /\ UNCHANGED <<elsewhere, closed, ctx, taken, store, late, overtook>>

-----------------------------------------------------------------------------
Request(r) == Enter(r) \/ Dispatch(r) \/ CallHandlers(r)
Watch ==
  \/ TakeFileEvent \/ TakeSignal \/ TakeDue \/ WatchStops
  \/ Load \/ Build \/ SwapRegistry \/ SwapChain \/ CloseOld \/ FlushOld
Shutdown ==
  \/ Stop \/ Drained \/ Look \/ CloseTaken \/ FlushTaken \/ CloseStore \/ Exit

Next ==
  \/ \E is \in Contents : ChangeFile(is)
  \/ Signal
  \/ \E r \in Requests : Request(r)
  \/ TimerFires
  \/ Watch
  \/ Shutdown

Spec == Init /\ [][Next]_vars

\* The watching goroutine runs and the debounce timer fires. Nothing makes the
\* outside write, signal or stop.
FairSpec == Spec /\ WF_vars(Watch) /\ WF_vars(TimerFires)

-----------------------------------------------------------------------------
(* Properties.                                                             *)

\* Between reloads the chain and the handlers come from one configuration,
\* failed reloads included: "An invalid config leaves the current one
\* untouched".
OneConfiguration == watch \in {"select", "load", "build", "stopped"} => reg = chain

\* While an event is on its way to the handlers the store is open, and so are
\* the handlers it reached unless a reload replaced them since: neither a
\* reload, failed or not, nor the shutdown pulls them away under it, until the
\* shutdown's time has run out.
ServedOpen ==
  \A r \in Requests :
    req[r].at \in {"chain", "call"} /\ ~late =>
      /\ store
      /\ req[r].at = "call" /\ req[r].reg = reg => reg \notin shut

\* A registry that a reload replaced is closed, and has sent what it held, when
\* the reload ends; the one shutdown closes may be on its way. It speaks of
\* registries: the handlers of a build that failed belong to none.
ReplacedClosed ==
  watch = "select" => (1 .. Len(built)) \ {reg, taken} \subseteq flushed

\* The configuration in use never goes back to an older one.
NeverBack == [][built'[reg'] >= built[reg] /\ built'[chain'] >= built[chain]]_vars

\* The last change of the file takes effect, whatever reload it meets: no
\* event, token or signal is lost that would be needed.
EventuallyCurrent ==
  <>[](disk.is = "good" /\ ctx => built[reg] = disk.v /\ built[chain] = disk.v)

\* When the process ends, every registry is closed and has sent what it held,
\* but for those of a reload the shutdown does not wait for: the one it was
\* about to install or to close, and the one it installed after the shutdown had
\* looked up what to close.
ExitFlushed ==
  main = "exited" =>
    \A i \in (1 .. Len(built)) \ flushed :
      \/ watch = "swap" /\ i = Len(built)
      \/ watch \in {"chain", "close", "flush"} /\ i = old
      \/ overtook /\ i = reg

-----------------------------------------------------------------------------
(* The inductive strengthening of the safety properties.                   *)

Resting == watch \in {"select", "load", "build", "stopped"}
Replacing == watch \in {"chain", "close", "flush"}

\* Which registries the pointers name during a reload.
Pointers ==
  /\ Resting => reg = chain
  /\ watch = "swap" => reg = chain /\ reg # Len(built)
  /\ watch = "chain" => old = chain /\ reg = Len(built) /\ old # reg
  /\ watch \in {"close", "flush"} => chain = reg /\ reg = Len(built) /\ old # reg

\* Which registries are closed during a reload.
OpenOnes ==
  /\ Resting => (1 .. Len(built)) \ {reg, taken} \subseteq flushed
  /\ watch = "swap" => (1 .. Len(built)) \ {reg, Len(built), taken} \subseteq flushed
  /\ Replacing => (1 .. Len(built)) \ {reg, old, taken} \subseteq flushed

\* Which are still open: only shutdown closes the one in use, and only the
\* reload the one it replaced.
OpenStill ==
  /\ reg \in shut => reg = taken
  /\ watch = "swap" => Len(built) \notin shut /\ Len(built) # taken
  /\ watch \in {"chain", "close"} /\ old \in shut => old = taken
  /\ watch = "flush" => old \in shut

\* How far the shutdown is.
Ending ==
  /\ taken = 0 <=> main \in {"running", "drain", "look"}
  /\ taken # 0 /\ ~overtook => reg = taken
  /\ main \in {"close", "store", "return", "exited"} /\ taken \in shut =>
       taken \in flushed \/ (watch = "flush" /\ old = taken)
  /\ main \in {"flush", "store", "return", "exited"} => taken \in shut
  /\ ~store => main \in {"return", "exited"}
  /\ main \notin {"running", "drain"} /\ ~late => Served

\* Configurations are built in the order of their versions.
InOrder ==
  /\ \A i, j \in DOMAIN built : i <= j => built[i] <= built[j]
  /\ \A i \in DOMAIN built : built[i] <= disk.v
  /\ next.v <= disk.v
  /\ watch = "build" => \A i \in DOMAIN built : built[i] <= next.v

IInv == TypeOK /\ Pointers /\ OpenOnes /\ OpenStill /\ Ending /\ InOrder

=============================================================================
