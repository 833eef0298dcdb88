------------------------------- MODULE Batch -------------------------------
(***************************************************************************)
(* internal/notifier/batch/batch.go: the wrapper that turns single events  *)
(* into batches for slack, discord, teams and webhook. Handle puts an      *)
(* event on a buffered channel; one goroutine moves events from the        *)
(* channel to a buffer and flushes it when it is full or when the ticker   *)
(* fires; Close closes the channel, waits for that goroutine and flushes   *)
(* what is left. A send on the closed channel panics in a goroutine of the *)
(* dispatcher, which nothing recovers: the process dies.                   *)
(***************************************************************************)
EXTENDS Naturals, Sequences

CONSTANTS
  Events,   \* events handed to Handle, each by a goroutine of its own
  Closers,  \* goroutines that call Close (reload, shutdown)
  MaxSize,  \* Config.MaxSize
  HasQueue  \* is a dead letter queue passed to New?

ASSUME BatchAssumption == MaxSize \in Nat \ {0} /\ HasQueue \in BOOLEAN

VARIABLES
  ch,        \* h.ch
  buffer,    \* h.buffer
  batch,     \* the events being flushed
  closed,    \* h.closed; the channel is closed with it
  handle,    \* where the Handle call of each event is
  run,       \* where the background goroutine is
  close,     \* where each Close call is
  alive,     \* has the process not panicked?
  accepted,  \* history: events Handle accepted, in that order
  out        \* history: events that left the handler, with their fate

queueVars == <<ch, buffer, batch>>
vars == <<queueVars, closed, handle, run, close, alive, accepted, out>>

\* An event that was not sent went to the dead letter queue, or was lost if
\* there is none or it refused the event.
Fates == {"sent", "failed"}
Exits == Events \X Fates
RunPoints == {"select", "full", "flush", "enqueue", "done"}

TypeOK ==
  /\ ch \in Seq(Events) /\ buffer \in Seq(Events) /\ batch \in Seq(Events)
  /\ Len(ch) <= 2 * MaxSize
  /\ closed \in BOOLEAN /\ alive \in BOOLEAN
  /\ handle \in [Events -> {"idle", "checked", "accepted", "refused"}]
  /\ run \in RunPoints
  /\ close \in [Closers -> {"idle", "waiting", "final", "returned"}]
  /\ accepted \in Seq(Events)
  /\ out \in Seq(Exits)

\* New starts the goroutine.
Init ==
  /\ ch = <<>> /\ buffer = <<>> /\ batch = <<>>
  /\ closed = FALSE /\ alive = TRUE
  /\ handle = [e \in Events |-> "idle"]
  /\ run = "select"
  /\ close = [c \in Closers |-> "idle"]
  /\ accepted = <<>> /\ out = <<>>

With(es, fate) == [k \in DOMAIN es |-> <<es[k], fate>>]

-----------------------------------------------------------------------------
(* Handle.                                                                 *)

\* The check of h.closed, under h.mu, which Close holds during its final
\* flush. The mutex is released before the send.
HandleCheck(e) ==
  /\ alive /\ handle[e] = "idle"
  /\ \A c \in Closers : close[c] # "final"
  /\ handle' = [handle EXCEPT ![e] = IF closed THEN "refused" ELSE "checked"]
  /\ UNCHANGED <<queueVars, closed, run, close, alive, accepted, out>>

\* The send waits for room in the channel.
HandleSend(e) ==
  /\ alive /\ handle[e] = "checked" /\ ~closed
  /\ Len(ch) < 2 * MaxSize
  /\ ch' = Append(ch, e)
  /\ handle' = [handle EXCEPT ![e] = "accepted"]
  /\ accepted' = Append(accepted, e)
  /\ UNCHANGED <<buffer, batch, closed, run, close, alive, out>>

\* The channel was closed since the check, or while the send waited.
HandlePanics(e) ==
  /\ alive /\ handle[e] = "checked" /\ closed
  /\ alive' = FALSE
  /\ UNCHANGED <<queueVars, closed, handle, run, close, accepted, out>>

-----------------------------------------------------------------------------
(* run.                                                                    *)

\* Mutant: Close keeps h.mu while it waits for the goroutine.
ReceiveLockedOut ==
  /\ alive /\ run = "select" /\ ch # <<>>
  /\ \A c \in Closers : close[c] # "waiting"
  /\ ch' = Tail(ch)
  /\ buffer' = Append(buffer, Head(ch))
  /\ run' = IF Len(buffer') >= MaxSize THEN "full" ELSE "select"
  /\ UNCHANGED <<batch, closed, handle, close, alive, accepted, out>>

Receive ==
  /\ alive /\ run = "select" /\ ch # <<>>
  /\ ch' = Tail(ch)
  /\ buffer' = Append(buffer, Head(ch))
  /\ run' = IF Len(buffer') >= MaxSize THEN "full" ELSE "select"
  /\ UNCHANGED <<batch, closed, handle, close, alive, accepted, out>>

\* Mutant: drainBuffer leaves the buffer as it is.
DrainKeeps ==
  /\ batch' = buffer
  /\ UNCHANGED buffer

\* drainBuffer
Drain ==
  /\ batch' = buffer
  /\ buffer' = <<>>

FlushFull ==
  /\ alive /\ run = "full"
  /\ Drain
  /\ run' = "flush"
  /\ UNCHANGED <<ch, closed, handle, close, alive, accepted, out>>

\* Mutant: the ticker flushes full buffers only.
TickFull ==
  /\ alive /\ run = "select" /\ Len(buffer) >= MaxSize
  /\ Drain
  /\ run' = "flush"
  /\ UNCHANGED <<ch, closed, handle, close, alive, accepted, out>>

\* The ticker fires; with an empty buffer nothing happens.
Tick ==
  /\ alive /\ run = "select" /\ buffer # <<>>
  /\ Drain
  /\ run' = "flush"
  /\ UNCHANGED <<ch, closed, handle, close, alive, accepted, out>>

FlushSends ==
  /\ alive /\ run = "flush"
  /\ out' = out \o With(batch, "sent")
  /\ batch' = <<>>
  /\ run' = "select"
  /\ UNCHANGED <<ch, buffer, closed, handle, close, alive, accepted>>

\* Flush returns an error; without a queue the batch is only logged.
FlushFails ==
  /\ alive /\ run = "flush"
  /\ IF HasQueue
     THEN run' = "enqueue" /\ UNCHANGED <<batch, out>>
     ELSE /\ out' = out \o With(batch, "failed")
          /\ batch' = <<>>
          /\ run' = "select"
  /\ UNCHANGED <<ch, buffer, closed, handle, close, alive, accepted>>

\* enqueueFailed, one event at a time, whether or not the queue takes it.
EnqueueFailed ==
  /\ alive /\ run = "enqueue"
  /\ out' = Append(out, <<Head(batch), "failed">>)
  /\ batch' = Tail(batch)
  /\ run' = IF batch' = <<>> THEN "select" ELSE "enqueue"
  /\ UNCHANGED <<ch, buffer, closed, handle, close, alive, accepted>>

\* Mutant: the goroutine ends as soon as the channel is closed.
RunEndsEarly ==
  /\ alive /\ run = "select" /\ closed
  /\ run' = "done"
  /\ UNCHANGED <<queueVars, closed, handle, close, alive, accepted, out>>

\* The channel is closed and empty.
RunEnds ==
  /\ alive /\ run = "select" /\ closed /\ ch = <<>>
  /\ run' = "done"
  /\ UNCHANGED <<queueVars, closed, handle, close, alive, accepted, out>>

-----------------------------------------------------------------------------
(* Close.                                                                  *)

\* The first call closes the channel; a later one returns at once, when the
\* first may still be flushing.
CloseCall(c) ==
  /\ alive /\ close[c] = "idle"
  /\ \A d \in Closers : close[d] # "final"
  /\ close' = [close EXCEPT ![c] = IF closed THEN "returned" ELSE "waiting"]
  /\ closed' = TRUE
  /\ UNCHANGED <<queueVars, handle, run, alive, accepted, out>>

\* Once the goroutine is done, Close takes the rest.
CloseDrains(c) ==
  /\ alive /\ close[c] = "waiting" /\ run = "done"
  /\ Drain
  /\ close' = [close EXCEPT ![c] = IF buffer = <<>> THEN "returned" ELSE "final"]
  /\ UNCHANGED <<ch, closed, handle, run, alive, accepted, out>>

\* The final flush; its failure is returned and reaches no queue.
CloseFlushes(c) ==
  /\ alive /\ close[c] = "final"
  /\ \E fate \in Fates : out' = out \o With(batch, fate)
  /\ batch' = <<>>
  /\ close' = [close EXCEPT ![c] = "returned"]
  /\ UNCHANGED <<ch, buffer, closed, handle, run, alive, accepted>>

-----------------------------------------------------------------------------
Flush == FlushSends \/ FlushFails
RunStep ==
  Receive \/ FlushFull \/ Tick \/ Flush \/ EnqueueFailed \/ RunEnds

Next ==
  \/ \E e \in Events : HandleCheck(e) \/ HandleSend(e) \/ HandlePanics(e)
  \/ RunStep
  \/ \E c \in Closers : CloseCall(c) \/ CloseDrains(c) \/ CloseFlushes(c)

Spec == Init /\ [][Next]_vars

\* Goroutines that can run do, the ticker fires again and again, a flush ends,
\* and waiting senders are served in turn (the runtime queues them).
FairSpec ==
  /\ Spec
  /\ WF_vars(RunStep)
  /\ \A e \in Events : SF_vars(HandleSend(e) \/ HandlePanics(e))
  /\ \A c \in Closers : WF_vars(CloseDrains(c) \/ CloseFlushes(c))

-----------------------------------------------------------------------------
(* Properties.                                                             *)

Left(o) == [k \in DOMAIN o |-> o[k][1]]

\* No accepted event is duplicated, dropped or overtaken: those that left,
\* those being flushed, those buffered and those on the channel are, in this
\* order, the events that Handle accepted.
Conserved == Left(out) \o batch \o buffer \o ch = accepted

\* A batch has at most MaxSize events, as the notifiers' limits on the
\* attachments, cards and embeds of one message require.
BatchBounded == Len(batch) <= MaxSize

\* Once every Close that was called has returned, nothing of what was accepted is left.
NothingLeftBehind ==
  closed /\ (\A c \in Closers : close[c] \in {"idle", "returned"})
    => Left(out) = accepted

\* Every accepted event leaves the handler, one in a batch that never fills
\* included: each event is handed over once, so again and again nothing that
\* was accepted is still on its way.
AcceptedLeaves == []<>(Left(out) = accepted \/ ~alive)

\* Handle and Close return, also where the channel is full: senders wait for
\* room, Close for the goroutine, and again and again nobody waits.
CallsReturn ==
  []<>(\/ ~alive
       \/ /\ \A e \in Events : handle[e] # "checked"
          /\ \A c \in Closers : close[c] \in {"idle", "returned"})

-----------------------------------------------------------------------------
(* The inductive strengthening of the safety properties.                   *)

Closing(c) == close[c] \in {"waiting", "final"}

\* Which of buffer and batch may hold events where the goroutine is.
RunPhase ==
  /\ run \in {"select", "full", "done"} => batch = <<>> \/ \E c \in Closers : close[c] = "final"
  /\ run \in {"flush", "enqueue"} => batch # <<>> /\ buffer = <<>>
  /\ run = "full" => buffer # <<>>
  /\ run \in {"select", "done"} => Len(buffer) < MaxSize
  /\ run = "done" => ch = <<>> /\ closed
  /\ Len(buffer) <= MaxSize

\* One Close call closes; it flushes after the goroutine ended, and is the
\* last to hold events.
ClosePhase ==
  /\ ~closed => \A c \in Closers : close[c] = "idle"
  /\ \A c \in Closers : close[c] = "final" => run = "done" /\ buffer = <<>>
  /\ \A c, d \in Closers : Closing(c) /\ Closing(d) => c = d
  /\ closed => \/ \E c \in Closers : Closing(c)
               \/ run = "done" /\ buffer = <<>> /\ batch = <<>>

IInv == TypeOK /\ RunPhase /\ ClosePhase /\ Conserved /\ BatchBounded

-----------------------------------------------------------------------------
(* What the repository says and the code does not keep.                    *)

\* TestBatch_HandleAfterClose and reload: a Handle that meets a closed handler
\* gets an error; the process survives.
HandleNeverPanics == alive

=============================================================================
