----------------------------- MODULE FileQueue -----------------------------
(***************************************************************************)
(* internal/dlq/file.go: the dead letter queue as JSON lines in one file.  *)
(* Every change reads the whole file, computes the new list, writes it to  *)
(* a temporary file line by line and renames that over the old one, all    *)
(* under one mutex. The process may die between any two of these steps.    *)
(* Callers are request goroutines and the retention goroutine.             *)
(*                                                                         *)
(* dlqListHandler (internal/http/dlq.go) is the reader: it calls List and  *)
(* then Size, in two critical sections, and slices what List returned.     *)
(***************************************************************************)
EXTENDS QueueOps

CONSTANTS
  Ids,        \* CloudEvent IDs
  Callers,    \* goroutines that call the queue
  Sizes,      \* lengths an encoded entry may have
  MaxBytes,   \* bound on the file
  MaxLine,    \* longest line the scanner of readAll takes
  Retention,  \* entries older than this are purged
  MaxTime,    \* bound on the clock
  MaxOps,     \* bound on the operations started
  Limits,     \* page sizes a client asks for
  Offsets,    \* page offsets a client asks for
  None

ASSUME FileQueueAssumption ==
  /\ MaxBytes \in Nat /\ MaxLine \in Nat /\ Retention \in Nat /\ MaxTime \in Nat /\ MaxOps \in Nat
  /\ Sizes \subseteq Nat /\ Limits \subseteq Nat \ {0} /\ Offsets \subseteq Nat
  /\ None \notin Callers

VARIABLES
  file,    \* the queue's file, a sequence of entries
  tmp,     \* lines written to the temporary file so far
  lock,    \* the caller that holds q.mu, or None
  pc, op,  \* where each caller is, and the operation it performs
  want,    \* the list each caller is writing out
  now,     \* the clock, in days
  ops,     \* operations started
  kept,    \* history: IDs the queue accepted and has no reason to have dropped
  page,    \* the list request: what List returned and the slice taken of it
  grew     \* history: did the queue grow since that List?

fileVars == <<file, tmp>>
pageVars == <<page, grew>>
vars == <<fileVars, lock, pc, op, want, now, ops, kept, pageVars>>

NoOp == [kind |-> "none", id |-> None, bytes |-> 0]
Ops ==
  [kind : {"enqueue"}, id : Ids, bytes : Sizes]
    \cup [kind : {"remove"}, id : Ids, bytes : {0}]
    \cup [kind : {"purge"}, id : {None}, bytes : {0}]
Entries == [id : Ids, at : 0..MaxTime, retry : Nat, bytes : Sizes]
Pages == [at : {"idle", "listed", "sliced"}, fetched : Nat, limit : Nat, offset : Nat, end : Nat]
NoPage == [at |-> "idle", fetched |-> 0, limit |-> 0, offset |-> 0, end |-> 0]

TypeOK ==
  /\ file \in Seq(Entries) /\ tmp \in Seq(Entries)
  /\ lock \in Callers \cup {None}
  /\ pc \in [Callers -> {"idle", "lock", "read", "write", "unlock"}]
  /\ op \in [Callers -> Ops \cup {NoOp}]
  /\ want \in [Callers -> Seq(Entries)]
  /\ now \in 0..MaxTime /\ ops \in 0..MaxOps
  /\ kept \subseteq Ids
  /\ page \in Pages /\ grew \in BOOLEAN

Init ==
  /\ file = <<>> /\ tmp = <<>>
  /\ lock = None
  /\ pc = [c \in Callers |-> "idle"]
  /\ op = [c \in Callers |-> NoOp]
  /\ want = [c \in Callers |-> <<>>]
  /\ now = 0 /\ ops = 0
  /\ kept = {}
  /\ page = NoPage /\ grew = FALSE

Goto(c, l) == pc' = [pc EXCEPT ![c] = l]

-----------------------------------------------------------------------------
(* Enqueue, Remove and purgeExpired.                                       *)

Call(c, o) ==
  /\ pc[c] = "idle" /\ ops < MaxOps
  /\ ops' = ops + 1
  /\ op' = [op EXCEPT ![c] = o]
  /\ Goto(c, "lock")
  /\ UNCHANGED <<fileVars, lock, want, now, kept, pageVars>>

\* Mutant: Enqueue takes the lock as a reader, beside other Enqueues.
LockShared(c) ==
  /\ pc[c] = "lock"
  /\ lock # None => op[lock].kind = "enqueue" /\ op[c].kind = "enqueue"
  /\ lock' = c
  /\ Goto(c, "read")
  /\ UNCHANGED <<fileVars, op, want, now, ops, kept, pageVars>>

Lock(c) ==
  /\ pc[c] = "lock" /\ lock = None
  /\ lock' = c
  /\ Goto(c, "read")
  /\ UNCHANGED <<fileVars, op, want, now, ops, kept, pageVars>>

\* Mutant: a repeated failure is removed and appended anew.
ChangedAnew(q, o) ==
  CASE o.kind = "enqueue" -> Append(Without(q, o.id), Entry(o.id, now, 0, o.bytes))
    [] o.kind = "remove" -> Without(q, o.id)
    [] o.kind = "purge" -> Unexpired(q, IF now >= Retention THEN now - Retention ELSE 0)

\* The list before the size bound is applied.
Changed(q, o) ==
  CASE o.kind = "enqueue" -> Upsert(q, o.id, now, o.bytes)
    [] o.kind = "remove" -> Without(q, o.id)
    [] o.kind = "purge" -> Unexpired(q, IF now >= Retention THEN now - Retention ELSE 0)

\* readAll: the scanner gives up on a line longer than its buffer.
Readable == \A k \in DOMAIN file : file[k].bytes <= MaxLine

\* Mutant: an enqueue goes on with the lines that could be read.
ReadWhatIsReadable(c) ==
  LET lines == SelectSeq(file, LAMBDA e : e.bytes <= MaxLine)
      changed == Changed(lines, op[c])
  IN  /\ pc[c] = "read" /\ (Readable \/ op[c].kind = "enqueue")
      /\ op[c].kind = "purge" => changed # file
      /\ want' = [want EXCEPT ![c] = Compact(changed, MaxBytes)]
      /\ tmp' = <<>>
      /\ Goto(c, "write")
      /\ UNCHANGED <<file, lock, op, now, ops, kept, pageVars>>

\* readAll, the change, the size bound, and the truncation of the temporary
\* file. A purge that removes nothing writes nothing.
Read(c) ==
  /\ pc[c] = "read" /\ Readable
  /\ LET changed == Changed(file, op[c])
     IN  /\ op[c].kind = "purge" => changed # file
         /\ want' = [want EXCEPT ![c] = Compact(changed, MaxBytes)]
  /\ tmp' = <<>>
  /\ Goto(c, "write")
  /\ UNCHANGED <<file, lock, op, now, ops, kept, pageVars>>

\* The purge finds nothing to remove, or the file cannot be opened or read.
ReadOnly(c) ==
  /\ pc[c] = "read"
  /\ Goto(c, "unlock")
  /\ UNCHANGED <<fileVars, lock, op, want, now, ops, kept, pageVars>>

\* One line goes to the temporary file.
Write(c) ==
  /\ pc[c] = "write" /\ Len(tmp) < Len(want[c])
  /\ tmp' = Append(tmp, want[c][Len(tmp) + 1])
  /\ UNCHANGED <<file, lock, pc, op, want, now, ops, kept, pageVars>>

\* Opening, writing, syncing, closing or renaming fails: the file is as it
\* was and the caller gets the error.
WriteFails(c) ==
  /\ pc[c] = "write"
  /\ Goto(c, "unlock")
  /\ UNCHANGED <<fileVars, lock, op, want, now, ops, kept, pageVars>>

\* The entries an enqueue into the file as it is now pushes out: those that do
\* not fit in the file together with all that stands behind them.
PushedOut(o) ==
  LET q == Upsert(file, o.id, now, o.bytes)
  IN  {q[k].id : k \in {k \in DOMAIN q : TotalBytes(SubSeq(q, k, Len(q))) > MaxBytes}}

\* The IDs the operation has a reason to drop from the file as it is now.
Dropped(o) ==
  CASE o.kind = "enqueue" -> PushedOut(o)
    [] o.kind = "remove" -> {o.id}
    [] o.kind = "purge" -> {file[k].id : k \in {k \in DOMAIN file : file[k].at + Retention < now}}

\* Sync, close and rename: the new list replaces the old one.
Rename(c) ==
  /\ pc[c] = "write" /\ Len(tmp) = Len(want[c])
  /\ file' = tmp /\ tmp' = <<>>
  /\ kept' = (IF op[c].kind = "enqueue" THEN kept \cup {op[c].id} ELSE kept) \ Dropped(op[c])
  /\ grew' = (grew \/ Len(tmp) > Len(file))
  /\ Goto(c, "unlock")
  /\ UNCHANGED <<lock, op, want, now, ops, page>>

Unlock(c) ==
  /\ pc[c] = "unlock"
  /\ lock' = None
  /\ op' = [op EXCEPT ![c] = NoOp]
  /\ want' = [want EXCEPT ![c] = <<>>]
  /\ Goto(c, "idle")
  /\ UNCHANGED <<fileVars, now, ops, kept, pageVars>>

\* The process dies; the next one opens the same file with a new mutex. A
\* temporary file it finds is truncated before it is used.
Crash ==
  /\ lock # None
  /\ pc' = [c \in Callers |-> "idle"]
  /\ lock' = None
  /\ op' = [c \in Callers |-> NoOp]
  /\ want' = [c \in Callers |-> <<>>]
  /\ page' = NoPage /\ grew' = FALSE
  /\ UNCHANGED <<fileVars, now, ops, kept>>

Tick ==
  /\ now < MaxTime
  /\ now' = now + 1
  /\ UNCHANGED <<fileVars, lock, pc, op, want, ops, kept, pageVars>>

-----------------------------------------------------------------------------
(* GET /api/v1/dlq: List, then Size, then a slice of what List returned.   *)

Lesser(a, b) == IF a < b THEN a ELSE b

PageList(limit, offset) ==
  /\ page.at = "idle" /\ lock = None /\ Readable
  /\ page' = [at |-> "listed", fetched |-> Lesser(Len(file), limit + offset),
              limit |-> limit, offset |-> offset, end |-> 0]
  /\ grew' = FALSE
  /\ UNCHANGED <<fileVars, lock, pc, op, want, now, ops, kept>>

\* Mutant: the offset is not clipped to the total.
PageSliceUnclipped ==
  /\ page.at = "listed" /\ lock = None
  /\ page' = [page EXCEPT !.at = "sliced", !.end = page.offset + page.limit]
  /\ UNCHANGED <<fileVars, lock, pc, op, want, now, ops, kept, grew>>

\* The slice is clipped to the total that Size reports now, or to what List
\* returned when Size fails.
PageSlice ==
  /\ page.at = "listed" /\ lock = None
  /\ \E total \in {page.fetched} \cup (IF Readable THEN {Len(file)} ELSE {}) :
       LET from == Lesser(page.offset, total)
       IN  page' = [page EXCEPT !.at = "sliced", !.offset = from,
                                !.end = Lesser(from + page.limit, total)]
  /\ UNCHANGED <<fileVars, lock, pc, op, want, now, ops, kept, grew>>

PageSent ==
  /\ page.at = "sliced"
  /\ page' = NoPage
  /\ UNCHANGED <<fileVars, lock, pc, op, want, now, ops, kept, grew>>

-----------------------------------------------------------------------------
CallerStep(c) ==
  \/ Lock(c) \/ Read(c) \/ ReadOnly(c) \/ Write(c)
  \/ WriteFails(c) \/ Rename(c) \/ Unlock(c)

Next ==
  \/ \E c \in Callers : CallerStep(c) \/ \E o \in Ops : Call(c, o)
  \/ \E limit \in Limits, offset \in Offsets : PageList(limit, offset)
  \/ PageSlice
  \/ PageSent
  \/ Crash
  \/ Tick

Spec == Init /\ [][Next]_vars

-----------------------------------------------------------------------------
(* Properties.                                                             *)

\* The CloudEvent ID keys the entry: however enqueues, removals, retention
\* and crashes interleave, the file never holds two lines for one ID.
UniqueIds == \A j, k \in DOMAIN file : file[j].id = file[k].id => j = k

\* The file never exceeds its bound.
SizeBounded == TotalBytes(file) <= MaxBytes

\* What a start may rely on when it reads the file, whenever the last process
\* died: well-formed entries, one per ID, within max_size_mb.
FileSound == TypeOK /\ UniqueIds /\ SizeBounded

\* An accepted event stays in the queue until it is removed, expires or is
\* pushed out by the size bound, which takes an entry only when the file it is
\* in has no room for it and all that stands behind it. No concurrent caller,
\* be it another Enqueue, and no failed write or crash loses it.
AcceptedKept == kept \subseteq IdsOf(file)

\* The queue's file changes by whole operations: FileQueue implements
\* DeadLetters, crashes and failed writes included.
Letters == INSTANCE DeadLetters WITH q <- file, Times <- 0..MaxTime
ImplementsDeadLetters == Letters!Spec

\* An entry that is longer than the scanner's buffer is accepted once and
\* then fails every later operation. The letters around it are stuck but not
\* lost: from then on no caller, retention included, replaces the file.
StuckNotLost == [][~Readable => file' = file]_vars

\* The slice dlqListHandler takes is within what List returned, unless the
\* queue grew between List and Size.
PageInBounds ==
  page.at = "sliced" => /\ page.offset <= page.end
                        /\ page.end <= page.fetched \/ grew

-----------------------------------------------------------------------------
(* The inductive strengthening of the safety properties.                   *)

\* A caller past Lock holds q.mu, and one with work to do knows what.
Exclusive ==
  \A c \in Callers :
    /\ pc[c] \in {"read", "write", "unlock"} => lock = c
    /\ pc[c] # "idle" => op[c] \in Ops

\* The lists the operation may have made of the file, by when it read the clock.
Outcomes(o) ==
  CASE o.kind = "enqueue" -> {Upsert(file, o.id, t, o.bytes) : t \in 0..now}
    [] o.kind = "remove" -> {Without(file, o.id)}
    [] o.kind = "purge" -> {Unexpired(file, t) : t \in {t \in 0..MaxTime : t = 0 \/ t + Retention <= now}}

\* What a caller writes out is still about the file as it is, and the
\* temporary file is a prefix of it.
Writing ==
  \A c \in Callers :
    pc[c] = "write" =>
      /\ Readable
      /\ want[c] \in {Compact(q, MaxBytes) : q \in Outcomes(op[c])}
      /\ Len(tmp) <= Len(want[c]) /\ \A k \in DOMAIN tmp : tmp[k] = want[c][k]

\* Unless the queue grew, List returned all of it that the page may need.
PageFresh ==
  page.at = "listed" => grew \/ Lesser(Len(file), page.limit + page.offset) <= page.fetched

IInv == FileSound /\ Exclusive /\ Writing /\ AcceptedKept /\ PageFresh /\ PageInBounds
=============================================================================
