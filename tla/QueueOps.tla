------------------------------ MODULE QueueOps ------------------------------
(***************************************************************************)
(* The functions FileQueue computes on the list of dead events: an entry   *)
(* is the CloudEvent ID, the time of its last failure, how often it was    *)
(* enqueued again, and the length of its JSON line. The loops over the     *)
(* list are recursive functions of the position they have reached.         *)
(***************************************************************************)
EXTENDS Naturals, Sequences

Entry(i, t, n, b) == [id |-> i, at |-> t, retry |-> n, bytes |-> b]
IdsOf(q) == {q[k].id : k \in DOMAIN q}

\* Mutant: every failure appends a line.
UpsertAppends(q, i, t, b) == Append(q, Entry(i, t, 0, b))

\* Enqueue: the first entry of the ID is replaced where it stands and its
\* retry count bumped; an unknown ID is appended.
Upsert(q, i, t, b) ==
  IF i \in IdsOf(q)
  THEN LET k == CHOOSE k \in DOMAIN q : q[k].id = i /\ \A j \in 1..(k - 1) : q[j].id # i
       IN  [q EXCEPT ![k] = Entry(i, t, q[k].retry + 1, b)]
  ELSE Append(q, Entry(i, t, 0, b))

\* The entries at the given positions, in their order.
KeepAt(q, ks) ==
  LET out[k \in 0..Len(q)] ==
        IF k = 0 THEN <<>> ELSE IF k \in ks THEN Append(out[k - 1], q[k]) ELSE out[k - 1]
  IN  out[Len(q)]

\* Remove: every entry with the ID goes.
Without(q, i) == KeepAt(q, {k \in DOMAIN q : q[k].id # i})

\* purgeExpired: entries that failed before the cutoff go.
Unexpired(q, cutoff) == KeepAt(q, {k \in DOMAIN q : q[k].at >= cutoff})

TotalBytes(q) ==
  LET total[k \in 0..Len(q)] == IF k = 0 THEN 0 ELSE total[k - 1] + q[k].bytes
  IN  total[Len(q)]

\* writeAll: entries are dropped from the front while the rest is too long.
Compact(q, max) ==
  LET from == CHOOSE k \in 1..(Len(q) + 1) :
                /\ TotalBytes(SubSeq(q, k, Len(q))) <= max
                /\ \A j \in 1..(k - 1) : TotalBytes(SubSeq(q, j, Len(q))) > max
  IN  SubSeq(q, from, Len(q))
=============================================================================
