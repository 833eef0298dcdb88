---------------------------- MODULE DeadLetters ----------------------------
(***************************************************************************)
(* What the dead letter queue promises its users (dlq.Queue): a list of    *)
(* dead events, at most one per CloudEvent ID, changed by whole operations *)
(* only. FileQueue implements it with a file, a mutex and rename.          *)
(***************************************************************************)
EXTENDS QueueOps

CONSTANTS Ids, Times, Sizes, MaxBytes

VARIABLE q

Init == q = <<>>

Enqueue(i, t, b) == q' = Compact(Upsert(q, i, t, b), MaxBytes)
Remove_(i) == q' = Without(q, i)
Expire(cutoff) == q' = Unexpired(q, cutoff)

Next ==
  \/ \E i \in Ids, t \in Times, b \in Sizes : Enqueue(i, t, b)
  \/ \E i \in Ids : Remove_(i)
  \/ \E t \in Times : Expire(t)

Spec == Init /\ [][Next]_q
=============================================================================
