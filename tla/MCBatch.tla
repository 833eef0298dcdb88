------------------------------ MODULE MCBatch ------------------------------
(* Instances of Batch for TLC. *)
EXTENDS Batch, Sequences

CONSTANTS e1, e2, e3, e4, e5, c1, c2

\* Senders are alike, and so are closers: they call in the order of their
\* names. (No fairness is asked of a call, so nothing fair is held back.)
Order == <<e1, e2, e3, e4, e5>>
InOrder ==
  /\ \A i, j \in DOMAIN Order :
       i < j /\ {Order[i], Order[j]} \subseteq Events /\ handle'[Order[i]] = "idle"
         => handle'[Order[j]] = "idle"
  /\ {c1, c2} \subseteq Closers /\ close'[c1] = "idle" => close'[c2] = "idle"
=============================================================================
