------------------------------ MODULE MCRelay ------------------------------
(* Instances of Relay for TLC. *)
EXTENDS Relay, TLC

CONSTANTS e1, e2, e3, e4, e5, h1, h2, o, s1, s2, j1

\* Every event is deliverable; e1 matches both handlers, the others one.
OkFate == [e \in Events |-> "ok"]
PairMatched == [e \in Events |-> IF e = e1 THEN {h1, h2} ELSE {h1}]

\* e1 is deliverable, each of the others ends in the stateless front of the
\* chain in its own way. Those leave nothing behind: one transmission of one
\* of them is enough to see it next to whatever else goes on.
MixedFate ==
  [e \in Events |-> CASE e = e1 -> "ok"
                      [] e = e2 -> "invalid"
                      [] e = e3 -> "filtered"
                      [] e = e4 -> "undecodable"
                      [] e = e5 -> "unparsable"]
FrontOnce ==
  \A e, f \in {g \in Events : Fate[g] # "ok" /\ sends'[g] > 0} : e = f /\ sends'[e] = 1
OneMatched == [e \in Events |-> {h1}]

SlotSymmetry == Permutations(Slots)
=============================================================================
