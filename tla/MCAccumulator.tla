--------------------------- MODULE MCAccumulator ---------------------------
(* Instances of Accumulator for TLC. *)
EXTENDS Accumulator, TLC

CONSTANTS p1, p2, p3, t1, t2, t3, grp, w1, w2

\* t1, t2 and t3 are the TaskRuns of p1, p2 and p3; p1 and p2 are in a group.
Parents == [t \in Tasks |-> CASE t = t1 -> p1 [] t = t2 -> p2 [] t = t3 -> p3]
OneGroup == [p \in Pipelines |-> IF p = p3 THEN Ungrouped ELSE grp]

\* The events of a TaskRun carry the UID of its PipelineRun, as the package
\* and its tests presuppose.
PipelineUid == [o \in Objects |-> IF o \in Tasks THEN Parent[o] ELSE o]

\* The events of an object carry its own UID, as the decoders produce them.
OwnUid == [o \in Objects |-> o]

Symmetry == Permutations(Workers)
=============================================================================
