---------------------------- MODULE MCFileQueue ----------------------------
(* Instances of FileQueue for TLC. *)
EXTENDS FileQueue, TLC

CONSTANTS i1, i2, i3, c1, c2

Symmetry == Permutations(Callers) \cup Permutations(Ids)
=============================================================================
