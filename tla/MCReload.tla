------------------------------ MODULE MCReload ------------------------------
(* Instances of Reload for TLC. *)
EXTENDS Reload

CONSTANTS r1, r2
=============================================================================
