------------------------------- MODULE MCScm -------------------------------
(* Scm for TLC: labels that replace each other as a run goes on, one of    *)
(* them in both lists, one over the limit, one that people use.            *)
EXTENDS Scm, TLC

MCAdd == [s \in States |->
  CASE s = "running" -> {"ci-running"}
    [] s = "success" -> {"ci-ok", "ci-seen"}
    [] s = "error"   -> {"a name over the limit"}
    [] OTHER         -> {}]

MCRemove == [s \in States |->
  CASE s = "running" -> {"ci-ok"}
    [] s = "success" -> {"ci-running", "ci-seen"}
    [] OTHER         -> {"ci-running", "ci-ok"}]

\* The workers are alike.
Alike == Permutations(Workers)
=============================================================================
