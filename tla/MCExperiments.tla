---------------------------- MODULE MCExperiments ----------------------------
(* Experiments on a small instance; the ids are interchangeable. *)
EXTENDS Experiments, TLC

Symmetry ==
  Permutations(MlflowIds) \cup Permutations(Runs) \cup Permutations(JobIds) \cup Permutations(Callers)
=============================================================================
