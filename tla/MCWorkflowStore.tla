-------------------------- MODULE MCWorkflowStore --------------------------
(* WorkflowStore on a small instance: one job, whose lease passes      *)
(* through up to three claims by three interchangeable runs.               *)
EXTENDS WorkflowStore, TLC

Symmetry == Permutations(Runs)
=============================================================================
