-------------------------- MODULE MCAtomicGeneration --------------------------
(* AtomicGeneration with one job and two runs that may overlap.            *)
EXTENDS AtomicGeneration, TLC

\* The data of token events
MCPayloads == Nat

Interchangeable == Permutations(Runs)
=============================================================================
