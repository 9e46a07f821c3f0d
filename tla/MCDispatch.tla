----------------------------- MODULE MCDispatch -----------------------------
(* Dispatch with one job that can never be claimed ahead of another.       *)
EXTENDS Dispatch
=============================================================================
