---------------------------- MODULE MCGeneration ----------------------------
(* Generation with one job of any type and two runs that may overlap.      *)
EXTENDS Generation
=============================================================================
