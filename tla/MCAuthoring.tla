---------------------------- MODULE MCAuthoring ------------------------------
(* Authoring with one job of any kind and definition.                      *)
EXTENDS Authoring
=============================================================================
