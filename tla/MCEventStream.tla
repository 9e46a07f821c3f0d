---------------------------- MODULE MCEventStream ----------------------------
(* EventStream with short logs, batches smaller than the log, and broken   *)
(* connections.                                                            *)
EXTENDS EventStream
=============================================================================
