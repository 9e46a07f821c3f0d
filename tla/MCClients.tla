------------------------------ MODULE MCClients ------------------------------
(* The stream with short logs, batches smaller than the log and two broken *)
(* connections; the polling page with two jobs, or one job and a trouble.  *)
EXTENDS Clients
=============================================================================
