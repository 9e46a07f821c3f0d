---------------------------- MODULE JobLifecycle ----------------------------
(***************************************************************************)
(* What the workflow subsystem promises about every job, with leases,      *)
(* workers, queues and event logs left out: a job exists or it does not,   *)
(* its status moves only along ALLOWED_TRANSITIONS of workflow.types.ts,   *)
(* and the artifact it generates is published at most once, while the job  *)
(* is RUNNING.  WorkflowStore implements this specification although its   *)
(* worker-side status writes are SQL statements that never consult the     *)
(* transition table.                                                       *)
(***************************************************************************)

CONSTANT Jobs

VARIABLES status,     \* workflow_jobs.status, "ABSENT" before the INSERT
          published   \* has the domain artifact of the job been inserted?

vars == <<status, published>>

-----------------------------------------------------------------------------
WorkflowStatus == {"QUEUED", "RUNNING", "REVISION_REQUIRED", "WAITING_APPROVAL",
                   "WAITING_MATERIAL", "SUCCEEDED", "FAILED", "STOPPED"}

\* TERMINAL_WORKFLOW_STATUSES
Terminal == {"SUCCEEDED", "FAILED", "STOPPED"}

\* ALLOWED_TRANSITIONS: the statuses a job may move to from status s.
AllowedTransitions(s) ==
  CASE s = "QUEUED"            -> {"RUNNING", "FAILED", "STOPPED"}
    [] s = "RUNNING"           -> {"REVISION_REQUIRED", "WAITING_APPROVAL",
                                   "WAITING_MATERIAL", "SUCCEEDED", "FAILED",
                                   "STOPPED"}
    [] s = "REVISION_REQUIRED" -> {"RUNNING", "QUEUED", "WAITING_MATERIAL",
                                   "FAILED", "STOPPED"}
    [] s = "WAITING_APPROVAL"  -> {"QUEUED", "FAILED", "STOPPED"}
    [] s = "WAITING_MATERIAL"  -> {"QUEUED", "FAILED", "STOPPED"}
    [] OTHER                   -> {}

-----------------------------------------------------------------------------
Init == /\ status = [j \in Jobs |-> "ABSENT"]
        /\ published = [j \in Jobs |-> FALSE]

Create(j) == /\ status[j] = "ABSENT"
             /\ status' = [status EXCEPT ![j] = "QUEUED"]
             /\ UNCHANGED published

Transition(j) == /\ \E s \in AllowedTransitions(status[j]) :
                      status' = [status EXCEPT ![j] = s]
                 /\ UNCHANGED published

Publish(j) == /\ status[j] = "RUNNING"
              /\ ~published[j]
              /\ published' = [published EXCEPT ![j] = TRUE]
              /\ UNCHANGED status

Next == \E j \in Jobs : Create(j) \/ Transition(j) \/ Publish(j)

Spec == Init /\ [][Next]_vars
=============================================================================
