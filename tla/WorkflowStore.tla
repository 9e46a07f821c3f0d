---------------------------- MODULE WorkflowStore ----------------------------
(***************************************************************************)
(* The durable workflow rows and the engine runs that compete for them.    *)
(*                                                                         *)
(* The rows (workflow_jobs, workflow_events, workflow_domain_commits) live *)
(* in MySQL.  Every operation on a job locks its row (SELECT ... FOR       *)
(* UPDATE) and runs in one transaction, so it is one atomic action here.   *)
(* HTTP handlers create, cancel, approve and resume jobs; engine runs      *)
(* (WorkflowEngine.run, several worker processes, several deliveries of    *)
(* the same job) claim a job under a 30 s lease and write through it.      *)
(* Between two transactions of a run anything may happen: its lease        *)
(* expires, the user cancels, another run claims the job, the process      *)
(* dies.                                                                   *)
(*                                                                         *)
(* What a run generates is left open here: it may append any progress      *)
(* event, publish and end at any moment (Generation fixes the order).      *)
(*                                                                         *)
(* A claim draws a random lease UUID and increments fencing_token.  Both   *)
(* are compared at every write; the model uses the new fencing number for  *)
(* both, which is exact as long as UUIDs never repeat.                     *)
(***************************************************************************)
EXTENDS Integers, Sequences

CONSTANTS Jobs,      \* workflow_jobs.id
          Runs,      \* slots for concurrent WorkflowEngine.run calls
          NoJob,     \* what an idle run slot works on
          Kinds,     \* types of the progress events an executor yields
          Payloads,  \* their data, as far as it matters; 0 for none
          MaxFence,  \* bound: claims per job
          MaxLog     \* bound: progress is appended to shorter logs only

ASSUME NoJobAssumption == NoJob \notin Jobs
ASSUME PayloadsAssumption == 0 \in Payloads
ASSUME MaxFenceAssumption == MaxFence \in Nat

VARIABLES
  \* workflow_jobs
  status, cancelRequested, completedAt,
  leaseToken,       \* lease_token, 0 for NULL
  leaseLive,        \* lease_expires_at > CURRENT_TIMESTAMP(6)
  fencingToken,
  events,           \* workflow_events of the job, in seq order
  receipt,          \* workflow_domain_commits.fencing_token, 0: no row
  \* engine runs
  target,           \* the claimed job
  token,            \* ClaimedWorkflowJob.fencingToken, 0: idle slot
  aborted           \* abortController.signal.aborted

leaseVars == <<leaseToken, leaseLive, fencingToken>>
rowVars == <<status, cancelRequested, completedAt, leaseVars, events, receipt>>
runVars == <<target, token, aborted>>
vars == <<rowVars, runVars>>

-----------------------------------------------------------------------------
WorkflowStatus == {"QUEUED", "RUNNING", "REVISION_REQUIRED", "WAITING_APPROVAL",
                   "WAITING_MATERIAL", "SUCCEEDED", "FAILED", "STOPPED"}
Terminal == {"SUCCEEDED", "FAILED", "STOPPED"}

\* Event types the store itself writes; "workflow" stands for the
\* workflow.* events, whose data carries the status the row moves to.
StoreKinds == {"workflow", "error", "revision_required", "material_gap"}

\* by: the claim that wrote the event, 0 for an HTTP handler.
\* st: data.status, "NONE" when the event carries none.
Event == [kind : Kinds \cup StoreKinds,
          by   : 0..MaxFence,
          st   : WorkflowStatus \cup {"NONE"},
          data : Payloads]

StatusEvent(by, s) == [kind |-> "workflow", by |-> by, st |-> s, data |-> 0]
PlainEvent(by, k, d) == [kind |-> k, by |-> by, st |-> "NONE", data |-> d]

\* appendEvent: seq = MAX(seq) + 1 under the row lock.
AppendEvent(j, e) == events' = [events EXCEPT ![j] = Append(@, e)]

TypeOK ==
  /\ status \in [Jobs -> WorkflowStatus \cup {"ABSENT"}]
  /\ cancelRequested \in [Jobs -> BOOLEAN]
  /\ completedAt \in [Jobs -> BOOLEAN]
  /\ leaseToken \in [Jobs -> 0..MaxFence]
  /\ leaseLive \in [Jobs -> BOOLEAN]
  /\ fencingToken \in [Jobs -> 0..MaxFence]
  /\ events \in [Jobs -> Seq(Event)]
  /\ receipt \in [Jobs -> 0..MaxFence]
  /\ target \in [Runs -> Jobs \cup {NoJob}]
  /\ token \in [Runs -> 0..MaxFence]
  /\ aborted \in [Runs -> BOOLEAN]
  /\ \A r \in Runs : target[r] = NoJob <=> token[r] = 0

Init ==
  /\ status = [j \in Jobs |-> "ABSENT"]
  /\ cancelRequested = [j \in Jobs |-> FALSE]
  /\ completedAt = [j \in Jobs |-> FALSE]
  /\ leaseToken = [j \in Jobs |-> 0]
  /\ leaseLive = [j \in Jobs |-> FALSE]
  /\ fencingToken = [j \in Jobs |-> 0]
  /\ events = [j \in Jobs |-> <<>>]
  /\ receipt = [j \in Jobs |-> 0]
  /\ target = [r \in Runs |-> NoJob]
  /\ token = [r \in Runs |-> 0]
  /\ aborted = [r \in Runs |-> FALSE]

-----------------------------------------------------------------------------
(* HTTP handlers and the clock.                                            *)

\* WorkflowService.create: the first request with an idempotency identity
\* inserts the row; a repeated one returns it and changes nothing.
Create(j) ==
  /\ status[j] = "ABSENT"
  /\ status' = [status EXCEPT ![j] = "QUEUED"]
  /\ AppendEvent(j, StatusEvent(0, "QUEUED"))
  /\ UNCHANGED <<cancelRequested, completedAt, leaseVars, receipt, runVars>>

\* Mutant of ClearLease: the columns are forgotten.
KeepLease(j) == UNCHANGED <<leaseToken, leaseLive, fencingToken>>

\* lease_token = NULL, lease_expires_at = NULL
ClearLease(j) ==
  /\ leaseToken' = [leaseToken EXCEPT ![j] = 0]
  /\ leaseLive' = [leaseLive EXCEPT ![j] = FALSE]
  /\ UNCHANGED fencingToken

\* Mutant of Cancellable: only a stopped job is refused.
UnlessStopped(j) == status[j] \notin {"STOPPED", "ABSENT"}

\* cancel returns a STOPPED job as it is and refuses SUCCEEDED and FAILED.
Cancellable(j) == status[j] \notin Terminal \cup {"ABSENT"}

\* WorkflowService.cancel
Cancel(j) ==
  /\ Cancellable(j)
  /\ status' = [status EXCEPT ![j] = "STOPPED"]
  /\ cancelRequested' = [cancelRequested EXCEPT ![j] = TRUE]
  /\ completedAt' = [completedAt EXCEPT ![j] = TRUE]
  /\ ClearLease(j)
  /\ AppendEvent(j, StatusEvent(0, "STOPPED"))
  /\ UNCHANGED <<receipt, runVars>>

\* WorkflowService.resumeMaterial
ResumeMaterial(j) ==
  /\ status[j] = "WAITING_MATERIAL"
  /\ status' = [status EXCEPT ![j] = "QUEUED"]
  /\ completedAt' = [completedAt EXCEPT ![j] = FALSE]
  /\ ClearLease(j)
  /\ AppendEvent(j, StatusEvent(0, "QUEUED"))
  /\ UNCHANGED <<cancelRequested, receipt, runVars>>

\* AuthoringProposalService.approve, its UPDATE of the job row.  It appends
\* no workflow event.
Approve(j) ==
  /\ status[j] = "WAITING_APPROVAL"
  /\ status' = [status EXCEPT ![j] = "QUEUED"]
  /\ ClearLease(j)
  /\ UNCHANGED <<cancelRequested, completedAt, events, receipt, runVars>>

\* lease_expires_at passes.  No write brings it back for the same token:
\* every renewal requires the lease to be active.
LeaseExpires(j) ==
  /\ leaseLive[j]
  /\ leaseLive' = [leaseLive EXCEPT ![j] = FALSE]
  /\ UNCHANGED <<status, cancelRequested, completedAt, leaseToken,
                 fencingToken, events, receipt, runVars>>

-----------------------------------------------------------------------------
(* Engine runs.                                                            *)

Idle(r) == token[r] = 0

\* Mutant of EndRun: the slot keeps pointing at the job.
EndRunKeepsTarget(r) ==
  /\ token' = [token EXCEPT ![r] = 0]
  /\ aborted' = [aborted EXCEPT ![r] = FALSE]
  /\ UNCHANGED target

EndRun(r) ==
  /\ target' = [target EXCEPT ![r] = NoJob]
  /\ token' = [token EXCEPT ![r] = 0]
  /\ aborted' = [aborted EXCEPT ![r] = FALSE]

\* Mutant of Claimable: any job that is not terminal and not leased.
ClaimableUnlessTerminal(j) ==
  /\ ~cancelRequested[j]
  /\ status[j] \notin Terminal \cup {"ABSENT"}
  /\ ~(status[j] = "RUNNING" /\ leaseLive[j])

\* Mutant of Claimable: an expired lease is not taken over.
ClaimableUnlessRunning(j) ==
  /\ ~cancelRequested[j]
  /\ status[j] \in {"QUEUED", "REVISION_REQUIRED"}

\* The guard of MysqlWorkflowExecutionStore.claim
Claimable(j) ==
  /\ ~cancelRequested[j]
  /\ status[j] \in {"QUEUED", "REVISION_REQUIRED", "RUNNING"}
  /\ ~(status[j] = "RUNNING" /\ leaseLive[j])

\* claim, on behalf of the run that a queue delivery starts.  When the
\* guard fails claim returns null and the run is over.
Claim(r, j) ==
  /\ Idle(r)
  /\ Claimable(j)
  /\ fencingToken[j] < MaxFence
  /\ LET next == fencingToken[j] + 1
     IN  /\ fencingToken' = [fencingToken EXCEPT ![j] = next]
         /\ leaseToken' = [leaseToken EXCEPT ![j] = next]
         /\ token' = [token EXCEPT ![r] = next]
         /\ AppendEvent(j, StatusEvent(next, "RUNNING"))
  /\ leaseLive' = [leaseLive EXCEPT ![j] = TRUE]
  /\ status' = [status EXCEPT ![j] = "RUNNING"]
  /\ target' = [target EXCEPT ![r] = j]
  /\ aborted' = [aborted EXCEPT ![r] = FALSE]
  /\ UNCHANGED <<cancelRequested, completedAt, receipt>>

\* Mutant of Fenced: tokens are not compared.
FencedByStatus(r) ==
  /\ ~Idle(r)
  /\ LET j == target[r]
     IN  /\ status[j] = "RUNNING"
         /\ ~cancelRequested[j]
         /\ leaseLive[j]

\* assertFence does not throw for run r.
Fenced(r) ==
  /\ ~Idle(r)
  /\ LET j == target[r]
     IN  /\ status[j] = "RUNNING"
         /\ ~cancelRequested[j]
         /\ leaseToken[j] = token[r]
         /\ fencingToken[j] = token[r]
         /\ leaseLive[j]

\* monitorControl: inspectControl renews the lease of a fenced run (it is
\* live already, nothing changes) and reports anything else, which aborts.
MonitorPoll(r) ==
  /\ ~Idle(r)
  /\ ~Fenced(r)
  /\ ~aborted[r]
  /\ aborted' = [aborted EXCEPT ![r] = TRUE]
  /\ UNCHANGED <<rowVars, target, token>>

\* The engine's persistProgress refuses when the monitor has aborted the
\* run; the store's renews the lease and appends the event.
PersistProgress(r, k, d) ==
  /\ Fenced(r)
  /\ ~aborted[r]
  /\ Len(events[target[r]]) < MaxLog
  /\ AppendEvent(target[r], PlainEvent(token[r], k, d))
  /\ UNCHANGED <<status, cancelRequested, completedAt, leaseVars, receipt,
                 runVars>>

\* Mutant of Publish: no fence in the commit transaction.
PublishUnfenced(r) ==
  /\ ~Idle(r)
  /\ receipt[target[r]] = 0
  /\ receipt' = [receipt EXCEPT ![target[r]] = token[r]]
  /\ UNCHANGED <<status, cancelRequested, completedAt, leaseVars, events,
                 runVars>>

\* WorkflowDomainCommitService.commit: the first fenced transaction inserts
\* the artifact and its receipt; afterwards the receipt is returned.
Publish(r) ==
  /\ Fenced(r)
  /\ receipt[target[r]] = 0
  /\ receipt' = [receipt EXCEPT ![target[r]] = token[r]]
  /\ UNCHANGED <<status, cancelRequested, completedAt, leaseVars, events,
                 runVars>>

\* complete, suspend and fail: the fenced run hands the job back with
\* status s, the lease is cleared, events ev are appended, the run is over.
Settle(r, s, ev) ==
  LET j == target[r]
  IN  /\ Fenced(r)
      /\ status' = [status EXCEPT ![j] = s]
      /\ completedAt' = [completedAt EXCEPT ![j] = s \in Terminal]
      /\ ClearLease(j)
      /\ events' = [events EXCEPT ![j] = ev]
      /\ EndRun(r)
      /\ UNCHANGED <<cancelRequested, receipt>>

\* complete; suspend with each of its three reasons (SHADOW_COMPLETED ends
\* the job as SUCCEEDED)
SettleStatus(r, s) ==
  Settle(r, s, Append(events[target[r]], StatusEvent(token[r], s)))

\* requireGroundingRevision, persistAtomicFailure: no status is logged
RequireRevision(r) ==
  Settle(r, "REVISION_REQUIRED",
         Append(events[target[r]], PlainEvent(token[r], "revision_required", 0)))

\* pauseForGrounding ("material_gap") and the last branch of fail ("error")
SettleWithNotice(r, s, k) ==
  Settle(r, s, Append(Append(events[target[r]], PlainEvent(token[r], k, 0)),
                      StatusEvent(token[r], s)))

Complete(r) == SettleStatus(r, "SUCCEEDED")
SuspendForApproval(r) == SettleStatus(r, "WAITING_APPROVAL")
SuspendForMaterial(r) == SettleStatus(r, "WAITING_MATERIAL")

\* Mutant of PauseForGrounding: workflow.waiting_material is not appended.
PauseWithoutStatus(r) ==
  Settle(r, "WAITING_MATERIAL",
         Append(events[target[r]], PlainEvent(token[r], "material_gap", 0)))

PauseForGrounding(r) == SettleWithNotice(r, "WAITING_MATERIAL", "material_gap")
Fail(r) == SettleWithNotice(r, "FAILED", "error")

\* The run ends without touching the row: a write was refused by the fence,
\* the abort signal ended the model call, the store's own error was
\* rethrown, or the process died.
Abandon(r) ==
  /\ ~Idle(r)
  /\ EndRun(r)
  /\ UNCHANGED rowVars

-----------------------------------------------------------------------------
RowStep(j) == \/ Create(j) \/ Cancel(j) \/ ResumeMaterial(j) \/ Approve(j)
              \/ LeaseExpires(j)

RunStep(r) == \/ \E j \in Jobs : Claim(r, j)
              \/ MonitorPoll(r)
              \/ \E k \in Kinds, d \in Payloads : PersistProgress(r, k, d)
              \/ Publish(r)
              \/ Complete(r) \/ SuspendForApproval(r) \/ SuspendForMaterial(r)
              \/ RequireRevision(r) \/ PauseForGrounding(r) \/ Fail(r)
              \/ Abandon(r)

Next == (\E j \in Jobs : RowStep(j)) \/ (\E r \in Runs : RunStep(r))

Spec == Init /\ [][Next]_vars

-----------------------------------------------------------------------------
(* Properties.                                                             *)

\* Two runs of one job never pass assertFence in the same state, however
\* often leases expire, jobs pause and are claimed again.
OneFencedRun ==
  \A r1, r2 \in Runs :
    Fenced(r1) /\ Fenced(r2) /\ target[r1] = target[r2] => r1 = r2

\* A superseded run never writes after its successor has: worker events
\* appear in the log in the order of their claims.
LogFollowsClaims ==
  \A j \in Jobs : \A i, k \in 1..Len(events[j]) :
    i < k /\ events[j][k].by # 0 => events[j][i].by <= events[j][k].by

\* An event that announces a terminal status is the last event of its job,
\* and the row agrees with it: no progress, cancellation or second outcome
\* follows.
TerminalEventClosesLog ==
  \A j \in Jobs : \A i \in 1..Len(events[j]) :
    events[j][i].st \in Terminal =>
      i = Len(events[j]) /\ status[j] = events[j][i].st

\* A client that only reads events knows the row's status from the last
\* status it saw, except that a targeted revision is announced without a
\* status and an approval is not announced at all.
LogExplains(logged, s) ==
  \/ s = logged
  \/ s = "REVISION_REQUIRED" /\ logged = "RUNNING"
  \/ s = "QUEUED" /\ logged = "WAITING_APPROVAL"

LogExplainsStatus ==
  \A j \in Jobs : status[j] # "ABSENT" =>
    \E i \in 1..Len(events[j]) :
      /\ events[j][i].st # "NONE"
      /\ \A k \in (i + 1)..Len(events[j]) : events[j][k].st = "NONE"
      /\ LogExplains(events[j][i].st, status[j])

\* The columns of a row fit together: a lease is held exactly while RUNNING
\* and by the newest claim, completed_at is set exactly in terminal states,
\* cancel_requested_at exactly in STOPPED.
RowConsistent ==
  \A j \in Jobs :
    /\ status[j] = "RUNNING" <=> leaseToken[j] # 0
    /\ leaseToken[j] # 0 => leaseToken[j] = fencingToken[j]
    /\ leaseLive[j] => leaseToken[j] # 0
    /\ completedAt[j] <=> status[j] \in Terminal
    /\ cancelRequested[j] <=> status[j] = "STOPPED"

\* Terminal states are final for everything a user can observe: after a job
\* succeeds, fails or is stopped, no late run changes its status, its log
\* or its artifact.
TerminalIsFinal ==
  [][\A j \in Jobs : status[j] \in Terminal =>
       /\ status'[j] = status[j]
       /\ events'[j] = events[j]
       /\ receipt'[j] = receipt[j]]_vars

\* The store implements the lifecycle that workflow.types.ts promises.
Lifecycle == INSTANCE JobLifecycle
               WITH published <- [j \in Jobs |-> receipt[j] # 0]

LifecycleSpec == Lifecycle!Spec
=============================================================================
