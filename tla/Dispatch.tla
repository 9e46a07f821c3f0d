------------------------------ MODULE Dispatch ------------------------------
(***************************************************************************)
(* How durable jobs reach a worker: WorkflowDispatchService adds a Bull    *)
(* job named after the workflow job, Bull delivers it to a worker, and     *)
(* WorkflowRecoveryDispatcher, in the worker process, keeps scanning MySQL *)
(* for jobs that no delivery is going to pick up.                          *)
(*                                                                         *)
(* Bull ignores an add while a job of that name exists and removes the job *)
(* only after its handler has returned; an add may hang, be refused, or be *)
(* carried out after its caller has given up; a crash leaves an entry for  *)
(* Bull's stalled check.                                                   *)
(***************************************************************************)
EXTENDS Integers, FiniteSets

CONSTANTS NJobs,      \* jobs are 1..NJobs in the order of created_at
          Poison,     \* jobs whose claim throws (invalid policy snapshot)
          ScanLimit,  \* the LIMIT of the recovery query
          MaxConcurrency,
          MaxFaults   \* bound: lost adds, crashes, expired leases, requeues

Jobs == 1..NJobs

ASSUME BoundsAssumption == NJobs \in Nat /\ MaxFaults \in Nat
ASSUME PoisonAssumption == Poison \subseteq Jobs
ASSUME LimitAssumption ==
  ScanLimit \in Nat /\ Cardinality(Poison) < ScanLimit /\ MaxConcurrency \in Nat \ {0}

Processes == {"api", "worker"}   \* each has its own pendingDeliveries

VARIABLES
  row,       \* the job row, as far as claim and the scan look at it
  bull,      \* its entry in the Bull queue
  held,      \* does the active entry's run hold the row's lease?
  delivery,  \* pendingDeliveries of each process
  waiting,   \* is some dispatch call awaiting that delivery?
  late,      \* a retired add may still reach Redis
  backoff,   \* retryAfter > now
  scanning,  \* inFlight
  scan,      \* jobs of the scan not yet dispatched
  faults

rowVars == <<row, held>>
callVars == <<delivery, waiting, late>>
scanVars == <<backoff, scanning, scan>>
vars == <<rowVars, bull, callVars, scanVars, faults>>

-----------------------------------------------------------------------------
\* "claimable": QUEUED, REVISION_REQUIRED, or RUNNING with an expired lease.
RowStates == {"absent", "claimable", "leased", "paused", "over"}

\* An active entry is about to claim, is running, or has returned; a
\* "stalled" one lost its worker.
BullStates == {"none", "waiting", "claiming", "running", "returned", "stalled"}

TypeOK ==
  /\ row \in [Jobs -> RowStates]
  /\ bull \in [Jobs -> BullStates]
  /\ held \in [Jobs -> BOOLEAN]
  /\ delivery \in [Processes -> [Jobs -> {"none", "sent", "hung"}]]
  /\ waiting \in [Processes -> [Jobs -> BOOLEAN]]
  /\ late \in [Jobs -> BOOLEAN]
  /\ backoff \in [Jobs -> BOOLEAN]
  /\ scanning \in BOOLEAN
  /\ scan \subseteq Jobs
  /\ faults \in 0..MaxFaults
  /\ \A p \in Processes, j \in Jobs : waiting[p][j] <=> delivery[p][j] # "none"

Init ==
  /\ row = [j \in Jobs |-> "absent"]
  /\ bull = [j \in Jobs |-> "none"]
  /\ held = [j \in Jobs |-> FALSE]
  /\ delivery = [p \in Processes |-> [j \in Jobs |-> "none"]]
  /\ waiting = [p \in Processes |-> [j \in Jobs |-> FALSE]]
  /\ late = [j \in Jobs |-> FALSE]
  /\ backoff = [j \in Jobs |-> FALSE]
  /\ scanning = FALSE
  /\ scan = {}
  /\ faults = 0

Fault == faults < MaxFaults /\ faults' = faults + 1

-----------------------------------------------------------------------------
(* WorkflowDispatchService.dispatch in process p.                          *)

\* A delivery that is already pending is shared; else queue.add is called.
\* "hung": no acknowledgement will come within acknowledgementTimeoutMs.
Dispatch(p, j) ==
  /\ waiting' = [waiting EXCEPT ![p][j] = TRUE]
  /\ \/ delivery[p][j] # "none" /\ UNCHANGED <<delivery, faults>>
     \/ /\ delivery[p][j] = "none"
        /\ delivery' = [delivery EXCEPT ![p][j] = "sent"]
        /\ UNCHANGED faults
     \/ /\ delivery[p][j] = "none"
        /\ delivery' = [delivery EXCEPT ![p][j] = "hung"]
        /\ Fault
  /\ UNCHANGED late

\* The entry is created unless one exists, whatever its state.
AddEntry(j) == bull' = [bull EXCEPT ![j] = IF @ = "none" THEN "waiting" ELSE @]

Return(p, j) ==
  /\ delivery' = [delivery EXCEPT ![p][j] = "none"]
  /\ waiting' = [waiting EXCEPT ![p][j] = FALSE]

\* retryAfter, which only the recovery dispatcher keeps
SetBackoff(p, j, b) ==
  backoff' = IF p = "worker" THEN [backoff EXCEPT ![j] = b] ELSE backoff

Acknowledged(p, j) ==
  /\ delivery[p][j] = "sent"
  /\ AddEntry(j)
  /\ Return(p, j)
  /\ SetBackoff(p, j, FALSE)
  /\ UNCHANGED <<rowVars, late, scanning, scan, faults>>

Refused(p, j) ==
  /\ delivery[p][j] = "sent"
  /\ Fault
  /\ Return(p, j)
  /\ SetBackoff(p, j, TRUE)
  /\ UNCHANGED <<rowVars, bull, late, scanning, scan>>

\* Mutant of TimedOut: the hung delivery stays in pendingDeliveries.
TimedOutStillPending(p, j) ==
  /\ delivery[p][j] = "hung"
  /\ waiting[p][j]
  /\ waiting' = [waiting EXCEPT ![p][j] = FALSE]
  /\ SetBackoff(p, j, TRUE)
  /\ UNCHANGED <<rowVars, bull, delivery, late, scanning, scan, faults>>

\* WorkflowDispatchTimeoutError: the delivery is retired.
TimedOut(p, j) ==
  /\ delivery[p][j] = "hung"
  /\ Return(p, j)
  /\ late' = [late EXCEPT ![j] = TRUE]
  /\ SetBackoff(p, j, TRUE)
  /\ UNCHANGED <<rowVars, bull, scanning, scan, faults>>

\* A retired add is carried out after all.  Its late acknowledgement finds
\* another delivery, or none, in the map and changes nothing there.
LateAdd(j) ==
  /\ late[j]
  /\ AddEntry(j)
  /\ late' = [late EXCEPT ![j] = FALSE]
  /\ UNCHANGED <<rowVars, delivery, waiting, scanVars, faults>>

-----------------------------------------------------------------------------
(* API requests: create, resume-material and approve end with a dispatch,  *)
(* unless the process dies right after the row's transaction.              *)

Admit(j) ==
  /\ row[j] \in {"absent", "paused"}
  /\ row' = [row EXCEPT ![j] = "claimable"]
  /\ \/ Dispatch("api", j)
     \/ Fault /\ UNCHANGED callVars
  /\ UNCHANGED <<bull, held, scanVars>>

\* A repeated create with the same idempotency key, as every reconnect of a
\* legacy client sends, finds the row and dispatches it again, whatever its
\* status.
AdmitAgain(j) ==
  /\ row[j] # "absent"
  /\ Dispatch("api", j)
  /\ UNCHANGED <<rowVars, bull, scanVars>>

-----------------------------------------------------------------------------
(* Bull and WorkflowProcessor.handle                                       *)

Deliver(j) ==
  /\ bull[j] = "waiting"
  /\ bull' = [bull EXCEPT ![j] = "claiming"]
  /\ UNCHANGED <<rowVars, callVars, scanVars, faults>>

\* engine.run claims the job, or finds nothing to do, or throws.
RunClaim(j) ==
  /\ bull[j] = "claiming"
  /\ IF row[j] = "claimable" /\ j \notin Poison
       THEN /\ row' = [row EXCEPT ![j] = "leased"]
            /\ held' = [held EXCEPT ![j] = TRUE]
            /\ bull' = [bull EXCEPT ![j] = "running"]
       ELSE /\ bull' = [bull EXCEPT ![j] = "returned"]
            /\ UNCHANGED rowVars
  /\ UNCHANGED <<callVars, scanVars, faults>>

\* The run settles the row if it still holds the lease.  A revision makes
\* the job claimable while its entry is still there.
RunEnds(j) ==
  /\ bull[j] = "running"
  /\ bull' = [bull EXCEPT ![j] = "returned"]
  /\ IF held[j]
       THEN \/ row' = [row EXCEPT ![j] = "over"] /\ UNCHANGED faults
            \/ \E s \in {"paused", "claimable"} :
                 row' = [row EXCEPT ![j] = s] /\ Fault
       ELSE UNCHANGED <<row, faults>>
  /\ held' = [held EXCEPT ![j] = FALSE]
  /\ UNCHANGED <<callVars, scanVars>>

\* removeOnComplete, removeOnFail
Remove(j) ==
  /\ bull[j] = "returned"
  /\ bull' = [bull EXCEPT ![j] = "none"]
  /\ UNCHANGED <<rowVars, callVars, scanVars, faults>>

\* Bull's stalled check restarts an entry, or fails and removes it.
StalledCheck(j) ==
  /\ bull[j] = "stalled"
  /\ \E b \in {"waiting", "none"} : bull' = [bull EXCEPT ![j] = b]
  /\ UNCHANGED <<rowVars, callVars, scanVars, faults>>

\* The lease runs out: of a dead run, or of one that could not renew it.
LeaseExpires(j) ==
  /\ row[j] = "leased"
  /\ IF held[j] THEN Fault ELSE UNCHANGED faults
  /\ row' = [row EXCEPT ![j] = "claimable"]
  /\ held' = [held EXCEPT ![j] = FALSE]
  /\ UNCHANGED <<bull, callVars, scanVars>>

\* The worker process dies, with its runs, its scan and its maps.
WorkerCrash ==
  /\ Fault
  /\ bull' = [j \in Jobs |-> IF bull[j] \in {"claiming", "running", "returned"}
                               THEN "stalled" ELSE bull[j]]
  /\ held' = [j \in Jobs |-> FALSE]
  /\ delivery' = [delivery EXCEPT !["worker"] = [j \in Jobs |-> "none"]]
  /\ waiting' = [waiting EXCEPT !["worker"] = [j \in Jobs |-> FALSE]]
  /\ backoff' = [j \in Jobs |-> FALSE]
  /\ scanning' = FALSE
  /\ scan' = {}
  /\ UNCHANGED <<row, late>>

-----------------------------------------------------------------------------
(* WorkflowRecoveryDispatcher.scanAndDispatch                              *)

Due == {j \in Jobs : row[j] = "claimable"}

\* The ScanLimit oldest due jobs, then without those in backoff.
ScanStart ==
  /\ ~scanning
  /\ scanning' = TRUE
  /\ scan' = {j \in Due : /\ Cardinality({i \in Due : i < j}) < ScanLimit
                          /\ ~backoff[j]}
  /\ UNCHANGED <<rowVars, bull, callVars, backoff, faults>>

ScanDispatch(j) ==
  /\ j \in scan
  /\ \A i \in scan : j <= i
  /\ Cardinality({i \in Jobs : waiting["worker"][i]}) < MaxConcurrency
  /\ scan' = scan \ {j}
  /\ Dispatch("worker", j)
  /\ UNCHANGED <<rowVars, bull, backoff, scanning>>

\* Mutant of ScanEnd: the dispatches are not awaited.
ScanEndsEarly ==
  /\ scanning
  /\ scan = {}
  /\ scanning' = FALSE
  /\ UNCHANGED <<rowVars, bull, callVars, backoff, scan, faults>>

ScanEnd ==
  /\ scanning
  /\ scan = {}
  /\ \A j \in Jobs : ~waiting["worker"][j]
  /\ scanning' = FALSE
  /\ UNCHANGED <<rowVars, bull, callVars, backoff, scan, faults>>

BackoffEnds(j) ==
  /\ backoff[j]
  /\ backoff' = [backoff EXCEPT ![j] = FALSE]
  /\ UNCHANGED <<rowVars, bull, callVars, scanning, scan, faults>>

-----------------------------------------------------------------------------
BullStep(j) == Deliver(j) \/ RunClaim(j) \/ RunEnds(j) \/ Remove(j) \/ StalledCheck(j)

CallStep(p, j) == Acknowledged(p, j) \/ TimedOut(p, j)

Next ==
  \/ \E j \in Jobs : \/ Admit(j) \/ AdmitAgain(j) \/ BullStep(j) \/ LateAdd(j)
                     \/ LeaseExpires(j) \/ ScanDispatch(j) \/ BackoffEnds(j)
  \/ \E p \in Processes, j \in Jobs : CallStep(p, j) \/ Refused(p, j)
  \/ ScanStart \/ ScanEnd \/ WorkerCrash

\* Bull and its stalled check run, timers fire, adds are answered; nothing
\* is assumed of API requests, late adds and faults.
Fairness ==
  /\ \A j \in Jobs : /\ WF_vars(BullStep(j)) /\ WF_vars(ScanDispatch(j))
                     /\ WF_vars(BackoffEnds(j))
                     /\ \A p \in Processes : WF_vars(CallStep(p, j))
  /\ WF_vars(ScanStart)
  /\ WF_vars(ScanEnd)

Spec == Init /\ [][Next]_vars /\ Fairness

-----------------------------------------------------------------------------
\* No wakeup is lost: an admitted, revised or orphaned job is claimed, also
\* when its add was hung or refused, was swallowed by an entry that was
\* about to be removed, or when older jobs can never be claimed.
JobsAreClaimed ==
  \A j \in Jobs \ Poison : row[j] = "claimable" ~> row[j] # "claimable"

\* Between scans nothing is left behind in the worker: every delivery the
\* scan waited for was acknowledged, refused or retired, so the next scan
\* starts a fresh add for every job.
ScansLeaveNothingPending ==
  ~scanning => scan = {} /\ \A j \in Jobs : delivery["worker"][j] = "none"
=============================================================================
