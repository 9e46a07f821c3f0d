------------------------ MODULE WorkflowStoreProofs ------------------------
(***************************************************************************)
(* Proofs about WorkflowStore, for any number of jobs, engine runs, claims *)
(* and events.                                                             *)
(***************************************************************************)
EXTENDS WorkflowStore, TLAPS

\* A run hands its job back: the six ways engine.run ends a claimed job.
Settles(r) == \/ Complete(r) \/ SuspendForApproval(r) \/ SuspendForMaterial(r)
              \/ RequireRevision(r) \/ PauseForGrounding(r) \/ Fail(r)

Outcomes == {"REVISION_REQUIRED", "WAITING_APPROVAL", "WAITING_MATERIAL",
             "SUCCEEDED", "FAILED"}

\* The records the handlers append are well-formed events.
LEMMA EventTypes ==
  ASSUME NEW t \in 0..MaxFence
  PROVE  /\ \A s \in WorkflowStatus : StatusEvent(t, s) \in Event
         /\ \A k \in Kinds \cup StoreKinds, d \in Payloads :
              PlainEvent(t, k, d) \in Event
  BY PayloadsAssumption DEF StatusEvent, PlainEvent, Event, StoreKinds

\* How a transaction extends a log: every new event is written by t, the
\* last one names status st, the others name none.
LogGrows(old, t, st, ev) ==
  /\ ev \in Seq(Event)
  /\ Len(ev) > Len(old)
  /\ \A i \in 1..Len(old) : ev[i] = old[i]
  /\ \A i \in (Len(old) + 1)..Len(ev) :
       /\ ev[i].by = t
       /\ ev[i].st = IF i = Len(ev) THEN st ELSE "NONE"

\* appendEvent once: the log grows by that event.
LEMMA AppendOne ==
  ASSUME NEW old \in Seq(Event), NEW e \in Event
  PROVE  LogGrows(old, e.by, e.st, Append(old, e))
  BY DEF LogGrows

\* A notice followed by a status event, as pauseForGrounding and fail
\* append them.
LEMMA AppendTwo ==
  ASSUME NEW old \in Seq(Event), NEW n \in Event, NEW e \in Event,
         n.by = e.by, n.st = "NONE"
  PROVE  LogGrows(old, e.by, e.st, Append(Append(old, n), e))
  BY DEF LogGrows

\* The status a settling run announces.
Announced(s) == IF s = "REVISION_REQUIRED" THEN "NONE" ELSE s

\* Every way a run hands its job back is one fenced Settle, and the log
\* grows by events of that run only.
LEMMA SettleShape ==
  ASSUME TypeOK, NEW r \in Runs, Settles(r)
  PROVE  /\ Fenced(r)
         /\ target[r] \in Jobs
         /\ token[r] \in 1..MaxFence
         /\ \E s \in Outcomes, ev \in Seq(Event) :
              Settle(r, s, ev) /\ LogGrows(events[target[r]], token[r], Announced(s), ev)
<1> DEFINE old == events[target[r]]
           t == token[r]
<1>1. Fenced(r)
  BY DEF Settles, Settle, Complete, SuspendForApproval, SuspendForMaterial,
         RequireRevision, PauseForGrounding, Fail, SettleStatus,
         SettleWithNotice
<1>2. target[r] \in Jobs /\ t \in 1..MaxFence /\ old \in Seq(Event)
  BY <1>1, MaxFenceAssumption DEF TypeOK, Fenced, Idle
<1>3. /\ \A s \in Outcomes : StatusEvent(t, s) \in Event
      /\ \A k \in StoreKinds : PlainEvent(t, k, 0) \in Event
  BY <1>2, EventTypes, PayloadsAssumption DEF Outcomes, WorkflowStatus
<1> SUFFICES \E s \in Outcomes, ev \in Seq(Event) :
               Settle(r, s, ev) /\ LogGrows(old, t, Announced(s), ev)
  BY <1>1, <1>2
<1> HIDE DEF old, t
<1>4. ASSUME NEW s \in Outcomes \ {"REVISION_REQUIRED"}
      PROVE  LogGrows(old, t, Announced(s), Append(old, StatusEvent(t, s)))
  <2>1. StatusEvent(t, s) \in Event
    BY <1>3
  <2>2. StatusEvent(t, s).by = t /\ StatusEvent(t, s).st = Announced(s)
    BY DEF StatusEvent, Announced
  <2> QED BY <1>2, <2>1, <2>2, AppendOne
<1>5. LogGrows(old, t, Announced("REVISION_REQUIRED"),
               Append(old, PlainEvent(t, "revision_required", 0)))
  <2> DEFINE e == PlainEvent(t, "revision_required", 0)
  <2>1. e \in Event
    BY <1>3 DEF StoreKinds
  <2>2. e.by = t /\ e.st = Announced("REVISION_REQUIRED")
    BY DEF PlainEvent, Announced
  <2> HIDE DEF e
  <2>3. LogGrows(old, t, Announced("REVISION_REQUIRED"), Append(old, e))
    BY <1>2, <2>1, <2>2, AppendOne
  <2> QED BY <2>3 DEF e
<1>6. ASSUME NEW s \in Outcomes \ {"REVISION_REQUIRED"},
             NEW k \in {"error", "material_gap"}
      PROVE  LogGrows(old, t, Announced(s),
                      Append(Append(old, PlainEvent(t, k, 0)),
                             StatusEvent(t, s)))
  <2> DEFINE n == PlainEvent(t, k, 0)
             e == StatusEvent(t, s)
  <2>1. n \in Event /\ e \in Event
    BY <1>3 DEF StoreKinds
  <2>2. n.by = t /\ e.by = t /\ n.st = "NONE" /\ e.st = Announced(s)
    BY DEF PlainEvent, StatusEvent, Announced
  <2> HIDE DEF n, e
  <2>3. LogGrows(old, t, Announced(s), Append(Append(old, n), e))
    BY <1>2, <2>1, <2>2, AppendTwo
  <2> QED BY <2>3 DEF n, e
<1>7. ASSUME NEW s \in Outcomes, NEW ev,
             Settle(r, s, ev), LogGrows(old, t, Announced(s), ev)
      PROVE  \E s1 \in Outcomes, ev1 \in Seq(Event) :
               Settle(r, s1, ev1) /\ LogGrows(old, t, Announced(s1), ev1)
  <2>1. ev \in Seq(Event)
    BY <1>7 DEF LogGrows
  <2> QED BY <1>7, <2>1
<1>8. CASE \E s \in Outcomes \ {"REVISION_REQUIRED"} : SettleStatus(r, s)
  BY <1>4, <1>7, <1>8 DEF SettleStatus, old, t
<1>9. CASE RequireRevision(r)
  BY <1>5, <1>7, <1>9 DEF RequireRevision, Outcomes, old, t
<1>10. CASE \E s \in Outcomes \ {"REVISION_REQUIRED"}, k \in {"error", "material_gap"} :
              SettleWithNotice(r, s, k)
  BY <1>6, <1>7, <1>10 DEF SettleWithNotice, old, t
<1>11. \/ \E s \in Outcomes \ {"REVISION_REQUIRED"} : SettleStatus(r, s)
       \/ RequireRevision(r)
       \/ \E s \in Outcomes \ {"REVISION_REQUIRED"}, k \in {"error", "material_gap"} :
              SettleWithNotice(r, s, k)
  BY DEF Settles, Complete, SuspendForApproval, SuspendForMaterial,
         PauseForGrounding, Fail, Outcomes
<1> QED BY <1>8, <1>9, <1>10, <1>11

-----------------------------------------------------------------------------
\* Every reachable state of the store is well typed.
LEMMA TypeInit == Init => TypeOK
  BY MaxFenceAssumption, NoJobAssumption, 0 \in 0..MaxFence
  DEF Init, TypeOK, WorkflowStatus

\* HTTP handlers and the clock preserve the types.
LEMMA TypeRow ==
  ASSUME TypeOK, NEW j \in Jobs, RowStep(j)
  PROVE  TypeOK'
<1> 0 \in 0..MaxFence
  BY MaxFenceAssumption
<1>e. \A s \in WorkflowStatus : StatusEvent(0, s) \in Event
  BY EventTypes
<1>1. CASE Create(j)
  <2>1. events' \in [Jobs -> Seq(Event)]
    BY <1>1, <1>e DEF Create, AppendEvent, TypeOK, WorkflowStatus
  <2> QED BY <1>1, <2>1 DEF Create, TypeOK, WorkflowStatus, leaseVars, runVars
<1>2. CASE Cancel(j)
  <2>1. events' \in [Jobs -> Seq(Event)]
    BY <1>2, <1>e DEF Cancel, AppendEvent, TypeOK, WorkflowStatus
  <2> QED BY <1>2, <2>1 DEF Cancel, ClearLease, TypeOK, WorkflowStatus, runVars
<1>3. CASE ResumeMaterial(j)
  <2>1. events' \in [Jobs -> Seq(Event)]
    BY <1>3, <1>e DEF ResumeMaterial, AppendEvent, TypeOK, WorkflowStatus
  <2> QED BY <1>3, <2>1
      DEF ResumeMaterial, ClearLease, TypeOK, WorkflowStatus, runVars
<1>4. CASE Approve(j)
  BY <1>4 DEF Approve, ClearLease, TypeOK, WorkflowStatus, runVars
<1>5. CASE LeaseExpires(j)
  BY <1>5 DEF LeaseExpires, TypeOK, runVars
<1> QED BY <1>1, <1>2, <1>3, <1>4, <1>5 DEF RowStep

\* So does a run that hands its job back,
LEMMA TypeSettle ==
  ASSUME TypeOK, NEW r \in Runs, Settles(r)
  PROVE  TypeOK'
<1> DEFINE j == target[r]
<1>1. PICK s \in Outcomes, ev \in Seq(Event) : Settle(r, s, ev)
  BY SettleShape
<1>2. j \in Jobs
  BY SettleShape
<1> QED
  BY <1>1, <1>2, MaxFenceAssumption, 0 \in 0..MaxFence
  DEF Settle, ClearLease, EndRun, TypeOK, Outcomes, WorkflowStatus, Terminal

\* and so does every other step of a run.
LEMMA TypeRun ==
  ASSUME TypeOK, NEW r \in Runs, RunStep(r)
  PROVE  TypeOK'
<1> 0 \in 0..MaxFence
  BY MaxFenceAssumption
<1>1. ASSUME NEW j \in Jobs, Claim(r, j)
      PROVE  TypeOK'
  <2>1. fencingToken[j] + 1 \in 0..MaxFence /\ fencingToken[j] + 1 # 0
    BY <1>1, MaxFenceAssumption DEF Claim, TypeOK
  <2>2. StatusEvent(fencingToken[j] + 1, "RUNNING") \in Event
    BY <2>1, EventTypes DEF WorkflowStatus
  <2>3. events' \in [Jobs -> Seq(Event)]
    BY <1>1, <2>2 DEF Claim, AppendEvent, TypeOK
  <2> QED BY <1>1, <2>1, <2>3, NoJobAssumption DEF Claim, TypeOK, WorkflowStatus
<1>2. CASE MonitorPoll(r)
  BY <1>2 DEF MonitorPoll, TypeOK, rowVars, leaseVars
<1>3. ASSUME NEW k \in Kinds, NEW d \in Payloads, PersistProgress(r, k, d)
      PROVE  TypeOK'
  <2>1. target[r] \in Jobs /\ token[r] \in 0..MaxFence
    BY <1>3 DEF PersistProgress, Fenced, Idle, TypeOK
  <2>2. PlainEvent(token[r], k, d) \in Event
    BY <2>1, EventTypes
  <2>3. events' \in [Jobs -> Seq(Event)]
    BY <1>3, <2>1, <2>2 DEF PersistProgress, AppendEvent, TypeOK
  <2> QED BY <1>3, <2>3 DEF PersistProgress, TypeOK, leaseVars, runVars
<1>4. CASE Publish(r)
  BY <1>4 DEF Publish, TypeOK, leaseVars, runVars
<1>5. CASE Settles(r)
  BY <1>5, TypeSettle
<1>6. CASE Abandon(r)
  BY <1>6 DEF Abandon, EndRun, TypeOK, rowVars, leaseVars
<1> QED BY <1>1, <1>2, <1>3, <1>4, <1>5, <1>6 DEF RunStep, Settles

\* No transaction of any run or handler leaves the types of the columns.
THEOREM TypeCorrect == Spec => []TypeOK
<1>1. TypeOK /\ [Next]_vars => TypeOK'
  <2> SUFFICES ASSUME TypeOK, [Next]_vars
               PROVE  TypeOK'
    OBVIOUS
  <2>1. CASE UNCHANGED vars
    BY <2>1 DEF TypeOK, vars, rowVars, runVars, leaseVars
  <2> QED BY <2>1, TypeRow, TypeRun DEF Next
<1> QED BY TypeInit, <1>1, PTL DEF Spec

-----------------------------------------------------------------------------
(* The inductive invariant.  OneFencedRun alone is not inductive: a claim  *)
(* must be known to draw a number no other run holds.  The log invariants  *)
(* need the claims that wrote the log to be no newer than the row's.       *)

TokensIdentifyRuns ==
  /\ \A r \in Runs : token[r] # 0 => token[r] <= fencingToken[target[r]]
  /\ \A r1, r2 \in Runs :
       token[r1] # 0 /\ token[r1] = token[r2] /\ target[r1] = target[r2]
         => r1 = r2

LogByKnownClaims ==
  \A j \in Jobs : \A i \in 1..Len(events[j]) : events[j][i].by <= fencingToken[j]

IInv == /\ TypeOK
        /\ RowConsistent
        /\ TokensIdentifyRuns
        /\ LogByKnownClaims
        /\ LogFollowsClaims
        /\ TerminalEventClosesLog
        /\ LogExplainsStatus

\* The inductive invariant holds of the empty database.
LEMMA InvInit == Init => IInv
<1> SUFFICES ASSUME Init PROVE IInv
  OBVIOUS
<1>1. TypeOK
  BY TypeInit
<1>2. \A j \in Jobs : Len(events[j]) = 0
  BY DEF Init
<1> QED
  BY <1>1, <1>2
  DEF IInv, Init, RowConsistent, TokensIdentifyRuns, LogByKnownClaims,
      LogFollowsClaims, TerminalEventClosesLog, LogExplainsStatus, Terminal

\* Every transaction keeps the columns of a row consistent.
LEMMA RowConsistentStep ==
  ASSUME TypeOK, RowConsistent, Next
  PROVE  RowConsistent'
<1> USE DEF RowConsistent, Terminal
<1>1. ASSUME NEW j \in Jobs, RowStep(j)
      PROVE  RowConsistent'
  <2>1. CASE Create(j)
    BY <2>1 DEF Create, TypeOK, leaseVars
  <2>2. CASE Cancel(j)
    BY <2>2 DEF Cancel, Cancellable, ClearLease, TypeOK
  <2>3. CASE ResumeMaterial(j)
    BY <2>3 DEF ResumeMaterial, ClearLease, TypeOK
  <2>4. CASE Approve(j)
    BY <2>4 DEF Approve, ClearLease, TypeOK
  <2>5. CASE LeaseExpires(j)
    BY <2>5 DEF LeaseExpires, TypeOK
  <2> QED BY <1>1, <2>1, <2>2, <2>3, <2>4, <2>5 DEF RowStep
<1>2. ASSUME NEW r \in Runs, RunStep(r)
      PROVE  RowConsistent'
  <2>1. ASSUME NEW j \in Jobs, Claim(r, j)
        PROVE  RowConsistent'
    BY <2>1, MaxFenceAssumption DEF Claim, Claimable, TypeOK
  <2>2. CASE MonitorPoll(r) \/ Abandon(r)
    BY <2>2 DEF MonitorPoll, Abandon, rowVars, leaseVars
  <2>3. ASSUME NEW k \in Kinds, NEW d \in Payloads, PersistProgress(r, k, d)
        PROVE  RowConsistent'
    BY <2>3 DEF PersistProgress, leaseVars
  <2>4. CASE Publish(r)
    BY <2>4 DEF Publish, leaseVars
  <2>5. CASE Settles(r)
    <3>1. PICK s \in Outcomes, ev \in Seq(Event) : Settle(r, s, ev)
      BY <2>5, SettleShape
    <3> QED BY <3>1 DEF Settle, ClearLease, Fenced, Idle, TypeOK, Outcomes
  <2> QED BY <1>2, <2>1, <2>2, <2>3, <2>4, <2>5 DEF RunStep, Settles
<1> QED BY <1>1, <1>2 DEF Next

\* Claims keep naming one run each: a claim takes a number above every
\* earlier one, and nothing else hands tokens out.
LEMMA TokensStep ==
  ASSUME TypeOK, TokensIdentifyRuns, Next
  PROVE  TokensIdentifyRuns'
<1> USE DEF TokensIdentifyRuns
<1>1. ASSUME NEW j \in Jobs, RowStep(j)
      PROVE  TokensIdentifyRuns'
  BY <1>1 DEF RowStep, Create, Cancel, ResumeMaterial, Approve, LeaseExpires,
              ClearLease, leaseVars, runVars
<1>2. ASSUME NEW r \in Runs, RunStep(r)
      PROVE  TokensIdentifyRuns'
  <2>1. ASSUME NEW j \in Jobs, Claim(r, j)
        PROVE  TokensIdentifyRuns'
    <3>1. /\ fencingToken' = [fencingToken EXCEPT ![j] = fencingToken[j] + 1]
          /\ token' = [token EXCEPT ![r] = fencingToken[j] + 1]
          /\ target' = [target EXCEPT ![r] = j]
      BY <2>1 DEF Claim
    <3>2. fencingToken[j] \in Nat /\ \A q \in Runs : token[q] \in Nat
      BY MaxFenceAssumption DEF TypeOK
    <3>3. ASSUME NEW q \in Runs, token'[q] # 0
          PROVE  token'[q] <= fencingToken'[target'[q]]
      <4>1. CASE q = r
        BY <3>1, <3>2, <4>1 DEF TypeOK
      <4>2. CASE q # r
        <5>1. token'[q] = token[q] /\ target'[q] = target[q] /\ target[q] \in Jobs
          BY <3>1, <3>3, <4>2 DEF TypeOK
        <5>2. fencingToken[target[q]] \in Nat
          BY <5>1, MaxFenceAssumption DEF TypeOK
        <5> QED BY <3>1, <3>2, <3>3, <5>1, <5>2 DEF TypeOK
      <4> QED BY <4>1, <4>2
    <3>4. ASSUME NEW q \in Runs, q # r, token[q] # 0, target[q] = j
          PROVE  token[q] # fencingToken[j] + 1
      BY <3>2, <3>4
    <3> QED BY <3>1, <3>2, <3>3, <3>4 DEF TypeOK
  <2>2. CASE MonitorPoll(r)
    BY <2>2 DEF MonitorPoll, rowVars, leaseVars
  <2>3. CASE Abandon(r)
    BY <2>3 DEF Abandon, EndRun, rowVars, leaseVars, TypeOK
  <2>4. ASSUME NEW k \in Kinds, NEW d \in Payloads, PersistProgress(r, k, d)
        PROVE  TokensIdentifyRuns'
    BY <2>4 DEF PersistProgress, leaseVars, runVars
  <2>5. CASE Publish(r)
    BY <2>5 DEF Publish, leaseVars, runVars
  <2>6. CASE Settles(r)
    <3>1. PICK s \in Outcomes, ev \in Seq(Event) : Settle(r, s, ev)
      BY <2>6, SettleShape
    <3> QED BY <3>1 DEF Settle, ClearLease, EndRun, TypeOK
  <2> QED BY <1>2, <2>1, <2>2, <2>3, <2>4, <2>5, <2>6 DEF RunStep, Settles
<1> QED BY <1>1, <1>2 DEF Next

-----------------------------------------------------------------------------
(* What one step may do to the log and the status of one job.              *)

\* The log is left alone: so is the status, unless a proposal is approved.
LogKept(j) ==
  /\ events'[j] = events[j]
  /\ \/ status'[j] = status[j]
     \/ status[j] = "WAITING_APPROVAL" /\ status'[j] = "QUEUED"

\* The log grows: the job was not over, the writer is a handler or the
\* newest claim, and an announced status is the new status of the row.
LogExtended(j) ==
  /\ status[j] \notin Terminal
  /\ \E t \in {0, fencingToken'[j]}, st \in WorkflowStatus \cup {"NONE"} :
       /\ LogGrows(events[j], t, st, events'[j])
       /\ st # "NONE" => status'[j] = st
       /\ st = "NONE" => /\ status[j] = "RUNNING"
                         /\ status'[j] \in {"RUNNING", "REVISION_REQUIRED"}

LogStep(j) == /\ fencingToken[j] <= fencingToken'[j]
              /\ LogKept(j) \/ LogExtended(j)

\* One status event that names the row's new status extends the log
\* properly.
LEMMA StatusAppended ==
  ASSUME TypeOK, NEW j \in Jobs, NEW t \in 0..MaxFence, NEW s \in WorkflowStatus,
         AppendEvent(j, StatusEvent(t, s)), status'[j] = s,
         status[j] \notin Terminal, t \in {0, fencingToken'[j]}
  PROVE  LogExtended(j)
<1>1. StatusEvent(t, s) \in Event
  BY EventTypes
<1>2. LogGrows(events[j], t, s, events'[j])
  <2>1. events[j] \in Seq(Event)
    BY DEF TypeOK
  <2>2. events'[j] = Append(events[j], StatusEvent(t, s))
    BY DEF AppendEvent, TypeOK
  <2>3. StatusEvent(t, s).by = t /\ StatusEvent(t, s).st = s
    BY DEF StatusEvent
  <2> QED BY <1>1, <2>1, <2>2, <2>3, AppendOne
<1> QED BY <1>2 DEF LogExtended, WorkflowStatus

\* What a handler does to a job's log: it is kept, or extended by the status
\* event of that handler.
LEMMA LogStepRow ==
  ASSUME TypeOK, NEW j \in Jobs, RowStep(j), NEW q \in Jobs
  PROVE  LogStep(q)
<1>0. 0 \in 0..MaxFence /\ fencingToken[q] <= fencingToken[q]
  BY MaxFenceAssumption DEF TypeOK
<1>1. CASE Create(j)
  <2>1. LogExtended(j)
    BY <1>0, <1>1, StatusAppended DEF Create, TypeOK, WorkflowStatus, Terminal
  <2>2. q # j => LogKept(q)
    BY <1>1 DEF Create, AppendEvent, LogKept, TypeOK
  <2> QED BY <1>0, <1>1, <2>1, <2>2 DEF Create, LogStep, leaseVars
<1>2. CASE Cancel(j)
  <2>1. LogExtended(j)
    BY <1>0, <1>2, StatusAppended
    DEF Cancel, Cancellable, TypeOK, WorkflowStatus, Terminal
  <2>2. q # j => LogKept(q)
    BY <1>2 DEF Cancel, AppendEvent, LogKept, TypeOK
  <2> QED BY <1>0, <1>2, <2>1, <2>2 DEF Cancel, ClearLease, LogStep
<1>3. CASE ResumeMaterial(j)
  <2>1. LogExtended(j)
    BY <1>0, <1>3, StatusAppended
    DEF ResumeMaterial, TypeOK, WorkflowStatus, Terminal
  <2>2. q # j => LogKept(q)
    BY <1>3 DEF ResumeMaterial, AppendEvent, LogKept, TypeOK
  <2> QED BY <1>0, <1>3, <2>1, <2>2 DEF ResumeMaterial, ClearLease, LogStep
<1>4. CASE Approve(j)
  BY <1>0, <1>4 DEF Approve, ClearLease, LogStep, LogKept, TypeOK
<1>5. CASE LeaseExpires(j)
  BY <1>0, <1>5 DEF LeaseExpires, LogStep, LogKept
<1> QED BY <1>1, <1>2, <1>3, <1>4, <1>5 DEF RowStep

\* What a run does to a job's log: it is kept, or extended by events of the
\* run's own claim, which is then the newest one.
LEMMA LogStepRun ==
  ASSUME TypeOK, NEW r \in Runs, RunStep(r), NEW q \in Jobs
  PROVE  LogStep(q)
<1>0. fencingToken[q] \in Int /\ fencingToken[q] <= fencingToken[q]
  BY MaxFenceAssumption DEF TypeOK
<1>1. ASSUME NEW j \in Jobs, Claim(r, j)
      PROVE  LogStep(q)
  <2> DEFINE next == fencingToken[j] + 1
  <2>1. /\ next \in 0..MaxFence
        /\ fencingToken' = [fencingToken EXCEPT ![j] = next]
        /\ status' = [status EXCEPT ![j] = "RUNNING"]
        /\ AppendEvent(j, StatusEvent(next, "RUNNING"))
        /\ status[j] \notin Terminal
    BY <1>1, MaxFenceAssumption DEF Claim, Claimable, TypeOK, Terminal
  <2>2. LogExtended(j)
    <3>1. next = fencingToken'[j] /\ status'[j] = "RUNNING"
      BY <2>1 DEF TypeOK
    <3> HIDE DEF next
    <3> QED BY <2>1, <3>1, StatusAppended DEF WorkflowStatus
  <2>3. q # j => LogKept(q)
    BY <2>1 DEF AppendEvent, LogKept, TypeOK
  <2>4. fencingToken[q] <= fencingToken'[q]
    BY <1>0, <2>1 DEF TypeOK
  <2> QED BY <2>2, <2>3, <2>4 DEF LogStep
<1>2. CASE MonitorPoll(r) \/ Abandon(r)
  BY <1>0, <1>2 DEF MonitorPoll, Abandon, rowVars, leaseVars, LogStep, LogKept
<1>3. ASSUME NEW k \in Kinds, NEW d \in Payloads, PersistProgress(r, k, d)
      PROVE  LogStep(q)
  <2> DEFINE j == target[r]
             e == PlainEvent(token[r], k, d)
  <2>1. /\ j \in Jobs /\ token[r] \in 0..MaxFence
        /\ status[j] = "RUNNING" /\ token[r] = fencingToken[j]
        /\ status' = status /\ fencingToken' = fencingToken
        /\ events' = [events EXCEPT ![j] = Append(@, e)]
    BY <1>3 DEF PersistProgress, Fenced, Idle, TypeOK, leaseVars, AppendEvent
  <2>2. e \in Event /\ e.by = token[r] /\ e.st = "NONE"
    <3>1. e \in Event
      BY <2>1, EventTypes
    <3> QED BY <3>1 DEF PlainEvent
  <2> HIDE DEF e
  <2>3. LogGrows(events[j], token[r], "NONE", events'[j])
    <3>1. events[j] \in Seq(Event) /\ events'[j] = Append(events[j], e)
      BY <2>1 DEF TypeOK
    <3> QED BY <2>2, <3>1, AppendOne
  <2>4. LogExtended(j)
    BY <2>1, <2>3 DEF LogExtended, Terminal
  <2>5. q # j => LogKept(q)
    BY <2>1 DEF LogKept, TypeOK
  <2> QED BY <1>0, <2>1, <2>4, <2>5 DEF LogStep
<1>4. CASE Publish(r)
  BY <1>0, <1>4 DEF Publish, leaseVars, LogStep, LogKept
<1>5. CASE Settles(r)
  <2> DEFINE j == target[r]
  <2>1. PICK s \in Outcomes, ev \in Seq(Event) :
          Settle(r, s, ev) /\ LogGrows(events[j], token[r], Announced(s), ev)
    BY <1>5, SettleShape
  <2>2. /\ j \in Jobs
        /\ status[j] = "RUNNING" /\ token[r] = fencingToken[j]
        /\ status' = [status EXCEPT ![j] = s] /\ fencingToken' = fencingToken
        /\ events' = [events EXCEPT ![j] = ev]
    BY <1>5, <2>1, SettleShape DEF Settle, Fenced, ClearLease
  <2>3. status'[j] = s /\ events'[j] = ev
    BY <2>2 DEF TypeOK
  <2>4. LogExtended(j)
    <3>1. Announced(s) \in WorkflowStatus \cup {"NONE"}
      BY DEF Announced, Outcomes, WorkflowStatus
    <3>2. Announced(s) # "NONE" => status'[j] = Announced(s)
      BY <2>3 DEF Announced
    <3>3. Announced(s) = "NONE" => status'[j] = "REVISION_REQUIRED"
      BY <2>3 DEF Announced, Outcomes
    <3> QED BY <2>1, <2>2, <2>3, <3>1, <3>2, <3>3 DEF LogExtended, Terminal
  <2>5. q # j => LogKept(q)
    BY <2>2 DEF LogKept, TypeOK
  <2> QED BY <1>0, <2>2, <2>4, <2>5 DEF LogStep
<1> QED BY <1>1, <1>2, <1>3, <1>4, <1>5 DEF RunStep, Settles

\* Every step is one of these.
LEMMA LogSteps ==
  ASSUME TypeOK, Next
  PROVE  \A q \in Jobs : LogStep(q)
  BY LogStepRow, LogStepRun DEF Next

-----------------------------------------------------------------------------
\* Lengths and entries of a typed log are typed.
LEMMA LogTypes ==
  ASSUME TypeOK, NEW j \in Jobs
  PROVE  /\ events[j] \in Seq(Event)
         /\ Len(events[j]) \in Nat
         /\ fencingToken[j] \in Nat
         /\ \A i \in 1..Len(events[j]) :
              /\ events[j][i].by \in Nat
              /\ events[j][i].st \in WorkflowStatus \cup {"NONE"}
<1>1. events[j] \in Seq(Event) /\ fencingToken[j] \in Nat
  BY MaxFenceAssumption DEF TypeOK
<1>2. Len(events[j]) \in Nat /\ \A i \in 1..Len(events[j]) : events[j][i] \in Event
  BY <1>1
<1> QED BY <1>1, <1>2, MaxFenceAssumption DEF Event

\* No step appends an event of an older claim behind one of a newer claim.
LEMMA LogClaimsStep ==
  ASSUME TypeOK, TypeOK', LogByKnownClaims, LogFollowsClaims, Next
  PROVE  LogByKnownClaims' /\ LogFollowsClaims'
<1> SUFFICES ASSUME NEW j \in Jobs
             PROVE  /\ \A i \in 1..Len(events'[j]) :
                         events'[j][i].by <= fencingToken'[j]
                    /\ \A i, k \in 1..Len(events'[j]) :
                         i < k /\ events'[j][k].by # 0
                           => events'[j][i].by <= events'[j][k].by
  BY DEF LogByKnownClaims, LogFollowsClaims
<1> DEFINE old == events[j]
           new == events'[j]
<1>1. LogStep(j)
  BY LogSteps
<1>2. /\ Len(old) \in Nat /\ fencingToken[j] \in Nat
      /\ \A i \in 1..Len(old) : old[i].by \in Nat
  BY LogTypes
<1>3. /\ Len(new) \in Nat /\ fencingToken'[j] \in Nat
      /\ \A i \in 1..Len(new) : new[i].by \in Nat
  <2>1. new \in Seq(Event) /\ fencingToken'[j] \in Nat
    BY MaxFenceAssumption DEF TypeOK
  <2>2. Len(new) \in Nat /\ \A i \in 1..Len(new) : new[i] \in Event
    BY <2>1
  <2> QED BY <2>1, <2>2, MaxFenceAssumption DEF Event
<1>4. \A i \in 1..Len(old) : old[i].by <= fencingToken'[j]
  BY <1>1, <1>2, <1>3 DEF LogByKnownClaims, LogStep
<1>5. \A i, k \in 1..Len(old) :
         i < k /\ old[k].by # 0 => old[i].by <= old[k].by
  BY DEF LogFollowsClaims
<1>6. CASE LogKept(j)
  BY <1>4, <1>5, <1>6 DEF LogKept
<1>7. CASE LogExtended(j)
  <2>1. PICK t \in {0, fencingToken'[j]} :
          /\ Len(new) > Len(old)
          /\ \A i \in 1..Len(old) : new[i] = old[i]
          /\ \A i \in (Len(old) + 1)..Len(new) : new[i].by = t
    BY <1>7 DEF LogExtended, LogGrows
  <2> HIDE DEF old, new
  <2>2. ASSUME NEW i \in 1..Len(new)
        PROVE  new[i].by <= fencingToken'[j]
    <3>1. CASE i \in 1..Len(old)
      BY <1>4, <2>1, <3>1
    <3>2. CASE i \in (Len(old) + 1)..Len(new)
      BY <1>3, <2>1, <3>2
    <3> QED BY <1>2, <1>3, <3>1, <3>2
  <2>3. ASSUME NEW i \in 1..Len(new), NEW k \in 1..Len(new), i < k, new[k].by # 0
        PROVE  new[i].by <= new[k].by
    <3>1. CASE k \in 1..Len(old)
      <4>1. i \in 1..Len(old)
        BY <1>2, <2>3, <3>1
      <4> QED BY <1>5, <2>1, <2>3, <3>1, <4>1
    <3>2. CASE k \in (Len(old) + 1)..Len(new)
      <4>1. new[k].by = fencingToken'[j]
        BY <2>1, <2>3, <3>2
      <4> QED BY <2>2, <4>1
    <3> QED BY <1>2, <1>3, <3>1, <3>2
  <2> QED BY <2>2, <2>3 DEF new
<1> QED BY <1>1, <1>6, <1>7 DEF LogStep

\* No step appends to a log whose last event is terminal.
LEMMA TerminalEventStep ==
  ASSUME TypeOK, TypeOK', TerminalEventClosesLog, Next
  PROVE  TerminalEventClosesLog'
<1> SUFFICES ASSUME NEW j \in Jobs, NEW i \in 1..Len(events'[j]),
                    events'[j][i].st \in Terminal
             PROVE  i = Len(events'[j]) /\ status'[j] = events'[j][i].st
  BY DEF TerminalEventClosesLog
<1> DEFINE old == events[j]
           new == events'[j]
<1>1. LogStep(j)
  BY LogSteps
<1>2. Len(old) \in Nat /\ Len(new) \in Nat
  BY LogTypes DEF TypeOK
<1>3. \A k \in 1..Len(old) : old[k].st \in Terminal =>
        k = Len(old) /\ status[j] = old[k].st
  BY DEF TerminalEventClosesLog
<1>4. CASE LogKept(j)
  BY <1>3, <1>4 DEF LogKept, Terminal
<1>5. CASE LogExtended(j)
  <2>1. PICK st :
          /\ status[j] \notin Terminal
          /\ Len(new) > Len(old)
          /\ \A k \in 1..Len(old) : new[k] = old[k]
          /\ \A k \in (Len(old) + 1)..Len(new) :
               new[k].st = IF k = Len(new) THEN st ELSE "NONE"
          /\ st # "NONE" => status'[j] = st
    BY <1>5 DEF LogExtended, LogGrows
  <2>2. i \in (Len(old) + 1)..Len(new)
    BY <1>2, <1>3, <2>1
  <2> QED BY <2>1, <2>2 DEF Terminal
<1> QED BY <1>1, <1>4, <1>5 DEF LogStep

\* Every step that changes the status logs it, up to the exceptions that
\* LogExplains names.
LEMMA LogExplainsStep ==
  ASSUME TypeOK, TypeOK', LogExplainsStatus, Next
  PROVE  LogExplainsStatus'
<1> SUFFICES ASSUME NEW j \in Jobs, status'[j] # "ABSENT"
             PROVE  \E i \in 1..Len(events'[j]) :
                      /\ events'[j][i].st # "NONE"
                      /\ \A k \in (i + 1)..Len(events'[j]) : events'[j][k].st = "NONE"
                      /\ LogExplains(events'[j][i].st, status'[j])
  BY DEF LogExplainsStatus
<1> DEFINE old == events[j]
           new == events'[j]
<1>1. LogStep(j)
  BY LogSteps
<1>2. Len(old) \in Nat /\ Len(new) \in Nat
  BY LogTypes DEF TypeOK
<1>3. status[j] # "ABSENT" =>
        \E i \in 1..Len(old) :
          /\ old[i].st # "NONE"
          /\ \A k \in (i + 1)..Len(old) : old[k].st = "NONE"
          /\ LogExplains(old[i].st, status[j])
  BY DEF LogExplainsStatus
<1>4. CASE LogKept(j)
  <2>1. status[j] # "ABSENT"
    BY <1>4 DEF LogKept
  <2> QED BY <1>3, <1>4, <2>1 DEF LogKept, LogExplains
<1>5. CASE LogExtended(j)
  <2>1. PICK st \in WorkflowStatus \cup {"NONE"} :
          /\ Len(new) > Len(old)
          /\ \A k \in 1..Len(old) : new[k] = old[k]
          /\ \A k \in (Len(old) + 1)..Len(new) :
               new[k].st = IF k = Len(new) THEN st ELSE "NONE"
          /\ st # "NONE" => status'[j] = st
          /\ st = "NONE" => /\ status[j] = "RUNNING"
                            /\ status'[j] \in {"RUNNING", "REVISION_REQUIRED"}
    BY <1>5 DEF LogExtended, LogGrows
  <2>2. CASE st # "NONE"
    <3>1. /\ Len(new) \in 1..Len(new)
          /\ new[Len(new)].st = st
          /\ \A k \in (Len(new) + 1)..Len(new) : new[k].st = "NONE"
      BY <1>2, <2>1
    <3> QED BY <2>1, <2>2, <3>1 DEF LogExplains
  <2>3. CASE st = "NONE"
    <3>1. PICK i \in 1..Len(old) :
            /\ old[i].st # "NONE"
            /\ \A k \in (i + 1)..Len(old) : old[k].st = "NONE"
            /\ LogExplains(old[i].st, status[j])
      BY <1>3, <2>1, <2>3
    <3>2. i \in 1..Len(new) /\ new[i] = old[i]
      BY <1>2, <2>1
    <3>3. ASSUME NEW k \in (i + 1)..Len(new)
          PROVE  new[k].st = "NONE"
      <4>1. CASE k \in (i + 1)..Len(old)
        BY <2>1, <3>1, <4>1
      <4>2. CASE k \in (Len(old) + 1)..Len(new)
        BY <2>1, <2>3, <4>2
      <4> QED BY <1>2, <4>1, <4>2
    <3>4. LogExplains(old[i].st, status'[j])
      BY <2>1, <2>3, <3>1 DEF LogExplains
    <3> QED BY <3>1, <3>2, <3>3, <3>4
  <2> QED BY <2>2, <2>3
<1> QED BY <1>1, <1>4, <1>5 DEF LogStep

-----------------------------------------------------------------------------
\* The invariant is inductive.
THEOREM Invariance == Spec => []IInv
<1>1. IInv /\ [Next]_vars => IInv'
  <2> SUFFICES ASSUME IInv, [Next]_vars
               PROVE  IInv'
    OBVIOUS
  <2>1. CASE UNCHANGED vars
    BY <2>1
    DEF IInv, vars, rowVars, runVars, leaseVars, TypeOK, RowConsistent,
        TokensIdentifyRuns, LogByKnownClaims, LogFollowsClaims,
        TerminalEventClosesLog, LogExplainsStatus
  <2>2. CASE Next
    <3>1. TypeOK'
      BY <2>2, TypeRow, TypeRun DEF Next, IInv
    <3> QED
      BY <2>2, <3>1, RowConsistentStep, TokensStep, LogClaimsStep,
         TerminalEventStep, LogExplainsStep DEF IInv
  <2> QED BY <2>1, <2>2
<1> QED BY InvInit, <1>1, PTL DEF Spec

\* At most one run of a job passes assertFence, for any number of workers,
\* expiries and re-claims.
THEOREM MutualExclusion == Spec => []OneFencedRun
<1>1. IInv => OneFencedRun
  BY DEF IInv, TokensIdentifyRuns, OneFencedRun, Fenced, Idle
<1> QED BY <1>1, Invariance, PTL

\* A superseded run never appends to the log after its successor has.
THEOREM FencedLog == Spec => []LogFollowsClaims
<1>1. IInv => LogFollowsClaims
  BY DEF IInv
<1> QED BY <1>1, Invariance, PTL

\* Nothing follows the event that announces the end of a job.
THEOREM ClosedLog == Spec => []TerminalEventClosesLog
<1>1. IInv => TerminalEventClosesLog
  BY DEF IInv
<1> QED BY <1>1, Invariance, PTL

\* The event log explains the row's status, up to approval and revision.
THEOREM ExplainedStatus == Spec => []LogExplainsStatus
<1>1. IInv => LogExplainsStatus
  BY DEF IInv
<1> QED BY <1>1, Invariance, PTL

\* Lease, completion and cancellation columns always fit the status.
THEOREM ConsistentRows == Spec => []RowConsistent
<1>1. IInv => RowConsistent
  BY DEF IInv
<1> QED BY <1>1, Invariance, PTL

-----------------------------------------------------------------------------
(* Finality and the implementation of JobLifecycle.                        *)

\* Only the commit transaction of a fenced run writes a receipt, and no
\* other column of the row moves with it.
LEMMA ReceiptStep ==
  ASSUME TypeOK, Next, NEW j \in Jobs
  PROVE  \/ receipt'[j] = receipt[j]
         \/ /\ status[j] = "RUNNING"
            /\ receipt[j] = 0
            /\ receipt'[j] # 0
            /\ status' = status
            /\ \A q \in Jobs \ {j} : receipt'[q] = receipt[q]
<1>1. ASSUME NEW q \in Jobs, RowStep(q)
      PROVE  receipt' = receipt
  BY <1>1 DEF RowStep, Create, Cancel, ResumeMaterial, Approve, LeaseExpires
<1>2. ASSUME NEW r \in Runs, RunStep(r), ~Publish(r)
      PROVE  receipt' = receipt
  <2>1. Settles(r) => receipt' = receipt
    BY SettleShape DEF Settle
  <2> QED BY <1>2, <2>1 DEF RunStep, Settles, Claim, MonitorPoll,
        PersistProgress, Abandon, rowVars
<1>3. ASSUME NEW r \in Runs, Publish(r)
      PROVE  \/ receipt'[j] = receipt[j]
             \/ /\ status[j] = "RUNNING"
                /\ receipt[j] = 0
                /\ receipt'[j] # 0
                /\ status' = status
                /\ \A q \in Jobs \ {j} : receipt'[q] = receipt[q]
  BY <1>3 DEF Publish, Fenced, Idle, TypeOK
<1> QED BY <1>1, <1>2, <1>3 DEF Next

\* Once a job has succeeded, failed or been stopped, its status, log and
\* artifact never change again.
THEOREM Finality == Spec => TerminalIsFinal
<1>1. TypeOK /\ [Next]_vars =>
        [\A j \in Jobs : status[j] \in Terminal =>
           /\ status'[j] = status[j]
           /\ events'[j] = events[j]
           /\ receipt'[j] = receipt[j]]_vars
  <2> SUFFICES ASSUME TypeOK, Next, NEW j \in Jobs, status[j] \in Terminal
               PROVE  /\ status'[j] = status[j]
                      /\ events'[j] = events[j]
                      /\ receipt'[j] = receipt[j]
    OBVIOUS
  <2>1. LogKept(j)
    BY LogSteps DEF LogStep, LogExtended
  <2>2. status'[j] = status[j] /\ events'[j] = events[j]
    BY <2>1 DEF LogKept, Terminal
  <2>3. receipt'[j] = receipt[j]
    BY ReceiptStep DEF Terminal
  <2> QED BY <2>2, <2>3
<1> QED BY <1>1, TypeCorrect, PTL DEF Spec, TerminalIsFinal

\* A handler moves the status along ALLOWED_TRANSITIONS or leaves it.
LEMMA StatusStepRow ==
  ASSUME TypeOK, NEW j \in Jobs, RowStep(j)
  PROVE  /\ receipt' = receipt
         /\ \/ status' = status
            \/ status[j] = "ABSENT" /\ status' = [status EXCEPT ![j] = "QUEUED"]
            \/ \E s \in Lifecycle!AllowedTransitions(status[j]) :
                 status' = [status EXCEPT ![j] = s]
<1>1. receipt' = receipt
  BY DEF RowStep, Create, Cancel, ResumeMaterial, Approve, LeaseExpires
<1>2. CASE Create(j)
  BY <1>1, <1>2 DEF Create
<1>3. CASE Cancel(j)
  <2>1. status[j] \in {"QUEUED", "RUNNING", "REVISION_REQUIRED",
                       "WAITING_APPROVAL", "WAITING_MATERIAL"}
    BY <1>3 DEF Cancel, Cancellable, TypeOK, WorkflowStatus, Terminal
  <2>2. "STOPPED" \in Lifecycle!AllowedTransitions(status[j])
    BY <2>1 DEF Lifecycle!AllowedTransitions
  <2> QED BY <1>1, <1>3, <2>2 DEF Cancel
<1>4. CASE ResumeMaterial(j) \/ Approve(j)
  <2>1. "QUEUED" \in Lifecycle!AllowedTransitions(status[j])
    BY <1>4 DEF ResumeMaterial, Approve, Lifecycle!AllowedTransitions
  <2> QED BY <1>1, <1>4, <2>1 DEF ResumeMaterial, Approve
<1>5. CASE LeaseExpires(j)
  BY <1>1, <1>5 DEF LeaseExpires
<1> QED BY <1>2, <1>3, <1>4, <1>5 DEF RowStep

\* A run moves the status along ALLOWED_TRANSITIONS without publishing, or
\* leaves it.
LEMMA StatusStepRun ==
  ASSUME TypeOK, NEW r \in Runs, RunStep(r)
  PROVE  \/ status' = status
         \/ /\ receipt' = receipt
            /\ \E j \in Jobs : \E s \in Lifecycle!AllowedTransitions(status[j]) :
                 status' = [status EXCEPT ![j] = s]
<1>1. ASSUME NEW j \in Jobs, Claim(r, j)
      PROVE  \/ status' = status
             \/ /\ receipt' = receipt
                /\ \E s \in Lifecycle!AllowedTransitions(status[j]) :
                     status' = [status EXCEPT ![j] = s]
  <2>1. receipt' = receipt /\ status' = [status EXCEPT ![j] = "RUNNING"]
    BY <1>1 DEF Claim
  <2>2. CASE status[j] = "RUNNING"
    BY <2>1, <2>2 DEF TypeOK
  <2>3. CASE status[j] \in {"QUEUED", "REVISION_REQUIRED"}
    <3>1. "RUNNING" \in Lifecycle!AllowedTransitions(status[j])
      BY <2>3 DEF Lifecycle!AllowedTransitions
    <3> QED BY <2>1, <3>1
  <2> QED BY <1>1, <2>2, <2>3 DEF Claim, Claimable
<1>2. CASE Settles(r)
  <2>1. PICK s \in Outcomes, ev \in Seq(Event) : Settle(r, s, ev)
    BY <1>2, SettleShape
  <2>2. /\ target[r] \in Jobs
        /\ status[target[r]] = "RUNNING"
        /\ status' = [status EXCEPT ![target[r]] = s]
        /\ receipt' = receipt
    BY <1>2, <2>1, SettleShape DEF Settle, Fenced
  <2>3. s \in Lifecycle!AllowedTransitions(status[target[r]])
    BY <2>2 DEF Lifecycle!AllowedTransitions, Outcomes
  <2> QED BY <2>2, <2>3
<1>3. CASE \/ MonitorPoll(r) \/ Publish(r) \/ Abandon(r)
           \/ \E k \in Kinds, d \in Payloads : PersistProgress(r, k, d)
  BY <1>3 DEF MonitorPoll, Publish, Abandon, PersistProgress, rowVars
<1> QED BY <1>1, <1>2, <1>3 DEF RunStep, Settles

\* Every step of the store is a step of JobLifecycle or stutters.
LEMMA LifecycleStep ==
  ASSUME TypeOK, Next
  PROVE  Lifecycle!Next \/ UNCHANGED Lifecycle!vars
<1> DEFINE pub == [j \in Jobs |-> receipt[j] # 0]
           pub1 == [j \in Jobs |-> receipt'[j] # 0]
<1>1. ASSUME NEW j \in Jobs, RowStep(j)
      PROVE  Lifecycle!Next \/ UNCHANGED Lifecycle!vars
  BY <1>1, StatusStepRow
  DEF Lifecycle!Next, Lifecycle!vars, Lifecycle!Create, Lifecycle!Transition
<1>2. ASSUME NEW r \in Runs, RunStep(r)
      PROVE  Lifecycle!Next \/ UNCHANGED Lifecycle!vars
  <2>1. CASE \A q \in Jobs : receipt'[q] = receipt[q]
    <3>1. UNCHANGED [j \in Jobs |-> receipt[j] # 0]
      BY <2>1
    <3> QED BY <1>2, <3>1, StatusStepRun
        DEF Lifecycle!Next, Lifecycle!vars, Lifecycle!Transition
  <2>2. ASSUME NEW j \in Jobs, receipt'[j] # receipt[j]
        PROVE  Lifecycle!Next
    <3>1. /\ status[j] = "RUNNING" /\ receipt[j] = 0 /\ receipt'[j] # 0
          /\ status' = status
          /\ \A q \in Jobs \ {j} : receipt'[q] = receipt[q]
      BY <2>2, ReceiptStep
    <3>2. pub1 = [pub EXCEPT ![j] = TRUE]
      BY <3>1
    <3>3. pub[j] = FALSE
      BY <3>1
    <3> QED BY <3>1, <3>2, <3>3 DEF Lifecycle!Next, Lifecycle!Publish
  <2> QED BY <2>1, <2>2
<1> QED BY <1>1, <1>2 DEF Next

\* The raw status writes of the execution store, together with the handlers,
\* implement the transition table and publish at most one artifact per job,
\* only while the job is RUNNING.
THEOREM Implementation == Spec => LifecycleSpec
<1>1. Init => Lifecycle!Init
  BY DEF Init, Lifecycle!Init
<1>2. TypeOK /\ [Next]_vars => [Lifecycle!Next]_(Lifecycle!vars)
  <2> SUFFICES ASSUME TypeOK, [Next]_vars
               PROVE  Lifecycle!Next \/ UNCHANGED Lifecycle!vars
    OBVIOUS
  <2>1. CASE UNCHANGED vars
    BY <2>1 DEF vars, rowVars, Lifecycle!vars
  <2> QED BY <2>1, LifecycleStep
<1> QED BY <1>1, <1>2, TypeCorrect, PTL DEF Spec, LifecycleSpec, Lifecycle!Spec
-----------------------------------------------------------------------------
(* Who is still fenced after a step of the store.                          *)

\* What an HTTP handler or the clock does to a job, no run of it survives.
LEMMA RowFence ==
  ASSUME TypeOK, NEW j \in Jobs, RowStep(j), NEW q \in Runs, Fenced(q)'
  PROVE  Fenced(q) /\ target[q] # j
<1> USE DEF Fenced, Idle, TypeOK, runVars
<1>1. CASE Create(j)
  BY <1>1 DEF Create, leaseVars
<1>2. CASE Cancel(j)
  BY <1>2 DEF Cancel, ClearLease
<1>3. CASE ResumeMaterial(j)
  BY <1>3 DEF ResumeMaterial, ClearLease
<1>4. CASE Approve(j)
  BY <1>4 DEF Approve, ClearLease
<1>5. CASE LeaseExpires(j)
  BY <1>5 DEF LeaseExpires
<1> QED BY <1>1, <1>2, <1>3, <1>4, <1>5 DEF RowStep

\* A claim takes the fence from every other run of the job.
LEMMA ClaimFence ==
  ASSUME TypeOK, TokensIdentifyRuns, NEW r \in Runs, NEW j \in Jobs, Claim(r, j),
         NEW q \in Runs \ {r}, Fenced(q)'
  PROVE  Fenced(q) /\ target[q] # j
<1>1. /\ token'[q] = token[q] /\ target'[q] = target[q]
      /\ fencingToken' = [fencingToken EXCEPT ![j] = fencingToken[j] + 1]
      /\ leaseToken' = [leaseToken EXCEPT ![j] = fencingToken[j] + 1]
      /\ leaseLive' = [leaseLive EXCEPT ![j] = TRUE]
      /\ status' = [status EXCEPT ![j] = "RUNNING"]
      /\ cancelRequested' = cancelRequested
  BY DEF Claim, TypeOK
<1>2. token[q] \in Nat /\ fencingToken[j] \in Nat /\ (token[q] # 0 => target[q] \in Jobs)
  BY MaxFenceAssumption DEF TypeOK
<1>3. target[q] = j /\ token[q] # 0 => token[q] # fencingToken[j] + 1
  BY <1>2 DEF TokensIdentifyRuns
<1> QED BY <1>1, <1>2, <1>3 DEF Fenced, Idle, TypeOK

\* Two fenced runs work on two jobs.
LEMMA FencedApart ==
  ASSUME TokensIdentifyRuns, NEW r \in Runs, NEW q \in Runs, q # r, Fenced(r), Fenced(q)
  PROVE  target[q] # target[r]
  BY DEF TokensIdentifyRuns, Fenced, Idle

\* A fenced run works on a RUNNING job.
LEMMA FencedTarget ==
  ASSUME TypeOK, NEW r \in Runs, Fenced(r)
  PROVE  /\ ~Idle(r)
         /\ target[r] \in Jobs /\ token[r] \in 1..MaxFence
         /\ status[target[r]] = "RUNNING"
  BY MaxFenceAssumption DEF TypeOK, Fenced, Idle

\* The rows of workflow_jobs are left alone.
LEMMA QuietFence ==
  ASSUME UNCHANGED <<status, cancelRequested, leaseVars, runVars>>,
         NEW q \in Runs
  PROVE  Fenced(q)' <=> Fenced(q)
  BY DEF Fenced, Idle, leaseVars, runVars

\* A settling run leaves the lease columns of other jobs alone.
LEMMA SettleFence ==
  ASSUME TypeOK, TokensIdentifyRuns, NEW r \in Runs, NEW s, NEW ev, Settle(r, s, ev),
         NEW q \in Runs \ {r}, Fenced(q)'
  PROVE  Fenced(q) /\ target[q] # target[r]
<1>1. /\ Fenced(r) /\ target[r] \in Jobs
      /\ token'[q] = token[q] /\ target'[q] = target[q] /\ token[q] # 0
      /\ fencingToken' = fencingToken /\ cancelRequested' = cancelRequested
      /\ leaseToken' = [leaseToken EXCEPT ![target[r]] = 0]
      /\ leaseLive' = [leaseLive EXCEPT ![target[r]] = FALSE]
      /\ status' = [status EXCEPT ![target[r]] = s]
  BY FencedTarget DEF Settle, EndRun, ClearLease, TypeOK, Fenced, Idle
<1>2. target[q] # target[r]
  BY <1>1 DEF Fenced, TypeOK
<1> QED BY <1>1, <1>2 DEF Fenced, Idle, TypeOK
=============================================================================
