--------------------------- MODULE DispatchProofs ---------------------------
(***************************************************************************)
(* Proofs about the dispatchers: between scans the recovery dispatcher     *)
(* leaves nothing pending, during one it awaits at most MaxConcurrency     *)
(* adds, and an entry whose run holds the lease is the one Bull runs.      *)
(***************************************************************************)
EXTENDS Dispatch, FiniteSetTheorems, TLAPS

-----------------------------------------------------------------------------
Awaited == {i \in Jobs : waiting["worker"][i]}

\* RECOVERY_CONCURRENCY bounds the dispatches a scan awaits at a time.
ScansAreBounded == Cardinality(Awaited) <= MaxConcurrency

\* Only the run of an active entry holds a lease, and the row says so.
HeldIsLeased ==
  \A j \in Jobs : held[j] => row[j] = "leased" /\ bull[j] = "running"

DispatchInv == TypeOK /\ ScansLeaveNothingPending /\ ScansAreBounded /\ HeldIsLeased

\* The jobs are finitely many, and so are those a dispatch is awaited for.
LEMMA AwaitedIsFinite == IsFiniteSet(Awaited) /\ Cardinality(Awaited) \in Nat
  <1>1. IsFiniteSet(Jobs)
    BY FS_Interval, BoundsAssumption DEF Jobs
  <1> QED  BY <1>1, FS_Subset, FS_CardinalityType DEF Awaited

\* Awaiting fewer dispatches keeps the bound.
LEMMA AwaitingLess ==
  ASSUME ScansAreBounded, Awaited' \subseteq Awaited
  PROVE  ScansAreBounded'
  <1>1. IsFiniteSet(Awaited)
    BY AwaitedIsFinite
  <1>2. IsFiniteSet(Awaited') /\ Cardinality(Awaited') <= Cardinality(Awaited)
    BY <1>1, FS_Subset
  <1>3. Cardinality(Awaited') \in Nat /\ Cardinality(Awaited) \in Nat
    BY <1>1, <1>2, FS_CardinalityType
  <1> QED  BY <1>2, <1>3, LimitAssumption DEF ScansAreBounded

\* dispatch() marks one delivery of one process as awaited.
LEMMA DispatchTypes ==
  ASSUME TypeOK, NEW p \in Processes, NEW j \in Jobs, Dispatch(p, j)
  PROVE  /\ delivery' \in [Processes -> [Jobs -> {"none", "sent", "hung"}]]
         /\ waiting' \in [Processes -> [Jobs -> BOOLEAN]]
         /\ faults' \in 0..MaxFaults
         /\ \A q \in Processes, i \in Jobs : waiting'[q][i] <=> delivery'[q][i] # "none"
         /\ \A q \in Processes, i \in Jobs :
              q # p \/ i # j => /\ delivery'[q][i] = delivery[q][i]
                                /\ waiting'[q][i] = waiting[q][i]
  <1>1. \E d \in {"none", "sent", "hung"} :
          /\ delivery' = [delivery EXCEPT ![p][j] = d] /\ d # "none"
          /\ waiting' = [waiting EXCEPT ![p][j] = TRUE]
    <2>1. CASE delivery[p][j] # "none" /\ UNCHANGED delivery
      <3>1. delivery' = [delivery EXCEPT ![p][j] = delivery[p][j]]
        BY <2>1 DEF TypeOK
      <3>2. delivery[p][j] \in {"none", "sent", "hung"}
        BY DEF TypeOK
      <3> QED  BY <2>1, <3>1, <3>2 DEF Dispatch
    <2> QED  BY <2>1 DEF Dispatch
  <1>2. PICK d \in {"none", "sent", "hung"} :
          /\ delivery' = [delivery EXCEPT ![p][j] = d] /\ d # "none"
          /\ waiting' = [waiting EXCEPT ![p][j] = TRUE]
    BY <1>1
  <1>3. faults' \in 0..MaxFaults
    BY BoundsAssumption DEF Dispatch, Fault, TypeOK
  <1>4. /\ delivery' \in [Processes -> [Jobs -> {"none", "sent", "hung"}]]
        /\ waiting' \in [Processes -> [Jobs -> BOOLEAN]]
    BY <1>2 DEF TypeOK
  <1>5. \A q \in Processes, i \in Jobs :
          /\ delivery'[q][i] = IF q = p /\ i = j THEN d ELSE delivery[q][i]
          /\ waiting'[q][i] = IF q = p /\ i = j THEN TRUE ELSE waiting[q][i]
    BY <1>2 DEF TypeOK
  <1>6. ASSUME NEW q \in Processes, NEW i \in Jobs
        PROVE  /\ waiting'[q][i] <=> delivery'[q][i] # "none"
               /\ q # p \/ i # j => /\ delivery'[q][i] = delivery[q][i]
                                    /\ waiting'[q][i] = waiting[q][i]
    <2>1. CASE q = p /\ i = j
      BY <1>2, <1>5, <2>1
    <2>2. CASE ~(q = p /\ i = j)
      <3>1. waiting'[q][i] = waiting[q][i] /\ delivery'[q][i] = delivery[q][i]
        BY <1>5, <2>2
      <3>2. waiting[q][i] <=> delivery[q][i] # "none"
        BY DEF TypeOK
      <3> QED  BY <3>1, <3>2
    <2> QED  BY <2>1, <2>2
  <1> QED  BY <1>3, <1>4, <1>6

\* The end of a delivery, however it ends
LEMMA ReturnTypes ==
  ASSUME TypeOK, NEW p \in Processes, NEW j \in Jobs, Return(p, j)
  PROVE  /\ delivery' \in [Processes -> [Jobs -> {"none", "sent", "hung"}]]
         /\ waiting' \in [Processes -> [Jobs -> BOOLEAN]]
         /\ \A q \in Processes, i \in Jobs : waiting'[q][i] <=> delivery'[q][i] # "none"
         /\ \A q \in Processes, i \in Jobs :
              delivery'[q][i] = "none" \/ delivery'[q][i] = delivery[q][i]
         /\ \A q \in Processes, i \in Jobs : waiting'[q][i] => waiting[q][i]
  <1>1. /\ delivery' \in [Processes -> [Jobs -> {"none", "sent", "hung"}]]
        /\ waiting' \in [Processes -> [Jobs -> BOOLEAN]]
    BY DEF Return, TypeOK
  <1>2. \A q \in Processes, i \in Jobs :
          /\ delivery'[q][i] = IF q = p /\ i = j THEN "none" ELSE delivery[q][i]
          /\ waiting'[q][i] = IF q = p /\ i = j THEN FALSE ELSE waiting[q][i]
    BY DEF Return, TypeOK
  <1>3. ASSUME NEW q \in Processes, NEW i \in Jobs
        PROVE  /\ waiting'[q][i] <=> delivery'[q][i] # "none"
               /\ delivery'[q][i] = "none" \/ delivery'[q][i] = delivery[q][i]
               /\ waiting'[q][i] => waiting[q][i]
    <2>1. CASE q = p /\ i = j
      BY <1>2, <2>1
    <2>2. CASE ~(q = p /\ i = j)
      <3>1. waiting'[q][i] = waiting[q][i] /\ delivery'[q][i] = delivery[q][i]
        BY <1>2, <2>2
      <3>2. waiting[q][i] <=> delivery[q][i] # "none"
        BY DEF TypeOK
      <3> QED  BY <3>1, <3>2
    <2> QED  BY <2>1, <2>2
  <1> QED  BY <1>1, <1>3

-----------------------------------------------------------------------------
\* Nothing has been admitted, dispatched or delivered.
LEMMA Initially ==
  ASSUME Init
  PROVE  DispatchInv
  <1>1. TypeOK
    <2>1. /\ delivery \in [Processes -> [Jobs -> {"none", "sent", "hung"}]]
          /\ waiting \in [Processes -> [Jobs -> BOOLEAN]]
          /\ \A p \in Processes, j \in Jobs : ~waiting[p][j] /\ delivery[p][j] = "none"
      BY DEF Init
    <2>2. /\ row \in [Jobs -> RowStates] /\ bull \in [Jobs -> BullStates]
          /\ held \in [Jobs -> BOOLEAN] /\ late \in [Jobs -> BOOLEAN]
          /\ backoff \in [Jobs -> BOOLEAN] /\ scanning \in BOOLEAN /\ scan \subseteq Jobs
      BY DEF Init, RowStates, BullStates
    <2>3. faults \in 0..MaxFaults
      BY BoundsAssumption DEF Init
    <2> QED  BY <2>1, <2>2, <2>3 DEF TypeOK
  <1>2. Awaited = {}
    BY DEF Init, Awaited, Processes
  <1>3. ScansAreBounded
    BY <1>2, FS_EmptySet, LimitAssumption DEF ScansAreBounded
  <1>4. ScansLeaveNothingPending /\ HeldIsLeased
    BY DEF Init, ScansLeaveNothingPending, HeldIsLeased, Processes
  <1> QED  BY <1>1, <1>3, <1>4 DEF DispatchInv

\* The API's requests
LEMMA RequestsKeep ==
  ASSUME DispatchInv, NEW j \in Jobs, Admit(j) \/ AdmitAgain(j)
  PROVE  DispatchInv'
  <1> USE DEF DispatchInv
  <1>0. "api" \in Processes /\ "worker" \in Processes /\ "claimable" \in RowStates
    BY DEF Processes, RowStates
  <1>1. /\ UNCHANGED <<bull, held, scanVars, late>>
        /\ \/ row' = row
           \/ /\ row' = [row EXCEPT ![j] = "claimable"]
              /\ row[j] # "leased"
        /\ \/ Dispatch("api", j)
           \/ UNCHANGED callVars /\ Fault
    BY DEF Admit, AdmitAgain, rowVars, callVars, Dispatch
  <1>2. /\ delivery' \in [Processes -> [Jobs -> {"none", "sent", "hung"}]]
        /\ waiting' \in [Processes -> [Jobs -> BOOLEAN]]
        /\ faults' \in 0..MaxFaults
        /\ \A q \in Processes, i \in Jobs : waiting'[q][i] <=> delivery'[q][i] # "none"
        /\ \A i \in Jobs : /\ delivery'["worker"][i] = delivery["worker"][i]
                           /\ waiting'["worker"][i] = waiting["worker"][i]
    <2>1. CASE Dispatch("api", j)
      BY <1>0, <2>1, DispatchTypes
    <2>2. CASE UNCHANGED callVars /\ Fault
      BY <2>2, BoundsAssumption DEF callVars, Fault, TypeOK
    <2> QED  BY <1>1, <2>1, <2>2
  <1>3. row' \in [Jobs -> RowStates]
    BY <1>0, <1>1 DEF TypeOK
  <1>4. TypeOK'
    BY <1>1, <1>2, <1>3 DEF TypeOK, scanVars
  <1>5. Awaited' = Awaited
    BY <1>2 DEF Awaited
  <1>6. ScansLeaveNothingPending'
    BY <1>1, <1>2 DEF ScansLeaveNothingPending, scanVars
  <1>7. \A i \in Jobs : row'[i] = row[i] \/ row[i] # "leased"
    BY <1>1 DEF TypeOK
  <1>8. HeldIsLeased'
    BY <1>1, <1>7 DEF HeldIsLeased
  <1> QED  BY <1>4, <1>5, <1>6, <1>8, AwaitingLess

\* An add is answered, refused or given up.
LEMMA CallsKeep ==
  ASSUME DispatchInv, NEW p \in Processes, NEW j \in Jobs, CallStep(p, j) \/ Refused(p, j)
  PROVE  DispatchInv'
  <1> USE DEF DispatchInv
  <1>0. "worker" \in Processes
    BY DEF Processes
  <1>1. /\ Return(p, j) /\ UNCHANGED <<row, held, scanning, scan>>
        /\ AddEntry(j) \/ UNCHANGED bull
        /\ \E b \in BOOLEAN : SetBackoff(p, j, b)
        /\ late' = [late EXCEPT ![j] = TRUE] \/ UNCHANGED late
        /\ Fault \/ UNCHANGED faults
    BY DEF CallStep, Acknowledged, TimedOut, Refused, rowVars
  <1>2. /\ delivery' \in [Processes -> [Jobs -> {"none", "sent", "hung"}]]
        /\ waiting' \in [Processes -> [Jobs -> BOOLEAN]]
        /\ \A q \in Processes, i \in Jobs : waiting'[q][i] <=> delivery'[q][i] # "none"
        /\ \A q \in Processes, i \in Jobs :
             delivery'[q][i] = "none" \/ delivery'[q][i] = delivery[q][i]
        /\ \A q \in Processes, i \in Jobs : waiting'[q][i] => waiting[q][i]
    BY <1>1, ReturnTypes
  <1>3. /\ bull' \in [Jobs -> BullStates]
        /\ \A i \in Jobs : bull[i] = "running" => bull'[i] = "running"
    BY <1>1 DEF AddEntry, TypeOK, BullStates
  <1>4. backoff' \in [Jobs -> BOOLEAN] /\ late' \in [Jobs -> BOOLEAN]
    BY <1>1 DEF SetBackoff, TypeOK
  <1>5. faults' \in 0..MaxFaults
    BY <1>1, BoundsAssumption DEF Fault, TypeOK
  <1>6. TypeOK'
    BY <1>1, <1>2, <1>3, <1>4, <1>5 DEF TypeOK
  <1>7. Awaited' \subseteq Awaited
    BY <1>0, <1>2 DEF Awaited
  <1>8. ScansLeaveNothingPending'
    BY <1>0, <1>1, <1>2 DEF ScansLeaveNothingPending
  <1>9. HeldIsLeased'
    BY <1>1, <1>3 DEF HeldIsLeased
  <1> QED  BY <1>6, <1>7, <1>8, <1>9, AwaitingLess

\* Bull, its handler, late adds and leases: nothing of the dispatchers changes.
LEMMA BullKeeps ==
  ASSUME DispatchInv, NEW j \in Jobs, BullStep(j) \/ LateAdd(j) \/ LeaseExpires(j)
  PROVE  DispatchInv'
  <1> USE DEF DispatchInv
  <1>1. UNCHANGED <<delivery, waiting, scanVars>>
    BY DEF BullStep, LateAdd, LeaseExpires, Deliver, RunClaim, RunEnds, Remove, StalledCheck,
           callVars
  <1>2. /\ Fault \/ UNCHANGED faults
        /\ late' = [late EXCEPT ![j] = FALSE] \/ UNCHANGED late
    BY DEF BullStep, LateAdd, LeaseExpires, Deliver, RunClaim, RunEnds, Remove, StalledCheck,
           callVars
  <1>3. /\ \E b \in BullStates : bull' = [bull EXCEPT ![j] = b]
        /\ \E r \in RowStates : row' = [row EXCEPT ![j] = r]
        /\ \E h \in BOOLEAN : held' = [held EXCEPT ![j] = h]
    <2>1. /\ bull = [bull EXCEPT ![j] = bull[j]] /\ bull[j] \in BullStates
          /\ row = [row EXCEPT ![j] = row[j]] /\ row[j] \in RowStates
          /\ held = [held EXCEPT ![j] = held[j]] /\ held[j] \in BOOLEAN
      BY DEF TypeOK
    <2>2. /\ {"waiting", "claiming", "running", "returned", "none"} \subseteq BullStates
          /\ {"claimable", "leased", "over", "paused"} \subseteq RowStates
      BY DEF BullStates, RowStates
    <2>3. CASE Deliver(j) \/ Remove(j)
      BY <2>1, <2>2, <2>3 DEF Deliver, Remove, rowVars
    <2>4. CASE RunClaim(j)
      BY <2>1, <2>2, <2>4 DEF RunClaim, rowVars
    <2>5. CASE RunEnds(j)
      BY <2>1, <2>2, <2>5 DEF RunEnds
    <2>6. CASE StalledCheck(j)
      BY <2>1, <2>2, <2>6 DEF StalledCheck, rowVars
    <2>7. CASE LateAdd(j)
      <3>1. \E b \in BullStates : bull' = [bull EXCEPT ![j] = b]
        BY <2>1, <2>2, <2>7 DEF LateAdd, AddEntry
      <3> QED  BY <2>1, <2>7, <3>1 DEF LateAdd, rowVars
    <2>8. CASE LeaseExpires(j)
      BY <2>1, <2>2, <2>8 DEF LeaseExpires
    <2> QED  BY <2>3, <2>4, <2>5, <2>6, <2>7, <2>8 DEF BullStep
  <1>4. held'[j] => row'[j] = "leased" /\ bull'[j] = "running"
    <2> USE DEF HeldIsLeased, TypeOK
    <2>1. CASE Deliver(j) \/ Remove(j) \/ StalledCheck(j) \/ LateAdd(j)
      BY <2>1 DEF Deliver, Remove, StalledCheck, LateAdd, AddEntry, rowVars
    <2>2. CASE RunClaim(j)
      BY <2>2 DEF RunClaim, rowVars
    <2>3. CASE RunEnds(j) \/ LeaseExpires(j)
      BY <2>3 DEF RunEnds, LeaseExpires
    <2> QED  BY <2>1, <2>2, <2>3 DEF BullStep
  <1>5. \A i \in Jobs : i # j => /\ held'[i] = held[i] /\ row'[i] = row[i]
                                 /\ bull'[i] = bull[i]
    BY <1>3 DEF TypeOK
  <1>6. HeldIsLeased'
    BY <1>4, <1>5 DEF HeldIsLeased
  <1>7. TypeOK'
    <2>1. late' \in [Jobs -> BOOLEAN]
      BY <1>2 DEF TypeOK
    <2>3. faults' \in 0..MaxFaults
      BY <1>2, BoundsAssumption DEF Fault, TypeOK
    <2>2. /\ row' \in [Jobs -> RowStates] /\ bull' \in [Jobs -> BullStates]
          /\ held' \in [Jobs -> BOOLEAN]
      BY <1>3 DEF TypeOK
    <2> QED  BY <1>1, <2>1, <2>2, <2>3 DEF TypeOK, scanVars
  <1>8. Awaited' = Awaited
    BY <1>1 DEF Awaited
  <1>9. ScansLeaveNothingPending'
    BY <1>1 DEF ScansLeaveNothingPending, scanVars
  <1> QED  BY <1>6, <1>7, <1>8, <1>9, AwaitingLess

\* The recovery dispatcher's own steps
LEMMA ScanKeeps ==
  ASSUME DispatchInv,
         \/ ScanStart \/ ScanEnd \/ WorkerCrash
         \/ \E j \in Jobs : ScanDispatch(j) \/ BackoffEnds(j)
  PROVE  DispatchInv'
  <1> USE DEF DispatchInv
  <1>0. "worker" \in Processes
    BY DEF Processes
  <1>1. CASE ScanStart
    <2>1. TypeOK' /\ ScansLeaveNothingPending'
      BY <1>1 DEF ScanStart, TypeOK, ScansLeaveNothingPending, rowVars, callVars, Due
    <2>2. Awaited' = Awaited /\ HeldIsLeased'
      BY <1>1 DEF ScanStart, Awaited, HeldIsLeased, rowVars, callVars
    <2> QED  BY <2>1, <2>2, AwaitingLess
  <1>2. CASE ScanEnd
    <2>1. TypeOK' /\ ScansLeaveNothingPending'
      BY <1>0, <1>2 DEF ScanEnd, TypeOK, ScansLeaveNothingPending, rowVars, callVars
    <2>2. Awaited' = Awaited /\ HeldIsLeased'
      BY <1>2 DEF ScanEnd, Awaited, HeldIsLeased, rowVars, callVars
    <2> QED  BY <2>1, <2>2, AwaitingLess
  <1>3. ASSUME NEW j \in Jobs, ScanDispatch(j)
        PROVE  DispatchInv'
    <2>1. /\ UNCHANGED <<rowVars, bull, backoff, scanning, late>>
          /\ scan' = scan \ {j} /\ j \in scan
          /\ Cardinality(Awaited) < MaxConcurrency
          /\ Dispatch("worker", j)
      BY <1>3 DEF ScanDispatch, Dispatch, Awaited
    <2>2. /\ delivery' \in [Processes -> [Jobs -> {"none", "sent", "hung"}]]
          /\ waiting' \in [Processes -> [Jobs -> BOOLEAN]]
          /\ faults' \in 0..MaxFaults
          /\ \A q \in Processes, i \in Jobs : waiting'[q][i] <=> delivery'[q][i] # "none"
          /\ \A i \in Jobs : i # j => waiting'["worker"][i] = waiting["worker"][i]
      BY <1>0, <2>1, DispatchTypes
    <2>3. TypeOK'
      BY <2>1, <2>2 DEF TypeOK, rowVars
    <2>4. scanning'
      BY <2>1 DEF ScansLeaveNothingPending, TypeOK
    <2>5. Awaited' \subseteq Awaited \cup {j}
      BY <2>2 DEF Awaited
    <2>6. ScansAreBounded'
      <3>1. /\ IsFiniteSet(Awaited) /\ Cardinality(Awaited) \in Nat
            /\ IsFiniteSet(Awaited \cup {j})
            /\ Cardinality(Awaited \cup {j}) <= Cardinality(Awaited) + 1
        BY AwaitedIsFinite, FS_AddElement
      <3>2. IsFiniteSet(Awaited') /\ Cardinality(Awaited') <= Cardinality(Awaited \cup {j})
        BY <2>5, <3>1, FS_Subset
      <3>3. Cardinality(Awaited') \in Nat /\ Cardinality(Awaited \cup {j}) \in Nat
        BY <3>1, <3>2, FS_CardinalityType
      <3> QED  BY <2>1, <3>1, <3>2, <3>3, LimitAssumption DEF ScansAreBounded
    <2>7. HeldIsLeased'
      BY <2>1 DEF HeldIsLeased, rowVars
    <2> QED  BY <2>3, <2>4, <2>6, <2>7 DEF ScansLeaveNothingPending
  <1>4. ASSUME NEW j \in Jobs, BackoffEnds(j)
        PROVE  DispatchInv'
    <2>1. TypeOK' /\ ScansLeaveNothingPending'
      BY <1>4 DEF BackoffEnds, TypeOK, ScansLeaveNothingPending, rowVars, callVars
    <2>2. Awaited' = Awaited /\ HeldIsLeased'
      BY <1>4 DEF BackoffEnds, Awaited, HeldIsLeased, rowVars, callVars
    <2> QED  BY <2>1, <2>2, AwaitingLess
  <1>5. CASE WorkerCrash
    <2>1. /\ bull' \in [Jobs -> BullStates] /\ held' \in [Jobs -> BOOLEAN]
          /\ backoff' \in [Jobs -> BOOLEAN]
          /\ faults' \in 0..MaxFaults
      BY <1>5, BoundsAssumption DEF WorkerCrash, TypeOK, BullStates, Fault
    <2>2. /\ delivery' \in [Processes -> [Jobs -> {"none", "sent", "hung"}]]
          /\ waiting' \in [Processes -> [Jobs -> BOOLEAN]]
          /\ \A i \in Jobs : delivery'["worker"][i] = "none" /\ ~waiting'["worker"][i]
          /\ \A q \in Processes \ {"worker"} : /\ delivery'[q] = delivery[q]
                                               /\ waiting'[q] = waiting[q]
      BY <1>0, <1>5 DEF WorkerCrash, TypeOK
    <2>3. \A q \in Processes, i \in Jobs : waiting'[q][i] <=> delivery'[q][i] # "none"
      BY <2>2 DEF TypeOK
    <2>4. TypeOK'
      BY <1>5, <2>1, <2>2, <2>3 DEF WorkerCrash, TypeOK
    <2>5. Awaited' \subseteq Awaited
      BY <2>2 DEF Awaited
    <2>6. ScansLeaveNothingPending' /\ HeldIsLeased'
      BY <1>5, <2>2 DEF WorkerCrash, ScansLeaveNothingPending, HeldIsLeased
    <2> QED  BY <2>4, <2>5, <2>6, AwaitingLess
  <1> QED  BY <1>1, <1>2, <1>3, <1>4, <1>5

\* The invariant of the dispatchers holds of every behaviour.
THEOREM DispatchInvariance == Spec => []DispatchInv
  <1>1. Init => DispatchInv
    BY Initially
  <1>2. DispatchInv /\ [Next]_vars => DispatchInv'
    <2> SUFFICES ASSUME DispatchInv, [Next]_vars  PROVE DispatchInv'
      OBVIOUS
    <2>1. CASE \E j \in Jobs : Admit(j) \/ AdmitAgain(j)
      BY <2>1, RequestsKeep
    <2>2. CASE \E j \in Jobs : BullStep(j) \/ LateAdd(j) \/ LeaseExpires(j)
      BY <2>2, BullKeeps
    <2>3. CASE \E p \in Processes, j \in Jobs : CallStep(p, j) \/ Refused(p, j)
      BY <2>3, CallsKeep
    <2>4. CASE \/ ScanStart \/ ScanEnd \/ WorkerCrash
               \/ \E j \in Jobs : ScanDispatch(j) \/ BackoffEnds(j)
      BY <2>4, ScanKeeps
    <2>5. CASE UNCHANGED vars
      <3>1. Awaited' = Awaited
        BY <2>5 DEF Awaited, vars, callVars
      <3>2. TypeOK' /\ ScansLeaveNothingPending' /\ HeldIsLeased'
        BY <2>5 DEF vars, rowVars, callVars, scanVars, DispatchInv, TypeOK,
                    ScansLeaveNothingPending, HeldIsLeased
      <3> QED  BY <3>1, <3>2, AwaitingLess DEF DispatchInv
    <2> QED  BY <2>1, <2>2, <2>3, <2>4, <2>5 DEF Next
  <1> QED  BY <1>1, <1>2, PTL DEF Spec

\* The state of rows, queue and dispatchers stays well-formed; in particular
\* a delivery is pending exactly while it is awaited.
THEOREM TypeCorrect == Spec => []TypeOK
  <1>1. DispatchInv => TypeOK
    BY DEF DispatchInv
  <1> QED  BY <1>1, DispatchInvariance, PTL

\* Between scans nothing is left behind in the worker.
THEOREM NothingPending == Spec => []ScansLeaveNothingPending
  <1>1. DispatchInv => ScansLeaveNothingPending
    BY DEF DispatchInv
  <1> QED  BY <1>1, DispatchInvariance, PTL

\* A scan awaits at most MaxConcurrency dispatches at a time, and only the
\* run of an active Bull entry holds a lease.
THEOREM ScansBounded == Spec => [](ScansAreBounded /\ HeldIsLeased)
  <1>1. DispatchInv => ScansAreBounded /\ HeldIsLeased
    BY DEF DispatchInv
  <1> QED  BY <1>1, DispatchInvariance, PTL
=============================================================================
