----------------------------- MODULE AtomicProofs -----------------------------
(***************************************************************************)
(* Proofs about AtomicGeneration and ModelGateway, for any number of jobs, *)
(* engine runs, claims, retries, repairs and pieces of text: the executor  *)
(* implements WorkflowStore, its state is well typed, and the ledger of    *)
(* model calls is true.  AtomicTextProofs goes on from here.               *)
(***************************************************************************)
EXTENDS AtomicGeneration, WorkflowStoreProofs, FiniteSetTheorems

-----------------------------------------------------------------------------
(* AtomicGeneration implements WorkflowStore.                              *)

\* The events the executor yields are progress events of the store.
LEMMA YieldStep ==
  ASSUME NEW r \in Runs, NEW k \in AtomicKinds, NEW d \in Nat, NEW c, Yield(r, k, d, c)
  PROVE  RunStep(r)
<1>1. PersistProgress(r, k, d)
  BY DEF Yield
<1> QED BY <1>1, AtomicKindsAssumption, TokenPayloadsAssumption DEF RunStep

\* Numbers of rows and places in a text make a number.
LEMMA TokenIsNumber ==
  ASSUME NEW row \in Nat, NEW i \in Nat
  PROVE  Token(row, i) \in Nat
<1>1. MaxText \in Nat
  BY GatewayBounds
<1>2. row * (MaxText + 1) \in Nat
  BY <1>1
<1> QED BY <1>1, <1>2 DEF Token

-----------------------------------------------------------------------------
(* The types of the columns and locals.                                    *)

Traces == Jobs \X (1..MaxFence)
Keys == (Jobs \X Nat \X EvidenceSets) \cup {NoKey}

RowType == [trace : Traces, key : Keys,
            status : {"RUNNING", "SUCCEEDED", "FAILED", "CANCELLED"}]

CallType == [pc : Stages, mode : {"text", "structured"},
             trace : Traces \cup {NoTrace}, key : Keys,
             retries : 0..MaxRetries, repairs : 0..MaxRepairs,
             row : Nat, text : 0..MaxText, err : Errors]

CandidateType == [row : Nat, evidence : EvidenceSets]

CheckpointType == [phase : Phases, attempt : Nat, candidate : CandidateType,
                   emitted : 0..MaxText, base : EvidenceSets, key : Keys]

AssignmentType == [revision : -1..1, evidence : EvidenceSets]

\* Every variable that is not the store's is well typed.
AtomicTypes ==
  /\ modelRuns \in Seq(RowType)
  /\ call \in [Runs -> CallType]
  /\ dbFaults \in 0..MaxFaults
  /\ walkedAway \in Nat
  /\ strict \in [Jobs -> BOOLEAN]
  /\ checkpoint \in [Jobs -> CheckpointType]
  /\ attempts \in [Jobs -> Nat]
  /\ assigned \in [Jobs -> AssignmentType]
  /\ at \in [Runs -> Places]
  /\ restored \in [Runs -> CheckpointType]
  /\ candidate \in [Runs -> CandidateType]
  /\ evidence \in [Runs -> EvidenceSets]

\* No checkpoint is of a later attempt than its job's.
AttemptsFit == \A j \in Jobs : checkpoint[j].attempt <= attempts[j]

\* A row that is named exists.
RowsExist ==
  /\ \A j \in Jobs : checkpoint[j].candidate.row <= Len(modelRuns)
  /\ \A r \in Runs : /\ restored[r].candidate.row <= Len(modelRuns)
                     /\ candidate[r].row <= Len(modelRuns)
                     /\ call[r].row <= Len(modelRuns)

Calling(r) == call[r].pc # "none"

\* A place is left exactly when a claim is; a run has a call open only at the
\* two places where the model is asked, under the trace and the key of the
\* place.
RunShape(r) ==
  /\ at[r] = "idle" <=> Idle(r)
  /\ at[r] = "idle" => restored[r] = NoCheckpoint
  /\ Calling(r) =>
       /\ at[r] \in {"draft", "revise"}
       /\ call[r].trace = Trace(r)
       /\ at[r] = "draft" => call[r].key = NoKey
       /\ at[r] = "revise" => call[r].key # NoKey
  /\ ~Calling(r) => call[r] = NoCall

RunsShaped == \A r \in Runs : RunShape(r)

AtomicTyped == AtomicTypes /\ AttemptsFit /\ RowsExist /\ RunsShaped

\* The values a call, a checkpoint and a candidate start from.
LEMMA Nothing ==
  /\ NoKey \in Keys
  /\ NoCall \in CallType
  /\ NoCandidate \in CandidateType
  /\ NoCheckpoint \in CheckpointType
  /\ Unassigned \in AssignmentType
  /\ 0 \in EvidenceSets /\ MaxText \in Nat /\ MaxRetries \in Nat /\ MaxRepairs \in Nat
<1>1. /\ 0 \in EvidenceSets /\ MaxText \in Nat /\ MaxRetries \in Nat /\ MaxRepairs \in Nat
      /\ MaxText >= 1
  BY GatewayBounds, MaxFenceAssumption DEF EvidenceSets
<1>2. NoKey \in Keys
  BY DEF Keys
<1>3. NoCandidate \in CandidateType
  BY <1>1 DEF NoCandidate, CandidateType
<1>4. NoCheckpoint \in CheckpointType
  BY <1>1, <1>2, <1>3 DEF NoCheckpoint, Checkpoint, CheckpointType, Phases
<1>5. NoCall \in CallType
  BY <1>1, <1>2 DEF NoCall, CallType, Stages, Errors
<1>6. Unassigned \in AssignmentType
  BY <1>1 DEF Unassigned, AssignmentType
<1> QED BY <1>1, <1>2, <1>3, <1>4, <1>5, <1>6

\* The fields of well-typed values.
LEMMA CheckpointFields ==
  ASSUME NEW c \in CheckpointType
  PROVE  /\ c.phase \in Phases /\ c.attempt \in Nat /\ c.candidate \in CandidateType
         /\ c.candidate.row \in Nat
         /\ c.emitted \in 0..MaxText /\ c.base \in EvidenceSets /\ c.key \in Keys
  BY DEF CheckpointType, CandidateType

\* The fields of a call, and of what it asked with.
LEMMA CallFields ==
  ASSUME NEW c \in CallType
  PROVE  /\ c.pc \in Stages /\ c.mode \in {"text", "structured"}
         /\ c.trace \in Traces \cup {NoTrace} /\ c.key \in Keys
         /\ c.retries \in 0..MaxRetries /\ c.repairs \in 0..MaxRepairs
         /\ c.row \in Nat /\ c.text \in 0..MaxText /\ c.err \in Errors
  BY DEF CallType

-----------------------------------------------------------------------------
(* What the steps of a call do to its fields and to the rows.              *)

\* The type of a row of model_runs.
LEMMA RowFields ==
  ASSUME NEW rows \in Seq(RowType), NEW i \in 1..Len(rows)
  PROVE  /\ rows[i] \in RowType
         /\ rows[i].trace \in Traces /\ rows[i].key \in Keys
         /\ rows[i].status \in {"RUNNING", "SUCCEEDED", "FAILED", "CANCELLED"}
<1>1. rows[i] \in RowType
  OBVIOUS
<1> QED BY <1>1 DEF RowType

\* A row is appended for a call.
LEMMA InsertFacts ==
  ASSUME modelRuns \in Seq(RowType), NEW r \in Runs, Insert(r),
         call[r].trace \in Traces, call[r].key \in Keys
  PROVE  /\ modelRuns' \in Seq(RowType)
         /\ Len(modelRuns') = Len(modelRuns) + 1
         /\ \A i \in 1..Len(modelRuns) : modelRuns'[i] = modelRuns[i]
         /\ LET new == modelRuns'[Len(modelRuns) + 1]
            IN  new.trace = call[r].trace /\ new.key = call[r].key /\ new.status = "RUNNING"
<1>1. PICK row : row = [trace |-> call[r].trace, key |-> call[r].key, status |-> "RUNNING"]
  OBVIOUS
<1>2. /\ row \in RowType
      /\ row.trace = call[r].trace /\ row.key = call[r].key /\ row.status = "RUNNING"
  BY <1>1 DEF RowType
<1>3. modelRuns' = Append(modelRuns, row)
  BY <1>1 DEF Insert
<1> QED BY <1>2, <1>3

\* The row of a call is closed: only its status may change, and only once.
LEMMA UpdateFacts ==
  ASSUME modelRuns \in Seq(RowType), NEW r \in Runs,
         NEW s \in {"SUCCEEDED", "FAILED", "CANCELLED"}, Update(r, s),
         call[r].row \in 0..Len(modelRuns)
  PROVE  /\ modelRuns' \in Seq(RowType)
         /\ Len(modelRuns') = Len(modelRuns)
         /\ \A i \in 1..Len(modelRuns) :
              /\ i # call[r].row => modelRuns'[i] = modelRuns[i]
              /\ modelRuns'[i].trace = modelRuns[i].trace
              /\ modelRuns'[i].key = modelRuns[i].key
              /\ i = call[r].row =>
                   modelRuns'[i].status =
                     IF modelRuns[i].status = "RUNNING" THEN s ELSE modelRuns[i].status
<1>1. PICK row : row = call[r].row
  OBVIOUS
<1>2. CASE row = 0
  <2>1. modelRuns' = modelRuns
    BY <1>1, <1>2 DEF Update
  <2> QED BY <1>1, <1>2, <2>1
<1>3. CASE row \in 1..Len(modelRuns)
  <2>1. PICK new : new = [modelRuns[row] EXCEPT
                            !.status = IF modelRuns[row].status = "RUNNING" THEN s
                                       ELSE modelRuns[row].status]
    OBVIOUS
  <2>2. /\ new \in RowType
        /\ new.trace = modelRuns[row].trace /\ new.key = modelRuns[row].key
        /\ new.status = IF modelRuns[row].status = "RUNNING" THEN s
                        ELSE modelRuns[row].status
    BY <1>3, <2>1, RowFields DEF RowType
  <2>3. modelRuns' = [modelRuns EXCEPT ![row] = new]
    BY <1>1, <2>1 DEF Update
  <2>4. /\ modelRuns' \in Seq(RowType) /\ Len(modelRuns') = Len(modelRuns)
        /\ modelRuns'[row] = new
        /\ \A i \in 1..Len(modelRuns) : i # row => modelRuns'[i] = modelRuns[i]
    BY <1>3, <2>2, <2>3
  <2> QED BY <1>1, <2>2, <2>4
<1> QED BY <1>1, <1>2, <1>3

\* The fields of a call but these two are kept.
LEMMA SetFacts ==
  ASSUME call \in [Runs -> CallType], NEW r \in Runs, NEW pc \in Stages,
         NEW err \in Errors, Set(r, pc, err)
  PROVE  /\ call' \in [Runs -> CallType]
         /\ \A q \in Runs \ {r} : call'[q] = call[q]
         /\ call'[r].pc = pc /\ call'[r].err = err
         /\ call'[r].mode = call[r].mode /\ call'[r].trace = call[r].trace
         /\ call'[r].key = call[r].key /\ call'[r].row = call[r].row
         /\ call'[r].text = call[r].text
<1>1. PICK new : new = [[call[r] EXCEPT !.pc = pc] EXCEPT !.err = err]
  OBVIOUS
<1>2. /\ new \in CallType
      /\ new.pc = pc /\ new.err = err
      /\ new.mode = call[r].mode /\ new.trace = call[r].trace
      /\ new.key = call[r].key /\ new.row = call[r].row /\ new.text = call[r].text
  BY <1>1 DEF CallType
<1>3. call' = [call EXCEPT ![r] = new]
  BY <1>1 DEF Set
<1> QED BY <1>2, <1>3

\* Rows are only added, for the call r, and only its own row may change.
RowsGrow(r) ==
  /\ modelRuns' \in Seq(RowType)
  /\ Len(modelRuns') \in {Len(modelRuns), Len(modelRuns) + 1}
  /\ \A i \in 1..Len(modelRuns) :
       /\ modelRuns'[i].trace = modelRuns[i].trace
       /\ modelRuns'[i].key = modelRuns[i].key
       /\ i # call[r].row => modelRuns'[i] = modelRuns[i]
  /\ \A i \in 1..Len(modelRuns') : i > Len(modelRuns) =>
       /\ modelRuns'[i].trace = call[r].trace
       /\ modelRuns'[i].key = call[r].key
       /\ modelRuns'[i].status = "RUNNING"

\* What all steps of a call have in common.
CallGoesOn(r) ==
  /\ call' \in [Runs -> CallType]
  /\ \A q \in Runs \ {r} : call'[q] = call[q]
  /\ Calling(r) /\ call'[r].pc # "none"
  /\ call'[r].mode = call[r].mode
  /\ call'[r].trace = call[r].trace
  /\ call'[r].key = call[r].key
  /\ call'[r].row \in 0..Len(modelRuns')
  /\ RowsGrow(r)
  /\ dbFaults' \in 0..MaxFaults /\ dbFaults' >= dbFaults
  /\ walkedAway' = walkedAway

\* A call whose row exists, and whose trace is one of a claim.
CallTyped(r) ==
  /\ modelRuns \in Seq(RowType)
  /\ call \in [Runs -> CallType]
  /\ dbFaults \in 0..MaxFaults
  /\ call[r].row \in 0..Len(modelRuns)
  /\ Calling(r) => call[r].trace \in Traces

\* The next attempt of a call has its request, and neither row nor text.
LEMMA NextAttemptFacts ==
  ASSUME call \in [Runs -> CallType], NEW r \in Runs
  PROVE  /\ NextAttempt(r) \in CallType
         /\ NextAttempt(r).pc = "start" /\ NextAttempt(r).row = 0
         /\ NextAttempt(r).text = 0
         /\ NextAttempt(r).mode = call[r].mode /\ NextAttempt(r).trace = call[r].trace
         /\ NextAttempt(r).key = call[r].key
         /\ NextAttempt(r).repairs = call[r].repairs
         /\ NextAttempt(r).retries = call[r].retries
<1>1. call[r] \in CallType /\ 0 \in 0..MaxText
  BY GatewayBounds
<1> QED BY <1>1 DEF NextAttempt, CallType, Stages, Errors

\* Rows that did not change have not grown.
LEMMA RowsSame ==
  ASSUME modelRuns \in Seq(RowType), NEW r \in Runs, modelRuns' = modelRuns
  PROVE  RowsGrow(r) /\ Len(modelRuns') = Len(modelRuns)
  BY DEF RowsGrow

\* The steps up to the provider's answer
LEMMA StartSteps ==
  ASSUME NEW r \in Runs, CallTyped(r),
         StartRun(r) \/ RefuseSecondDispatch(r) \/ StartRunFails(r)
  PROVE  /\ CallGoesOn(r)
         /\ call[r].pc = "start" /\ call'[r].text = call[r].text
         /\ \/ /\ call'[r].pc = "stream" /\ call'[r].row = Len(modelRuns) + 1
               /\ Len(modelRuns') = Len(modelRuns) + 1
               /\ ~KeyTaken(call[r].key) /\ dbFaults' = dbFaults
            \/ /\ call'[r].pc = "catch" /\ call'[r].row = call[r].row
               /\ \/ modelRuns' = modelRuns
                  \/ /\ Len(modelRuns') = Len(modelRuns) + 1
                     /\ ~KeyTaken(call[r].key) /\ dbFaults' = dbFaults + 1
<1> USE DEF CallTyped, Stages, Errors
<1>0. call[r].pc = "start" => Calling(r)
  BY DEF Calling
<1>1. ASSUME StartRun(r)
      PROVE  /\ CallGoesOn(r) /\ call[r].pc = "start" /\ call'[r].text = call[r].text
             /\ call'[r].pc = "stream" /\ call'[r].row = Len(modelRuns) + 1
             /\ Len(modelRuns') = Len(modelRuns) + 1
             /\ ~KeyTaken(call[r].key) /\ dbFaults' = dbFaults
  <2>1. /\ call[r].pc = "start" /\ ~KeyTaken(call[r].key) /\ Insert(r)
        /\ dbFaults' = dbFaults /\ walkedAway' = walkedAway
    BY <1>1 DEF StartRun
  <2>2. PICK new : new = [[call[r] EXCEPT !.pc = "stream"] EXCEPT !.row = Len(modelRuns) + 1]
    OBVIOUS
  <2>f. call[r] \in CallType /\ Len(modelRuns) + 1 \in Nat
    OBVIOUS
  <2>3. /\ new \in CallType
        /\ new.pc = "stream" /\ new.row = Len(modelRuns) + 1
        /\ new.mode = call[r].mode /\ new.trace = call[r].trace
        /\ new.key = call[r].key /\ new.text = call[r].text
    BY <2>f, <2>2 DEF CallType
  <2>4. call' = [call EXCEPT ![r] = new]
    BY <1>1, <2>2 DEF StartRun
  <2>5. /\ call' \in [Runs -> CallType] /\ call'[r] = new
        /\ \A q \in Runs \ {r} : call'[q] = call[q]
    BY <2>3, <2>4
  <2>6. call[r].trace \in Traces /\ call[r].key \in Keys
    BY <1>0, <2>1, CallFields
  <2>7. RowsGrow(r) /\ Len(modelRuns') = Len(modelRuns) + 1
    BY <2>1, <2>6, InsertFacts DEF RowsGrow
  <2> QED BY <1>0, <2>1, <2>3, <2>5, <2>7 DEF CallGoesOn
<1>2. ASSUME RefuseSecondDispatch(r)
      PROVE  /\ CallGoesOn(r) /\ call[r].pc = "start" /\ call'[r].text = call[r].text
             /\ call'[r].pc = "catch" /\ call'[r].row = call[r].row
             /\ modelRuns' = modelRuns
  <2>1. /\ call[r].pc = "start" /\ Set(r, "catch", "fatal") /\ modelRuns' = modelRuns
        /\ dbFaults' = dbFaults /\ walkedAway' = walkedAway
    BY <1>2 DEF RefuseSecondDispatch
  <2> QED BY <1>0, <2>1, SetFacts, RowsSame DEF CallGoesOn
<1>3. ASSUME StartRunFails(r)
      PROVE  /\ CallGoesOn(r) /\ call[r].pc = "start" /\ call'[r].text = call[r].text
             /\ call'[r].pc = "catch" /\ call'[r].row = call[r].row
             /\ \/ modelRuns' = modelRuns
                \/ /\ Len(modelRuns') = Len(modelRuns) + 1
                   /\ ~KeyTaken(call[r].key) /\ dbFaults' = dbFaults + 1
  <2>1. /\ call[r].pc = "start" /\ (\E e \in Errors : Set(r, "catch", e))
        /\ dbFaults' = dbFaults + 1 /\ dbFaults < MaxFaults /\ walkedAway' = walkedAway
    BY <1>3 DEF StartRunFails, FaultLeft
  <2>2. call[r].trace \in Traces /\ call[r].key \in Keys
    BY <1>0, <2>1, CallFields
  <2>3. \/ RowsGrow(r) /\ modelRuns' = modelRuns
        \/ /\ RowsGrow(r) /\ Len(modelRuns') = Len(modelRuns) + 1
           /\ ~KeyTaken(call[r].key)
    BY <1>3, <2>2, RowsSame, InsertFacts DEF StartRunFails, RowsGrow
  <2>4. dbFaults' \in 0..MaxFaults /\ dbFaults' >= dbFaults
    BY <2>1, GatewayBounds
  <2>5. call'[r].row \in 0..Len(modelRuns')
    BY <2>1, <2>3, SetFacts
  <2> QED BY <1>0, <2>1, <2>3, <2>4, <2>5, SetFacts DEF CallGoesOn
<1> QED BY <1>1, <1>2, <1>3

\* The steps while the provider answers
LEMMA StreamSteps ==
  ASSUME NEW r \in Runs, CallTyped(r),
         Delta(r) \/ Completed(r) \/ ProviderFails(r)
  PROVE  /\ CallGoesOn(r)
         /\ call[r].pc = "stream" /\ call'[r].row = call[r].row
         /\ modelRuns' = modelRuns /\ dbFaults' = dbFaults
         /\ \/ /\ call[r].mode = "text"
               /\ call'[r].pc = "yield" /\ call'[r].text = call[r].text + 1
            \/ /\ call[r].mode = "structured"
               /\ call'[r].pc = "stream" /\ call'[r].text = call[r].text + 1
            \/ /\ call[r].mode = "structured"
               /\ call'[r].pc = "reject" /\ call'[r].text = call[r].text
            \/ call'[r].pc \in {"accept", "catch"} /\ call'[r].text = call[r].text
<1> USE DEF CallTyped, Stages, Errors
<1>0. call[r].pc = "stream" => Calling(r)
  BY DEF Calling
<1>1. ASSUME Delta(r)
      PROVE  /\ CallGoesOn(r)
             /\ call[r].pc = "stream" /\ call'[r].row = call[r].row
             /\ modelRuns' = modelRuns /\ dbFaults' = dbFaults
             /\ call'[r].text = call[r].text + 1
             /\ call'[r].pc = IF call[r].mode = "text" THEN "yield" ELSE "stream"
             /\ call[r].mode \in {"text", "structured"}
  <2>1. /\ call[r].pc = "stream" /\ modelRuns' = modelRuns
        /\ dbFaults' = dbFaults /\ walkedAway' = walkedAway
    BY <1>1 DEF Delta
  <2>2. /\ call[r] \in CallType /\ call[r].mode \in {"text", "structured"}
        /\ call[r].text \in Nat
    BY CallFields, GatewayBounds
  <2>3. call[r].text + 1 \in 0..MaxText
    BY <1>1, <2>2, GatewayBounds DEF Delta
  <2>4. PICK new : new = [[call[r] EXCEPT !.text = call[r].text + 1] EXCEPT
                            !.pc = IF call[r].mode = "text" THEN "yield" ELSE "stream"]
    OBVIOUS
  <2>5. /\ new \in CallType
        /\ new.pc = IF call[r].mode = "text" THEN "yield" ELSE "stream"
        /\ new.text = call[r].text + 1 /\ new.row = call[r].row
        /\ new.mode = call[r].mode /\ new.trace = call[r].trace
        /\ new.key = call[r].key
    BY <2>2, <2>3, <2>4 DEF CallType
  <2>6. call' = [call EXCEPT ![r] = new]
    BY <1>1, <2>4 DEF Delta
  <2>7. /\ call' \in [Runs -> CallType] /\ call'[r] = new
        /\ \A q \in Runs \ {r} : call'[q] = call[q]
    BY <2>5, <2>6
  <2> QED BY <1>0, <2>1, <2>2, <2>5, <2>7, RowsSame DEF CallGoesOn
<1>2. ASSUME Completed(r) \/ ProviderFails(r)
      PROVE  /\ CallGoesOn(r)
             /\ call[r].pc = "stream" /\ call'[r].row = call[r].row
             /\ modelRuns' = modelRuns /\ dbFaults' = dbFaults
             /\ call'[r].text = call[r].text
             /\ \/ call'[r].pc = "reject" /\ call[r].mode = "structured"
                \/ call'[r].pc \in {"accept", "catch"}
  <2>1. /\ call[r].pc = "stream" /\ modelRuns' = modelRuns
        /\ dbFaults' = dbFaults /\ walkedAway' = walkedAway
        /\ \/ call[r].mode = "structured" /\ Set(r, "reject", "none")
           \/ \E pc \in {"accept", "catch"}, e \in Errors : Set(r, pc, e)
    BY <1>2 DEF Completed, ProviderFails
  <2> QED BY <1>0, <2>1, SetFacts, RowsSame DEF CallGoesOn
<1>3. CASE Delta(r)
  BY <1>1, <1>3
<1>4. CASE Completed(r) \/ ProviderFails(r)
  BY <1>2, <1>4
<1> QED BY <1>3, <1>4

\* The row of a call is closed, if it was open.
Closes(r, s) ==
  /\ Len(modelRuns') = Len(modelRuns)
  /\ \A i \in 1..Len(modelRuns) : i = call[r].row =>
       modelRuns'[i].status = IF modelRuns[i].status = "RUNNING" THEN s
                              ELSE modelRuns[i].status

\* An update closes, and changes nothing else.
LEMMA UpdateCloses ==
  ASSUME NEW r \in Runs, CallTyped(r),
         NEW s \in {"SUCCEEDED", "FAILED", "CANCELLED"}, Update(r, s)
  PROVE  RowsGrow(r) /\ Closes(r, s)
<1>1. modelRuns \in Seq(RowType) /\ call[r].row \in 0..Len(modelRuns)
  BY DEF CallTyped
<1>2. modelRuns' \in Seq(RowType) /\ Len(modelRuns') = Len(modelRuns)
  BY <1>1, UpdateFacts
<1>3. \A i \in 1..Len(modelRuns) :
        /\ modelRuns'[i].trace = modelRuns[i].trace
        /\ modelRuns'[i].key = modelRuns[i].key
        /\ i # call[r].row => modelRuns'[i] = modelRuns[i]
  BY <1>1, UpdateFacts
<1>4. RowsGrow(r)
  BY <1>1, <1>2, <1>3 DEF RowsGrow
<1>5. Closes(r, s)
  BY <1>1, <1>2, UpdateFacts DEF Closes
<1> QED BY <1>4, <1>5

\* The steps that record what the provider answered
LEMMA FinishSteps ==
  ASSUME NEW r \in Runs, CallTyped(r), Accept(r) \/ Reject(r) \/ FinishFails(r)
  PROVE  /\ CallGoesOn(r)
         /\ \/ /\ call[r].pc = "accept" /\ call'[r].pc = "answered"
               /\ call'[r].row = call[r].row /\ call'[r].text = call[r].text
               /\ Closes(r, "SUCCEEDED") /\ dbFaults' = dbFaults
            \/ /\ call[r].pc = "reject"
               /\ \/ /\ call'[r].pc = "start" /\ call'[r].row = 0 /\ call'[r].text = 0
                  \/ /\ call'[r].pc = "failed"
                     /\ call'[r].row = call[r].row /\ call'[r].text = call[r].text
               /\ Closes(r, "FAILED") /\ dbFaults' = dbFaults
            \/ /\ call[r].pc \in {"accept", "reject"} /\ call'[r].pc = "catch"
               /\ call'[r].row = call[r].row /\ call'[r].text = call[r].text
               /\ dbFaults' = dbFaults + 1
               /\ \/ modelRuns' = modelRuns
                  \/ \E s \in {"SUCCEEDED", "FAILED"} : Closes(r, s)
<1> USE DEF CallTyped, Stages, Errors
<1>0. call[r].pc \in {"accept", "reject"} => Calling(r)
  BY DEF Calling
<1>1. ASSUME Accept(r)
      PROVE  /\ CallGoesOn(r)
             /\ call[r].pc = "accept" /\ call'[r].pc = "answered"
             /\ call'[r].row = call[r].row /\ call'[r].text = call[r].text
             /\ Closes(r, "SUCCEEDED") /\ dbFaults' = dbFaults
  <2>1. /\ call[r].pc = "accept" /\ Set(r, "answered", "none") /\ Update(r, "SUCCEEDED")
        /\ dbFaults' = dbFaults /\ walkedAway' = walkedAway
    BY <1>1 DEF Accept
  <2>2. RowsGrow(r) /\ Closes(r, "SUCCEEDED")
    BY <2>1, UpdateCloses
  <2>3. call'[r].row \in 0..Len(modelRuns')
    BY <2>1, <2>2, SetFacts DEF Closes
  <2> QED BY <1>0, <2>1, <2>2, <2>3, SetFacts DEF CallGoesOn
<1>2. ASSUME Reject(r)
      PROVE  /\ CallGoesOn(r)
             /\ call[r].pc = "reject"
             /\ \/ call'[r].pc = "start" /\ call'[r].row = 0 /\ call'[r].text = 0
                \/ /\ call'[r].pc = "failed"
                   /\ call'[r].row = call[r].row /\ call'[r].text = call[r].text
             /\ Closes(r, "FAILED") /\ dbFaults' = dbFaults
  <2>1. /\ call[r].pc = "reject" /\ Update(r, "FAILED")
        /\ dbFaults' = dbFaults /\ walkedAway' = walkedAway
    BY <1>2 DEF Reject
  <2>2. RowsGrow(r) /\ Closes(r, "FAILED") /\ 0 \in 0..Len(modelRuns')
    BY <2>1, UpdateCloses DEF Closes
  <2>3. CASE call[r].repairs < Repairs(r)
    <3>1. PICK next : next = NextAttempt(r)
      OBVIOUS
    <3>2. PICK new : new = [next EXCEPT !.repairs = next.repairs + 1]
      OBVIOUS
    <3>3. call[r].repairs \in 0..MaxRepairs /\ Repairs(r) \in 0..MaxRepairs
      BY CallFields, GatewayBounds DEF Repairs
    <3>4. next.repairs + 1 \in 0..MaxRepairs /\ next \in CallType
      BY <2>3, <3>1, <3>3, NextAttemptFacts, GatewayBounds
    <3>5. /\ new \in CallType
          /\ new.pc = next.pc /\ new.row = next.row /\ new.text = next.text
          /\ new.mode = next.mode /\ new.trace = next.trace /\ new.key = next.key
      BY <3>2, <3>4 DEF CallType
    <3>6. call' = [call EXCEPT ![r] = new]
      BY <1>2, <2>3, <3>1, <3>2 DEF Reject
    <3>7. /\ call' \in [Runs -> CallType] /\ call'[r] = new
          /\ \A q \in Runs \ {r} : call'[q] = call[q]
      BY <3>5, <3>6
    <3>8. /\ new.pc = "start" /\ new.row = 0 /\ new.text = 0
          /\ new.mode = call[r].mode /\ new.trace = call[r].trace
          /\ new.key = call[r].key
      BY <3>1, <3>5, NextAttemptFacts
    <3> QED BY <1>0, <2>1, <2>2, <3>7, <3>8 DEF CallGoesOn
  <2>4. CASE ~(call[r].repairs < Repairs(r))
    <3>1. Set(r, "failed", "invalid")
      BY <1>2, <2>4 DEF Reject
    <3>2. call'[r].row \in 0..Len(modelRuns')
      BY <2>2, <3>1, SetFacts DEF Closes
    <3> QED BY <1>0, <2>1, <2>2, <3>1, <3>2, SetFacts DEF CallGoesOn
  <2> QED BY <2>3, <2>4
<1>3. ASSUME FinishFails(r)
      PROVE  /\ CallGoesOn(r)
             /\ call[r].pc \in {"accept", "reject"} /\ call'[r].pc = "catch"
             /\ call'[r].row = call[r].row /\ call'[r].text = call[r].text
             /\ dbFaults' = dbFaults + 1
             /\ \/ modelRuns' = modelRuns
                \/ \E s \in {"SUCCEEDED", "FAILED"} : Closes(r, s)
  <2>1. /\ call[r].pc \in {"accept", "reject"} /\ (\E e \in Errors : Set(r, "catch", e))
        /\ dbFaults' = dbFaults + 1 /\ dbFaults < MaxFaults /\ walkedAway' = walkedAway
        /\ \/ modelRuns' = modelRuns
           \/ \E s \in {"SUCCEEDED", "FAILED"} : Update(r, s)
    BY <1>3 DEF FinishFails, FaultLeft
  <2>2. /\ RowsGrow(r) /\ Len(modelRuns') = Len(modelRuns)
        /\ modelRuns' = modelRuns \/ \E s \in {"SUCCEEDED", "FAILED"} : Closes(r, s)
    BY <2>1, UpdateCloses, RowsSame DEF Closes
  <2>3. dbFaults' \in 0..MaxFaults /\ dbFaults' >= dbFaults
    BY <2>1, GatewayBounds
  <2>4. call'[r].row \in 0..Len(modelRuns')
    BY <2>1, <2>2, SetFacts
  <2> QED BY <1>0, <2>1, <2>2, <2>3, <2>4, SetFacts DEF CallGoesOn
<1> QED BY <1>1, <1>2, <1>3

\* The steps of the catch block
LEMMA CatchSteps ==
  ASSUME NEW r \in Runs, NEW abort, CallTyped(r),
         Catch(r, abort) \/ CloseFailed(r, abort) \/ CloseThrows(r) \/ DelayOver(r, abort)
  PROVE  /\ CallGoesOn(r)
         /\ \/ /\ call[r].pc = "catch" /\ call'[r].pc = "closing"
               /\ call'[r].row = call[r].row /\ call'[r].text = call[r].text
               /\ modelRuns' = modelRuns /\ dbFaults' = dbFaults
            \/ /\ call[r].pc = "closing"
               /\ \/ call'[r].pc = "delay" /\ call[r].text = 0
                  \/ call'[r].pc = "failed"
               /\ call'[r].row = call[r].row /\ call'[r].text = call[r].text
               /\ call[r].row # 0 => modelRuns[call[r].row].status = "RUNNING"
               /\ \E s \in {"FAILED", "CANCELLED"} : Closes(r, s)
               /\ dbFaults' = dbFaults
            \/ /\ call[r].pc = "closing" /\ call'[r].pc = "threw"
               /\ call'[r].row = call[r].row /\ call'[r].text = call[r].text
               /\ \/ /\ modelRuns[call[r].row].status # "RUNNING"
                     /\ modelRuns' = modelRuns /\ dbFaults' = dbFaults
                  \/ /\ dbFaults' = dbFaults + 1
                     /\ \/ modelRuns' = modelRuns
                        \/ \E s \in {"FAILED", "CANCELLED"} : Closes(r, s)
            \/ /\ call[r].pc = "delay"
               /\ \/ call'[r].pc = "start" /\ call'[r].row = 0 /\ call'[r].text = 0
                  \/ /\ call'[r].pc = "failed"
                     /\ call'[r].row = call[r].row /\ call'[r].text = call[r].text
               /\ modelRuns' = modelRuns /\ dbFaults' = dbFaults
<1> USE DEF CallTyped, Stages, Errors
<1>0. call[r].pc \in {"catch", "closing", "delay"} => Calling(r)
  BY DEF Calling
<1>e. call[r].err \in Errors
  BY CallFields
<1>c. ASSUME CloseRow(r)
      PROVE  RowsGrow(r) /\ \E s \in {"FAILED", "CANCELLED"} : Closes(r, s)
  <2>1. CASE call[r].row = 0
    BY <1>c, <2>1, RowsSame DEF CloseRow, Closes
  <2>2. CASE call[r].row # 0
    <3>1. \E s \in {"FAILED", "CANCELLED"} : Update(r, s)
      BY <1>c, <2>2 DEF CloseRow
    <3> QED BY <3>1, UpdateCloses
  <2> QED BY <2>1, <2>2
<1>1. ASSUME Catch(r, abort)
      PROVE  /\ CallGoesOn(r)
             /\ call[r].pc = "catch" /\ call'[r].pc = "closing"
             /\ call'[r].row = call[r].row /\ call'[r].text = call[r].text
             /\ modelRuns' = modelRuns /\ dbFaults' = dbFaults
  <2>1. /\ call[r].pc = "catch" /\ (\E e \in Errors : Set(r, "closing", e))
        /\ modelRuns' = modelRuns /\ dbFaults' = dbFaults /\ walkedAway' = walkedAway
    BY <1>1, <1>e DEF Catch
  <2> QED BY <1>0, <2>1, SetFacts, RowsSame DEF CallGoesOn
<1>2. ASSUME CloseFailed(r, abort)
      PROVE  /\ CallGoesOn(r)
             /\ call[r].pc = "closing"
             /\ \/ call'[r].pc = "delay" /\ call[r].text = 0
                \/ call'[r].pc = "failed"
             /\ call'[r].row = call[r].row /\ call'[r].text = call[r].text
             /\ call[r].row # 0 => modelRuns[call[r].row].status = "RUNNING"
             /\ \E s \in {"FAILED", "CANCELLED"} : Closes(r, s)
             /\ dbFaults' = dbFaults
  <2>1. /\ call[r].pc = "closing"
        /\ call[r].row # 0 => modelRuns[call[r].row].status = "RUNNING"
        /\ CloseRow(r) /\ dbFaults' = dbFaults /\ walkedAway' = walkedAway
    BY <1>2 DEF CloseFailed, Closable
  <2>2. /\ RowsGrow(r) /\ Len(modelRuns') = Len(modelRuns)
        /\ \E s \in {"FAILED", "CANCELLED"} : Closes(r, s)
    BY <1>c, <2>1 DEF Closes
  <2>3. CASE Retryable(r, abort)
    <3>1. PICK new : new = [[call[r] EXCEPT !.pc = "delay"] EXCEPT
                              !.retries = call[r].retries + 1]
      OBVIOUS
    <3>2. /\ call[r] \in CallType /\ call[r].retries \in 0..MaxRetries
          /\ Retries(r) \in 0..MaxRetries
      BY CallFields, GatewayBounds DEF Retries
    <3>3. call[r].retries + 1 \in 0..MaxRetries /\ call[r].text = 0
      BY <2>3, <3>2, GatewayBounds DEF Retryable
    <3>4. /\ new \in CallType
          /\ new.pc = "delay" /\ new.row = call[r].row /\ new.text = call[r].text
          /\ new.mode = call[r].mode /\ new.trace = call[r].trace
          /\ new.key = call[r].key
      BY <3>1, <3>2, <3>3 DEF CallType
    <3>5. call' = [call EXCEPT ![r] = new]
      BY <1>2, <2>3, <3>1 DEF CloseFailed
    <3>6. /\ call' \in [Runs -> CallType] /\ call'[r] = new
          /\ \A q \in Runs \ {r} : call'[q] = call[q]
      BY <3>4, <3>5
    <3> QED BY <1>0, <2>1, <2>2, <3>3, <3>4, <3>6 DEF CallGoesOn
  <2>4. CASE ~Retryable(r, abort)
    <3>1. Set(r, "failed", call[r].err)
      BY <1>2, <2>4 DEF CloseFailed
    <3>2. call'[r].row \in 0..Len(modelRuns')
      BY <1>e, <2>2, <3>1, SetFacts
    <3> QED BY <1>0, <1>e, <2>1, <2>2, <3>1, <3>2, SetFacts DEF CallGoesOn
  <2> QED BY <2>3, <2>4
<1>3. ASSUME CloseThrows(r)
      PROVE  /\ CallGoesOn(r)
             /\ call[r].pc = "closing" /\ call'[r].pc = "threw"
             /\ call'[r].row = call[r].row /\ call'[r].text = call[r].text
             /\ \/ /\ modelRuns[call[r].row].status # "RUNNING"
                   /\ modelRuns' = modelRuns /\ dbFaults' = dbFaults
                \/ /\ dbFaults' = dbFaults + 1
                   /\ \/ modelRuns' = modelRuns
                      \/ \E s \in {"FAILED", "CANCELLED"} : Closes(r, s)
  <2>1. /\ call[r].pc = "closing" /\ Set(r, "threw", call[r].err)
        /\ walkedAway' = walkedAway
        /\ \/ /\ modelRuns[call[r].row].status # "RUNNING"
              /\ modelRuns' = modelRuns /\ dbFaults' = dbFaults
           \/ /\ dbFaults < MaxFaults /\ dbFaults' = dbFaults + 1
              /\ modelRuns' = modelRuns \/ CloseRow(r)
    BY <1>3 DEF CloseThrows, Closable, FaultLeft
  <2>2. /\ RowsGrow(r) /\ Len(modelRuns') = Len(modelRuns)
        /\ \/ modelRuns' = modelRuns
           \/ \E s \in {"FAILED", "CANCELLED"} : Closes(r, s)
    BY <1>c, <2>1, RowsSame DEF Closes
  <2>3. dbFaults' \in 0..MaxFaults /\ dbFaults' >= dbFaults
    BY <2>1, GatewayBounds
  <2>4. call'[r].row \in 0..Len(modelRuns')
    BY <1>e, <2>1, <2>2, SetFacts
  <2>5. /\ call'[r].pc = "threw" /\ call'[r].row = call[r].row
        /\ call'[r].text = call[r].text
    BY <1>e, <2>1, SetFacts
  <2>6. /\ call' \in [Runs -> CallType] /\ \A q \in Runs \ {r} : call'[q] = call[q]
        /\ call'[r].mode = call[r].mode /\ call'[r].trace = call[r].trace
        /\ call'[r].key = call[r].key
    BY <1>e, <2>1, SetFacts
  <2>7. CallGoesOn(r)
    BY <1>0, <2>1, <2>2, <2>3, <2>4, <2>5, <2>6 DEF CallGoesOn
  <2> QED BY <2>1, <2>2, <2>5, <2>7
<1>4. ASSUME DelayOver(r, abort)
      PROVE  /\ CallGoesOn(r)
             /\ call[r].pc = "delay"
             /\ \/ call'[r].pc = "start" /\ call'[r].row = 0 /\ call'[r].text = 0
                \/ /\ call'[r].pc = "failed"
                   /\ call'[r].row = call[r].row /\ call'[r].text = call[r].text
             /\ modelRuns' = modelRuns /\ dbFaults' = dbFaults
  <2>1. /\ call[r].pc = "delay" /\ modelRuns' = modelRuns
        /\ dbFaults' = dbFaults /\ walkedAway' = walkedAway
        /\ \/ Set(r, "failed", "aborted")
           \/ call' = [call EXCEPT ![r] = NextAttempt(r)]
    BY <1>4 DEF DelayOver
  <2>2. CASE Set(r, "failed", "aborted")
    BY <1>0, <2>1, <2>2, SetFacts, RowsSame DEF CallGoesOn
  <2>3. CASE call' = [call EXCEPT ![r] = NextAttempt(r)]
    <3>1. PICK new : new = NextAttempt(r)
      OBVIOUS
    <3>2. /\ call' \in [Runs -> CallType] /\ call'[r] = new
          /\ \A q \in Runs \ {r} : call'[q] = call[q]
      BY <2>3, <3>1, NextAttemptFacts
    <3>3. /\ new.pc = "start" /\ new.row = 0 /\ new.text = 0
          /\ new.mode = call[r].mode /\ new.trace = call[r].trace
          /\ new.key = call[r].key
      BY <3>1, NextAttemptFacts
    <3> QED BY <1>0, <2>1, <3>2, <3>3, RowsSame DEF CallGoesOn
  <2> QED BY <2>1, <2>2, <2>3
<1> QED BY <1>1, <1>2, <1>3, <1>4

\* So every step of a call goes on with it.
LEMMA GatewayStepFacts ==
  ASSUME NEW r \in Runs, NEW abort, CallTyped(r), GatewayStep(r, abort)
  PROVE  CallGoesOn(r)
  BY StartSteps, StreamSteps, FinishSteps, CatchSteps DEF GatewayStep

\* A call is begun with the request of its caller.
LEMMA BeginFacts ==
  ASSUME call \in [Runs -> CallType], NEW r \in Runs,
         NEW mode \in {"text", "structured"}, NEW trace \in Traces, NEW key \in Keys,
         Begin(r, mode, trace, key)
  PROVE  /\ call' \in [Runs -> CallType]
         /\ \A q \in Runs \ {r} : call'[q] = call[q]
         /\ ~Calling(r) /\ call'[r].pc = "start" /\ call'[r].mode = mode
         /\ call'[r].trace = trace /\ call'[r].key = key
         /\ call'[r].row = 0 /\ call'[r].text = 0
         /\ modelRuns' = modelRuns /\ dbFaults' = dbFaults /\ walkedAway' = walkedAway
<1>1. PICK new : new = [NoCall EXCEPT !.pc = "start", !.mode = mode,
                                      !.trace = trace, !.key = key]
  OBVIOUS
<1>2. NoCall \in CallType /\ NoCall.row = 0 /\ NoCall.text = 0
  BY Nothing DEF NoCall
<1>3. /\ new \in CallType
      /\ new.pc = "start" /\ new.mode = mode /\ new.trace = trace /\ new.key = key
      /\ new.row = 0 /\ new.text = 0
  BY <1>1, <1>2 DEF CallType, Stages
<1>4. call' = [call EXCEPT ![r] = new]
  BY <1>1 DEF Begin
<1> QED BY <1>3, <1>4 DEF Begin, Calling

\* Only the place of a call changes when its caller pulls.
LEMMA PullFacts ==
  ASSUME call \in [Runs -> CallType], NEW r \in Runs, Pull(r)
  PROVE  /\ call' \in [Runs -> CallType]
         /\ \A q \in Runs \ {r} : call'[q] = call[q]
         /\ call'[r].pc = "stream" /\ call'[r].mode = call[r].mode
         /\ call'[r].trace = call[r].trace /\ call'[r].key = call[r].key
         /\ call'[r].row = call[r].row /\ call'[r].text = call[r].text
<1>1. PICK new : new = [call[r] EXCEPT !.pc = "stream"]
  OBVIOUS
<1>2. /\ new \in CallType
      /\ new.pc = "stream" /\ new.mode = call[r].mode
      /\ new.trace = call[r].trace /\ new.key = call[r].key
      /\ new.row = call[r].row /\ new.text = call[r].text
  BY <1>1 DEF CallType, Stages
<1>3. call' = [call EXCEPT ![r] = new]
  BY <1>1 DEF Pull
<1> QED BY <1>2, <1>3

\* Nothing is left of a call in its caller.
LEMMA LeaveFacts ==
  ASSUME call \in [Runs -> CallType], walkedAway \in Nat, NEW r \in Runs, Leave(r)
  PROVE  /\ call' \in [Runs -> CallType]
         /\ \A q \in Runs \ {r} : call'[q] = call[q]
         /\ call'[r] = NoCall /\ call'[r].pc = "none" /\ call'[r].row = 0
         /\ modelRuns' = modelRuns /\ dbFaults' = dbFaults
         /\ walkedAway' \in Nat /\ walkedAway' >= walkedAway
         /\ HasOpenRow(r) => walkedAway' = walkedAway + 1
<1>1. NoCall.pc = "none" /\ NoCall.row = 0
  BY DEF NoCall
<1>2. call' \in [Runs -> CallType] /\ call'[r] = NoCall
  BY Nothing DEF Leave
<1> QED BY <1>1, <1>2 DEF Leave

-----------------------------------------------------------------------------
(* What a step leaves alone.                                               *)

\* A run and its call are not touched.
RunKept(q) ==
  /\ at'[q] = at[q] /\ restored'[q] = restored[q]
  /\ candidate'[q] = candidate[q] /\ evidence'[q] = evidence[q]
  /\ call'[q] = call[q]
  /\ target'[q] = target[q] /\ token'[q] = token[q]

\* The rows of a job are not touched.
JobKept(j) ==
  /\ strict'[j] = strict[j] /\ checkpoint'[j] = checkpoint[j]
  /\ attempts'[j] = attempts[j] /\ assigned'[j] = assigned[j]
  /\ events'[j] = events[j] /\ fencingToken'[j] = fencingToken[j]

\* The transaction behind a yield: only a fenced run passes it.
LEMMA YieldFacts ==
  ASSUME TypeOK, AtomicTypes, NEW r \in Runs, NEW k, NEW d, NEW c \in CheckpointType,
         Yield(r, k, d, c)
  PROVE  /\ Fenced(r) /\ target[r] \in Jobs /\ token[r] \in 1..MaxFence
         /\ checkpoint' \in [Jobs -> CheckpointType] /\ checkpoint'[target[r]] = c
         /\ attempts' \in [Jobs -> Nat] /\ attempts'[target[r]] = c.attempt
         /\ restored' \in [Runs -> CheckpointType] /\ restored'[r] = c
         /\ \A q \in Runs \ {r} : restored'[q] = restored[q]
         /\ \A j \in Jobs \ {target[r]} :
              /\ checkpoint'[j] = checkpoint[j] /\ attempts'[j] = attempts[j]
              /\ events'[j] = events[j]
         /\ events'[target[r]] = Append(events[target[r]], PlainEvent(token[r], k, d))
         /\ UNCHANGED <<status, cancelRequested, leaseVars, runVars>>
<1>1. Fenced(r) /\ target[r] \in Jobs /\ token[r] \in 1..MaxFence
  BY FencedTarget DEF Yield, PersistProgress
<1>2. c.attempt \in Nat
  BY CheckpointFields
<1> QED BY <1>1, <1>2 DEF Yield, PersistProgress, AppendEvent, TypeOK, AtomicTypes

\* The assignment of a job is replaced.
Assigns(r, a) == assigned' = [assigned EXCEPT ![target[r]] = a]

\* Only the job of the run gets another assignment.
LEMMA AssignFacts ==
  ASSUME AtomicTypes, NEW r \in Runs, target[r] \in Jobs, NEW a \in AssignmentType,
         Assigns(r, a)
  PROVE  /\ assigned' \in [Jobs -> AssignmentType] /\ assigned'[target[r]] = a
         /\ \A j \in Jobs \ {target[r]} : assigned'[j] = assigned[j]
  BY DEF Assigns, AtomicTypes

\* The checkpoints that the executor derives from the one it goes by.
LEMMA CheckpointMoved ==
  ASSUME NEW c \in CheckpointType, NEW p \in Phases
  PROVE  LET new == [c EXCEPT !.phase = p]
         IN  /\ new \in CheckpointType
             /\ new.phase = p /\ new.attempt = c.attempt
             /\ new.candidate = c.candidate /\ new.emitted = c.emitted
             /\ new.base = c.base /\ new.key = c.key
  BY DEF CheckpointType

\* The checkpoint that a candidate is sealed in
LEMMA CheckpointSealed ==
  ASSUME NEW r \in Runs, restored[r] \in CheckpointType, candidate[r] \in CandidateType
  PROVE  /\ SealedCheckpoint(r) \in CheckpointType
         /\ SealedCheckpoint(r).phase = "atomic_sealed"
         /\ SealedCheckpoint(r).attempt = restored[r].attempt
         /\ SealedCheckpoint(r).candidate = candidate[r]
         /\ SealedCheckpoint(r).emitted = restored[r].emitted
         /\ SealedCheckpoint(r).key = restored[r].key
  BY DEF SealedCheckpoint, CheckpointType, Phases, AtomicPhases

\* The checkpoint after a piece of the sealed text
LEMMA CheckpointEmitted ==
  ASSUME NEW c \in CheckpointType, NEW i \in 0..MaxText
  PROVE  LET new == [c EXCEPT !.emitted = i]
         IN  /\ new \in CheckpointType
             /\ new.phase = c.phase /\ new.attempt = c.attempt
             /\ new.candidate = c.candidate /\ new.emitted = i
             /\ new.key = c.key
  BY DEF CheckpointType

\* The checkpoint of a new attempt
LEMMA CheckpointOpened ==
  ASSUME NEW n \in Nat
  PROVE  LET new == Checkpoint("model_started", n, NoCandidate, 0, 0, NoKey)
         IN  /\ new \in CheckpointType
             /\ new.phase = "model_started" /\ new.attempt = n
             /\ new.candidate = NoCandidate /\ new.emitted = 0 /\ new.key = NoKey
  BY Nothing DEF Checkpoint, CheckpointType, Phases

\* The steps of execute that are a yield, with the event and the checkpoint of
\* each.
YieldsFrom(r, c) ==
  \/ /\ OpenAttempt(r)
     /\ c.phase = "model_started" /\ c.attempt = attempts[target[r]] + 1
     /\ c.candidate = NoCandidate /\ c.emitted = 0 /\ c.key = NoKey
     /\ \E k \in Openings : Yield(r, k, 0, c)
  \/ /\ StreamToken(r)
     /\ c = restored[r]
     /\ Yield(r, "token", Token(call[r].row, call[r].text), c)
  \/ /\ \/ /\ StreamCompleted(r) /\ c.phase = "model_completed"
           /\ Yield(r, "model_completed", 0, c)
        \/ /\ RequireTargetedRevision(r) /\ c.phase = "atomic_revision_required"
           /\ Yield(r, "grounding.revision_required", 0, c)
        \/ /\ AnnounceRetrieval(r) /\ c.phase = "atomic_revision_retrieved"
           /\ Yield(r, "grounding.revision_retrieved", 0, c)
        \/ /\ EmitDone(r) /\ c.phase = "atomic_shadow_complete"
           /\ Yield(r, "done", 0, c)
     /\ c.attempt = restored[r].attempt /\ c.candidate = restored[r].candidate
     /\ c.emitted = restored[r].emitted /\ c.key = restored[r].key
  \/ /\ RecordIntent(r) /\ Yield(r, "grounding.revision_model_started", 0, c)
     /\ c.phase = "atomic_revision_model_started" /\ c.key = Key(r, evidence[r])
     /\ c.attempt = restored[r].attempt /\ c.candidate = restored[r].candidate
     /\ c.emitted = restored[r].emitted
  \/ /\ Seal(r) /\ Yield(r, "grounding.proposal_validated", 0, c)
     /\ c.phase = "atomic_sealed" /\ c.candidate = candidate[r]
     /\ c.attempt = restored[r].attempt /\ c.emitted = restored[r].emitted
     /\ c.key = restored[r].key
  \/ /\ EmitToken(r)
     /\ Yield(r, "token", Token(candidate[r].row, restored[r].emitted + 1), c)
     /\ c.emitted = restored[r].emitted + 1
     /\ c.phase = restored[r].phase /\ c.attempt = restored[r].attempt
     /\ c.candidate = restored[r].candidate /\ c.key = restored[r].key

YieldingStep(r) ==
  \/ OpenAttempt(r) \/ StreamToken(r) \/ StreamCompleted(r)
  \/ RequireTargetedRevision(r) \/ AnnounceRetrieval(r) \/ RecordIntent(r)
  \/ Seal(r) \/ EmitToken(r) \/ EmitDone(r)

\* The key of an operation of a run.
LEMMA KeyType ==
  ASSUME AtomicTypes, NEW r \in Runs, target[r] \in Jobs, NEW e \in EvidenceSets
  PROVE  Key(r, e) \in Keys /\ Key(r, e) # NoKey
<1>1. restored[r].attempt \in Nat
  BY CheckpointFields DEF AtomicTypes
<1> QED BY <1>1 DEF Key, Keys, NoKey

\* Every yielding step stores a checkpoint of that shape.
LEMMA YieldShape ==
  ASSUME TypeOK, AtomicTypes, NEW r \in Runs, YieldingStep(r)
  PROVE  \E c \in CheckpointType : YieldsFrom(r, c)
<1>t. \E k, d, c : Yield(r, k, d, c)
  BY DEF YieldingStep, OpenAttempt, StreamToken, StreamCompleted,
         RequireTargetedRevision, AnnounceRetrieval, RecordIntent, Seal, EmitToken,
         EmitDone
<1>0. Fenced(r)
  BY <1>t DEF Yield, PersistProgress
<1>1. /\ target[r] \in Jobs
      /\ restored[r] \in CheckpointType /\ candidate[r] \in CandidateType
      /\ evidence[r] \in EvidenceSets /\ attempts[target[r]] + 1 \in Nat
  BY <1>0, FencedTarget DEF AtomicTypes
<1>p. "atomic_revision_required" \in Phases /\ "atomic_revision_model_started" \in Phases
  BY DEF Phases, AtomicPhases
<1>2. CASE OpenAttempt(r)
  <2>1. PICK c : c = Checkpoint("model_started", attempts[target[r]] + 1, NoCandidate,
                                0, 0, NoKey)
    OBVIOUS
  <2>2. /\ c \in CheckpointType
        /\ c.phase = "model_started" /\ c.attempt = attempts[target[r]] + 1
        /\ c.candidate = NoCandidate /\ c.emitted = 0 /\ c.key = NoKey
    BY <1>1, <2>1, CheckpointOpened
  <2>3. \E k \in Openings : Yield(r, k, 0, c)
    BY <1>2, <2>1 DEF OpenAttempt, Openings
  <2> QED BY <1>2, <2>2, <2>3 DEF YieldsFrom
<1>3. CASE StreamToken(r)
  BY <1>1, <1>3 DEF StreamToken, YieldsFrom
<1>4. ASSUME NEW p \in Phases, NEW k,
             Yield(r, k, 0, [restored[r] EXCEPT !.phase = p])
      PROVE  \E c \in CheckpointType :
               /\ Yield(r, k, 0, c) /\ c.phase = p
               /\ c.attempt = restored[r].attempt /\ c.candidate = restored[r].candidate
               /\ c.emitted = restored[r].emitted /\ c.key = restored[r].key
  BY <1>1, <1>4, CheckpointMoved
<1>5. CASE StreamCompleted(r)
  <2>1. \E c \in CheckpointType :
          /\ Yield(r, "model_completed", 0, c) /\ c.phase = "model_completed"
          /\ c.attempt = restored[r].attempt /\ c.candidate = restored[r].candidate
          /\ c.emitted = restored[r].emitted /\ c.key = restored[r].key
    BY <1>4, <1>5 DEF StreamCompleted, Phases
  <2> QED BY <1>5, <2>1 DEF YieldsFrom
<1>6. CASE RequireTargetedRevision(r)
  <2>1. PICK c : c = [restored[r] EXCEPT !.phase = "atomic_revision_required",
                                         !.base = evidence[r]]
    OBVIOUS
  <2>2. /\ c \in CheckpointType /\ c.phase = "atomic_revision_required"
        /\ c.attempt = restored[r].attempt /\ c.candidate = restored[r].candidate
        /\ c.emitted = restored[r].emitted /\ c.key = restored[r].key
    BY <1>1, <1>p, <2>1 DEF CheckpointType
  <2>3. Yield(r, "grounding.revision_required", 0, c)
    BY <1>6, <2>1 DEF RequireTargetedRevision
  <2> QED BY <1>6, <2>2, <2>3 DEF YieldsFrom
<1>7. CASE AnnounceRetrieval(r)
  <2>1. \E c \in CheckpointType :
          /\ Yield(r, "grounding.revision_retrieved", 0, c)
          /\ c.phase = "atomic_revision_retrieved"
          /\ c.attempt = restored[r].attempt /\ c.candidate = restored[r].candidate
          /\ c.emitted = restored[r].emitted /\ c.key = restored[r].key
    BY <1>4, <1>7 DEF AnnounceRetrieval, Phases, AtomicPhases
  <2> QED BY <1>7, <2>1 DEF YieldsFrom
<1>8. CASE EmitDone(r)
  <2>1. \E c \in CheckpointType :
          /\ Yield(r, "done", 0, c) /\ c.phase = "atomic_shadow_complete"
          /\ c.attempt = restored[r].attempt /\ c.candidate = restored[r].candidate
          /\ c.emitted = restored[r].emitted /\ c.key = restored[r].key
    BY <1>4, <1>8 DEF EmitDone, Phases, AtomicPhases
  <2> QED BY <1>8, <2>1 DEF YieldsFrom
<1>9. CASE RecordIntent(r)
  <2>1. PICK c : c = [restored[r] EXCEPT !.phase = "atomic_revision_model_started",
                                         !.key = Key(r, evidence[r])]
    OBVIOUS
  <2>2. /\ c \in CheckpointType /\ c.phase = "atomic_revision_model_started"
        /\ c.attempt = restored[r].attempt /\ c.candidate = restored[r].candidate
        /\ c.emitted = restored[r].emitted /\ c.key = Key(r, evidence[r])
    BY <1>1, <1>p, <2>1, KeyType DEF CheckpointType
  <2>3. Yield(r, "grounding.revision_model_started", 0, c)
    BY <1>9, <2>1 DEF RecordIntent
  <2> QED BY <1>9, <2>2, <2>3 DEF YieldsFrom
<1>10. CASE Seal(r)
  BY <1>1, <1>10, CheckpointSealed DEF Seal, YieldsFrom
<1>11. CASE EmitToken(r)
  <2>1. PICK c : c = [restored[r] EXCEPT !.emitted = restored[r].emitted + 1]
    OBVIOUS
  <2>2. restored[r].emitted + 1 \in 0..MaxText
    BY <1>1, <1>11, CheckpointFields, GatewayBounds DEF EmitToken
  <2>3. /\ c \in CheckpointType /\ c.emitted = restored[r].emitted + 1
        /\ c.phase = restored[r].phase /\ c.attempt = restored[r].attempt
        /\ c.candidate = restored[r].candidate /\ c.key = restored[r].key
    BY <1>1, <2>1, <2>2, CheckpointEmitted
  <2>4. Yield(r, "token", Token(candidate[r].row, restored[r].emitted + 1), c)
    BY <1>11, <2>1 DEF EmitToken
  <2> QED BY <1>11, <2>3, <2>4 DEF YieldsFrom
<1> QED BY <1>2, <1>3, <1>5, <1>6, <1>7, <1>8, <1>9, <1>10, <1>11 DEF YieldingStep

-----------------------------------------------------------------------------
(* The types are kept by every step.                                       *)

\* A step of one run about one job keeps the types if it keeps them there.
LEMMA TypedFrame ==
  ASSUME AtomicTyped, AtomicTypes', NEW r \in Runs, NEW j \in Jobs,
         Len(modelRuns) <= Len(modelRuns'),
         \A q \in Runs \ {r} : RunKept(q),
         \A i \in Jobs \ {j} : checkpoint'[i] = checkpoint[i] /\ attempts'[i] = attempts[i],
         checkpoint'[j].attempt <= attempts'[j],
         checkpoint'[j].candidate.row <= Len(modelRuns'),
         restored'[r].candidate.row <= Len(modelRuns'),
         candidate'[r].row <= Len(modelRuns'),
         call'[r].row <= Len(modelRuns'),
         RunShape(r)'
  PROVE  AtomicTyped'
<1>1. Len(modelRuns) \in Nat /\ Len(modelRuns') \in Nat
  BY DEF AtomicTyped, AtomicTypes
<1>2. /\ \A i \in Jobs : checkpoint[i].candidate.row \in Nat
      /\ \A q \in Runs : /\ restored[q].candidate.row \in Nat
                         /\ candidate[q].row \in Nat /\ call[q].row \in Nat
  BY CheckpointFields DEF AtomicTyped, AtomicTypes, CandidateType, CallType
<1>3. AttemptsFit'
  BY DEF AtomicTyped, AttemptsFit
<1>4. RowsExist'
  <2>1. \A i \in Jobs : checkpoint'[i].candidate.row <= Len(modelRuns')
    BY <1>1, <1>2 DEF AtomicTyped, RowsExist
  <2>2. \A q \in Runs : /\ restored'[q].candidate.row <= Len(modelRuns')
                        /\ candidate'[q].row <= Len(modelRuns')
                        /\ call'[q].row <= Len(modelRuns')
    BY <1>1, <1>2 DEF AtomicTyped, RowsExist, RunKept
  <2> QED BY <2>1, <2>2 DEF RowsExist
<1>5. ASSUME NEW q \in Runs \ {r}
      PROVE  RunShape(q)'
  BY <1>5 DEF AtomicTyped, RunsShaped, RunShape, RunKept, Calling, Idle, Trace
<1> QED BY <1>3, <1>4, <1>5 DEF AtomicTyped, RunsShaped

\* A run that is busy, as far as a step needs to know it
LEMMA RunFacts ==
  ASSUME TypeOK, AtomicTyped, NEW r \in Runs, ~Idle(r)
  PROVE  /\ target[r] \in Jobs /\ token[r] \in 1..MaxFence /\ Trace(r) \in Traces
         /\ RunShape(r) /\ CallTyped(r) /\ at[r] # "idle"
         /\ restored[r] \in CheckpointType /\ candidate[r] \in CandidateType
         /\ evidence[r] \in EvidenceSets /\ call[r] \in CallType
         /\ checkpoint[target[r]] \in CheckpointType
         /\ attempts[target[r]] \in Nat /\ strict[target[r]] \in BOOLEAN
         /\ assigned[target[r]] \in AssignmentType
         /\ assigned[target[r]].revision \in -1..1
         /\ assigned[target[r]].evidence \in EvidenceSets
         /\ restored[r].attempt \in Nat /\ restored[r].emitted \in 0..MaxText
         /\ restored[r].candidate.row \in 0..Len(modelRuns)
         /\ candidate[r].row \in 0..Len(modelRuns)
         /\ call[r].row \in 0..Len(modelRuns)
         /\ checkpoint[target[r]].attempt <= attempts[target[r]]
         /\ checkpoint[target[r]].candidate.row \in 0..Len(modelRuns)
<1>1. target[r] \in Jobs /\ token[r] \in 1..MaxFence
  BY MaxFenceAssumption DEF TypeOK, Idle
<1>2. RunShape(r) /\ at[r] # "idle"
  BY DEF AtomicTyped, RunsShaped, RunShape
<1>3. Trace(r) \in Traces
  BY <1>1 DEF Trace, Traces
<1>4. /\ restored[r] \in CheckpointType /\ candidate[r] \in CandidateType
      /\ evidence[r] \in EvidenceSets /\ call[r] \in CallType
      /\ checkpoint[target[r]] \in CheckpointType
      /\ attempts[target[r]] \in Nat /\ strict[target[r]] \in BOOLEAN
      /\ assigned[target[r]] \in AssignmentType
      /\ modelRuns \in Seq(RowType) /\ Len(modelRuns) \in Nat
      /\ call \in [Runs -> CallType] /\ dbFaults \in 0..MaxFaults
  BY <1>1 DEF AtomicTyped, AtomicTypes
<1>5. /\ restored[r].attempt \in Nat /\ restored[r].emitted \in 0..MaxText
      /\ restored[r].candidate.row \in Nat
      /\ checkpoint[target[r]].candidate.row \in Nat /\ call[r].row \in Nat
  BY <1>4, CheckpointFields, CallFields
<1>6. /\ candidate[r].row \in Nat
      /\ assigned[target[r]].revision \in -1..1
      /\ assigned[target[r]].evidence \in EvidenceSets
  BY <1>4 DEF CandidateType, AssignmentType
<1>7. /\ restored[r].candidate.row \in 0..Len(modelRuns)
      /\ candidate[r].row \in 0..Len(modelRuns)
      /\ call[r].row \in 0..Len(modelRuns)
      /\ checkpoint[target[r]].attempt <= attempts[target[r]]
      /\ checkpoint[target[r]].candidate.row \in 0..Len(modelRuns)
  BY <1>1, <1>4, <1>5, <1>6 DEF AtomicTyped, RowsExist, AttemptsFit
<1>8. CallTyped(r)
  BY <1>2, <1>3, <1>4, <1>7 DEF CallTyped, RunShape
<1> QED BY <1>1, <1>2, <1>3, <1>4, <1>5, <1>6, <1>7, <1>8

\* What the yielding steps do besides the yield
LEMMA YieldRest ==
  ASSUME TypeOK, AtomicTyped, NEW r \in Runs, YieldingStep(r)
  PROVE  /\ strict' = strict /\ evidence' = evidence /\ candidate' = candidate
         /\ modelRuns' = modelRuns /\ dbFaults' = dbFaults
         /\ call' \in [Runs -> CallType] /\ walkedAway' \in Nat
         /\ \A q \in Runs \ {r} : call'[q] = call[q]
         /\ call'[r].row \in {0, call[r].row}
         /\ \/ call' = call /\ walkedAway' = walkedAway /\ ~Calling(r)
            \/ /\ StreamToken(r) /\ Pull(r) /\ walkedAway' = walkedAway
            \/ StreamCompleted(r) /\ Leave(r)
         /\ at' \in [Runs -> Places] /\ at'[r] # "idle"
         /\ \A q \in Runs \ {r} : at'[q] = at[q]
         /\ StreamToken(r) => at' = at
         /\ assigned' \in [Jobs -> AssignmentType]
         /\ \A j \in Jobs \ {target[r]} : assigned'[j] = assigned[j]
<1>t. \E k, d, c : Yield(r, k, d, c)
  BY DEF YieldingStep, OpenAttempt, StreamToken, StreamCompleted,
         RequireTargetedRevision, AnnounceRetrieval, RecordIntent, Seal, EmitToken,
         EmitDone
<1>0. Fenced(r)
  BY <1>t DEF Yield, PersistProgress
<1>1. ~Idle(r) /\ target[r] \in Jobs
  BY <1>0, FencedTarget
<1>2. RunShape(r) /\ at[r] # "idle" /\ assigned[target[r]] \in AssignmentType
  BY <1>1, RunFacts
<1>3. /\ call \in [Runs -> CallType] /\ walkedAway \in Nat
      /\ at \in [Runs -> Places] /\ assigned \in [Jobs -> AssignmentType]
  BY DEF AtomicTyped, AtomicTypes
<1>4. ASSUME OpenAttempt(r) \/ AnnounceRetrieval(r) \/ RecordIntent(r) \/ Seal(r)
             \/ EmitToken(r) \/ EmitDone(r) \/ RequireTargetedRevision(r)
      PROVE  /\ strict' = strict /\ evidence' = evidence /\ candidate' = candidate
             /\ UNCHANGED gatewayVars /\ ~Calling(r)
             /\ at' \in [Runs -> Places] /\ at'[r] # "idle"
             /\ \A q \in Runs \ {r} : at'[q] = at[q]
  <2>1. \E place \in Places \ {"idle"} : at' = [at EXCEPT ![r] = place]
    <3>1. CASE EmitToken(r)
      BY <1>2, <1>3, <3>1 DEF EmitToken
    <3> QED
      BY <1>4, <3>1 DEF OpenAttempt, AnnounceRetrieval, RecordIntent, Seal, EmitDone,
                        RequireTargetedRevision, Goto, Places
  <2>2. ~Calling(r)
    BY <1>2, <1>4 DEF RunShape, OpenAttempt, AnnounceRetrieval, RecordIntent, Seal,
                      EmitToken, EmitDone, RequireTargetedRevision
  <2>3. /\ strict' = strict /\ evidence' = evidence /\ candidate' = candidate
        /\ UNCHANGED gatewayVars
    BY <1>4 DEF OpenAttempt, AnnounceRetrieval, RecordIntent, Seal, EmitToken,
                EmitDone, RequireTargetedRevision
  <2> QED BY <1>3, <2>1, <2>2, <2>3
<1>5. ASSUME OpenAttempt(r) \/ AnnounceRetrieval(r) \/ RecordIntent(r) \/ Seal(r)
             \/ EmitToken(r) \/ EmitDone(r) \/ StreamToken(r) \/ StreamCompleted(r)
      PROVE  assigned' = assigned
  BY <1>5 DEF OpenAttempt, AnnounceRetrieval, RecordIntent, Seal, EmitToken,
              EmitDone, StreamToken, StreamCompleted
<1>6. ASSUME RequireTargetedRevision(r)
      PROVE  /\ assigned' \in [Jobs -> AssignmentType]
             /\ \A j \in Jobs \ {target[r]} : assigned'[j] = assigned[j]
  <2>1. PICK a : a = [assigned[target[r]] EXCEPT !.revision = 1]
    OBVIOUS
  <2>2. a \in AssignmentType
    BY <1>2, <2>1 DEF AssignmentType
  <2>3. Assigns(r, a)
    BY <1>6, <2>1 DEF RequireTargetedRevision, Assigns
  <2> QED BY <1>1, <2>2, <2>3, AssignFacts DEF AtomicTyped
<1>7. CASE StreamToken(r)
  <2>1. /\ Pull(r) /\ UNCHANGED <<modelRuns, dbFaults, walkedAway, strict, assigned, at,
                                  candidate, evidence>>
    BY <1>7 DEF StreamToken
  <2> QED BY <1>2, <1>3, <1>7, <2>1, PullFacts
<1>8. CASE StreamCompleted(r)
  <2>1. Leave(r) /\ at' = [at EXCEPT ![r] = "finish"]
        /\ UNCHANGED <<strict, assigned, candidate, evidence>>
    BY <1>8 DEF StreamCompleted, Goto
  <2>2. "finish" \in Places
    BY DEF Places
  <2>3. ~StreamToken(r)
    BY <1>8 DEF StreamToken, StreamCompleted
  <2> QED BY <1>3, <1>8, <2>1, <2>2, <2>3, LeaveFacts
<1>9. CASE RequireTargetedRevision(r)
  <2>1. ~StreamToken(r)
    BY <1>4, <1>9 DEF StreamToken, Calling
  <2> QED BY <1>3, <1>4, <1>6, <1>9, <2>1 DEF gatewayVars
<1>10. CASE OpenAttempt(r) \/ AnnounceRetrieval(r) \/ RecordIntent(r) \/ Seal(r)
            \/ EmitToken(r) \/ EmitDone(r)
  <2>1. ~StreamToken(r)
    BY <1>4, <1>10 DEF StreamToken, Calling
  <2> QED BY <1>3, <1>4, <1>5, <1>10, <2>1 DEF gatewayVars
<1> QED BY <1>7, <1>8, <1>9, <1>10 DEF YieldingStep

\* A checkpoint is derived from values whose rows exist.
LEMMA YieldedRow ==
  ASSUME TypeOK, AtomicTyped, NEW r \in Runs, ~Idle(r), NEW c \in CheckpointType,
         YieldsFrom(r, c)
  PROVE  c.candidate.row \in 0..Len(modelRuns)
<1>1. NoCandidate.row = 0
  BY DEF NoCandidate
<1>2. /\ restored[r].candidate.row \in 0..Len(modelRuns)
      /\ candidate[r].row \in 0..Len(modelRuns) /\ 0 \in 0..Len(modelRuns)
  BY RunFacts
<1>3. c.candidate \in {NoCandidate, restored[r].candidate, candidate[r]}
  BY DEF YieldsFrom
<1> QED BY <1>1, <1>2, <1>3

\* A yield appends a progress event and keeps the types.
LEMMA YieldTyped ==
  ASSUME TypeOK, AtomicTyped, NEW r \in Runs, YieldingStep(r)
  PROVE  /\ AtomicTyped' /\ RunStep(r)
         /\ \A q \in Runs \ {r} : RunKept(q)
         /\ \A j \in Jobs \ {target[r]} : JobKept(j)
         /\ target[r] \in Jobs
<1>1. PICK c \in CheckpointType : YieldsFrom(r, c)
  BY YieldShape DEF AtomicTyped
<1>2. PICK k \in AtomicKinds, d \in Nat : Yield(r, k, d, c)
  <2>1. \/ \E k \in Openings : Yield(r, k, 0, c)
        \/ Yield(r, "token", Token(call[r].row, call[r].text), c)
        \/ Yield(r, "model_completed", 0, c)
        \/ Yield(r, "grounding.revision_required", 0, c)
        \/ Yield(r, "grounding.revision_retrieved", 0, c)
        \/ Yield(r, "done", 0, c)
        \/ Yield(r, "grounding.revision_model_started", 0, c)
        \/ Yield(r, "grounding.proposal_validated", 0, c)
        \/ Yield(r, "token", Token(candidate[r].row, restored[r].emitted + 1), c)
    BY <1>1 DEF YieldsFrom
  <2>2. Fenced(r)
    BY <2>1 DEF Yield, PersistProgress
  <2>3. ~Idle(r)
    BY <2>2, FencedTarget
  <2>4. /\ call[r].row \in Nat /\ call[r].text \in Nat
        /\ candidate[r].row \in Nat /\ restored[r].emitted + 1 \in Nat
    BY <2>3, RunFacts, CallFields, GatewayBounds
  <2>5. /\ Token(call[r].row, call[r].text) \in Nat
        /\ Token(candidate[r].row, restored[r].emitted + 1) \in Nat
    BY <2>4, TokenIsNumber
  <2> QED BY <2>1, <2>5 DEF AtomicKinds, Openings
<1>3. /\ Fenced(r) /\ target[r] \in Jobs /\ token[r] \in 1..MaxFence
      /\ checkpoint' \in [Jobs -> CheckpointType] /\ checkpoint'[target[r]] = c
      /\ attempts' \in [Jobs -> Nat] /\ attempts'[target[r]] = c.attempt
      /\ restored' \in [Runs -> CheckpointType] /\ restored'[r] = c
      /\ \A q \in Runs \ {r} : restored'[q] = restored[q]
      /\ \A j \in Jobs \ {target[r]} :
           /\ checkpoint'[j] = checkpoint[j] /\ attempts'[j] = attempts[j]
           /\ events'[j] = events[j]
      /\ token' = token /\ target' = target /\ fencingToken' = fencingToken
  BY <1>2, YieldFacts DEF AtomicTyped, runVars, leaseVars
<1>4. ~Idle(r)
  BY <1>3, FencedTarget
<1>5. /\ strict' = strict /\ evidence' = evidence /\ candidate' = candidate
      /\ modelRuns' = modelRuns /\ dbFaults' = dbFaults
      /\ call' \in [Runs -> CallType] /\ walkedAway' \in Nat
      /\ \A q \in Runs \ {r} : call'[q] = call[q]
      /\ call'[r].row \in {0, call[r].row}
      /\ at' \in [Runs -> Places] /\ at'[r] # "idle"
      /\ \A q \in Runs \ {r} : at'[q] = at[q]
      /\ assigned' \in [Jobs -> AssignmentType]
      /\ \A j \in Jobs \ {target[r]} : assigned'[j] = assigned[j]
  BY YieldRest
<1>6. AtomicTypes'
  BY <1>3, <1>5 DEF AtomicTyped, AtomicTypes
<1>7. /\ c.candidate.row <= Len(modelRuns) /\ candidate[r].row <= Len(modelRuns)
      /\ call[r].row <= Len(modelRuns) /\ Len(modelRuns) \in Nat /\ c.attempt \in Nat
  <2>1. Len(modelRuns) \in Nat
    BY DEF AtomicTyped, AtomicTypes
  <2>2. c.candidate.row \in 0..Len(modelRuns)
    BY <1>1, <1>4, YieldedRow
  <2>3. candidate[r].row \in 0..Len(modelRuns) /\ call[r].row \in 0..Len(modelRuns)
    BY <1>4, RunFacts
  <2> QED BY <2>1, <2>2, <2>3, CheckpointFields
<1>8. RunShape(r)'
  <2>1. RunShape(r)
    BY <1>4, RunFacts
  <2>2. CASE call' = call /\ ~Calling(r)
    BY <1>3, <1>4, <1>5, <2>1, <2>2 DEF RunShape, Calling, Idle
  <2>3. CASE StreamToken(r) /\ Pull(r)
    <3>1. Calling(r)
      BY <2>3 DEF StreamToken, Calling
    <3>2. /\ call'[r].pc = "stream" /\ call'[r].trace = call[r].trace
          /\ call'[r].key = call[r].key
      BY <2>3, PullFacts DEF AtomicTyped, AtomicTypes
    <3>3. at' = at /\ restored'[r] = restored[r]
      <4>1. Yield(r, "token", Token(call[r].row, call[r].text), restored[r])
        BY <2>3 DEF StreamToken
      <4>2. restored[r] \in CheckpointType
        BY DEF AtomicTyped, AtomicTypes
      <4> QED BY <2>3, <4>1, <4>2, YieldRest, YieldFacts DEF AtomicTyped
    <3> QED BY <1>3, <1>4, <2>1, <3>1, <3>2, <3>3 DEF RunShape, Calling, Idle, Trace
  <2>4. CASE StreamCompleted(r) /\ Leave(r)
    <3>1. call'[r] = NoCall /\ call'[r].pc = "none"
      BY <2>4, LeaveFacts DEF AtomicTyped, AtomicTypes
    <3> QED BY <1>3, <1>4, <1>5, <3>1 DEF RunShape, Calling, Idle
  <2> QED BY <2>2, <2>3, <2>4, YieldRest
<1>9. \A q \in Runs \ {r} : RunKept(q)
  BY <1>3, <1>5 DEF RunKept
<1>10. \A j \in Jobs \ {target[r]} : JobKept(j)
  BY <1>3, <1>5 DEF JobKept
<1>11. /\ call'[r].row <= Len(modelRuns') /\ candidate'[r].row <= Len(modelRuns')
       /\ Len(modelRuns) <= Len(modelRuns')
       /\ checkpoint'[target[r]].attempt <= attempts'[target[r]]
       /\ checkpoint'[target[r]].candidate.row <= Len(modelRuns')
       /\ restored'[r].candidate.row <= Len(modelRuns')
  BY <1>3, <1>5, <1>7
<1>12. AtomicTyped'
  BY <1>3, <1>6, <1>8, <1>9, <1>11, TypedFrame
<1> QED BY <1>2, <1>3, <1>9, <1>10, <1>12, YieldStep

\* The steps between the transactions of the store, and outside a call
LocalStep(r) ==
  \/ AssignEvidence(r) \/ ReviewAssignment(r) \/ ReplaceEvidence(r)
  \/ PrepareRevision(r) \/ InspectOperation(r) \/ Recover(r)

\* What such a step leaves alone, and where it goes
LEMMA LocalFacts ==
  ASSUME TypeOK, AtomicTyped, NEW r \in Runs, LocalStep(r)
  PROVE  /\ ~Idle(r) /\ target[r] \in Jobs /\ ~Calling(r)
         /\ UNCHANGED <<vars, gatewayVars, strict, checkpoint, attempts, restored>>
         /\ at' \in [Runs -> Places] /\ at'[r] # "idle"
         /\ \A q \in Runs \ {r} :
              /\ at'[q] = at[q] /\ candidate'[q] = candidate[q]
              /\ evidence'[q] = evidence[q]
         /\ \A j \in Jobs \ {target[r]} : assigned'[j] = assigned[j]
         /\ AtomicTypes' /\ candidate'[r].row \in {candidate[r].row, restored[r].candidate.row}
<1>1. ~Idle(r) /\ ~Calling(r)
  <2>1. RunShape(r)
    BY DEF AtomicTyped, RunsShaped
  <2> QED BY <2>1 DEF RunShape, LocalStep, AssignEvidence, ReviewAssignment,
          ReplaceEvidence, PrepareRevision, InspectOperation, Recover
<1>2. /\ target[r] \in Jobs /\ token[r] \in 1..MaxFence
      /\ restored[r].candidate \in CandidateType
      /\ assigned[target[r]] \in AssignmentType
      /\ assigned[target[r]].evidence \in EvidenceSets
  BY <1>1, RunFacts, CheckpointFields
<1>3. UNCHANGED <<vars, gatewayVars, strict, checkpoint, attempts, restored>>
  BY DEF LocalStep, AssignEvidence, ReviewAssignment, ReplaceEvidence,
         PrepareRevision, InspectOperation, Recover, atomicRows
<1>4. \E place \in Places \ {"idle"} : at' = [at EXCEPT ![r] = place]
  BY DEF LocalStep, AssignEvidence, ReviewAssignment, ReplaceEvidence,
         PrepareRevision, InspectOperation, Recover, Goto, Places
<1>5. /\ assigned' \in [Jobs -> AssignmentType]
      /\ \A j \in Jobs \ {target[r]} : assigned'[j] = assigned[j]
  <2>0. AtomicTypes
    BY DEF AtomicTyped
  <2>1. CASE AssignEvidence(r)
    <3>1. PICK a : a = [revision |-> 0, evidence |-> token[r]]
      OBVIOUS
    <3>2. a \in AssignmentType
      BY <1>2, <3>1, MaxFenceAssumption DEF AssignmentType, EvidenceSets
    <3>3. Assigns(r, a)
      BY <2>1, <3>1 DEF AssignEvidence, Assigns
    <3> QED BY <1>2, <2>0, <3>2, <3>3, AssignFacts
  <2>2. CASE ReplaceEvidence(r)
    <3>1. PICK a : a = [assigned[target[r]] EXCEPT !.evidence = MaxFence + token[r]]
      OBVIOUS
    <3>2. MaxFence + token[r] \in EvidenceSets
      BY <1>2, MaxFenceAssumption DEF EvidenceSets
    <3>3. a \in AssignmentType
      BY <1>2, <3>1, <3>2 DEF AssignmentType
    <3>4. Assigns(r, a)
      BY <2>2, <3>1 DEF ReplaceEvidence, Assigns
    <3> QED BY <1>2, <2>0, <3>3, <3>4, AssignFacts
  <2>3. CASE ReviewAssignment(r) \/ PrepareRevision(r) \/ InspectOperation(r) \/ Recover(r)
    <3>1. assigned' = assigned
      BY <2>3 DEF ReviewAssignment, PrepareRevision, InspectOperation, Recover, atomicRows
    <3> QED BY <2>0, <3>1 DEF AtomicTypes
  <2> QED BY <2>1, <2>2, <2>3 DEF LocalStep
<1>6. /\ candidate' \in [Runs -> CandidateType]
      /\ candidate'[r].row \in {candidate[r].row, restored[r].candidate.row}
      /\ \A q \in Runs \ {r} : candidate'[q] = candidate[q]
  <2>1. candidate \in [Runs -> CandidateType]
    BY DEF AtomicTyped, AtomicTypes
  <2>2. candidate' = candidate \/ candidate' = [candidate EXCEPT ![r] = restored[r].candidate]
    BY DEF LocalStep, AssignEvidence, ReviewAssignment, ReplaceEvidence,
           PrepareRevision, InspectOperation, Recover
  <2> QED BY <1>2, <2>1, <2>2
<1>7. /\ evidence' \in [Runs -> EvidenceSets]
      /\ \A q \in Runs \ {r} : evidence'[q] = evidence[q]
  <2>1. evidence \in [Runs -> EvidenceSets]
    BY DEF AtomicTyped, AtomicTypes
  <2>2. \/ evidence' = evidence
        \/ evidence' = [evidence EXCEPT ![r] = assigned[target[r]].evidence]
    BY DEF LocalStep, AssignEvidence, ReviewAssignment, ReplaceEvidence,
           PrepareRevision, InspectOperation, Recover
  <2> QED BY <1>2, <2>1, <2>2
<1>8. at' \in [Runs -> Places] /\ at'[r] # "idle" /\ \A q \in Runs \ {r} : at'[q] = at[q]
  BY <1>4 DEF AtomicTyped, AtomicTypes
<1>9. AtomicTypes'
  BY <1>3, <1>5, <1>6, <1>7, <1>8 DEF AtomicTyped, AtomicTypes, gatewayVars
<1> QED BY <1>1, <1>2, <1>3, <1>5, <1>6, <1>7, <1>8, <1>9

\* They keep the types.
LEMMA LocalTyped ==
  ASSUME TypeOK, AtomicTyped, NEW r \in Runs, LocalStep(r)
  PROVE  /\ AtomicTyped' /\ UNCHANGED vars
         /\ \A q \in Runs \ {r} : RunKept(q)
         /\ \A j \in Jobs \ {target[r]} : JobKept(j)
<1>1. /\ ~Idle(r) /\ target[r] \in Jobs /\ ~Calling(r) /\ at'[r] # "idle"
      /\ UNCHANGED <<vars, gatewayVars, strict, checkpoint, attempts, restored>>
      /\ AtomicTypes' /\ candidate'[r].row \in {candidate[r].row, restored[r].candidate.row}
  BY LocalFacts
<1>2. \A q \in Runs \ {r} : RunKept(q)
  BY <1>1, LocalFacts DEF RunKept, vars, runVars, gatewayVars
<1>3. \A j \in Jobs \ {target[r]} : JobKept(j)
  BY <1>1, LocalFacts DEF JobKept, vars, rowVars, leaseVars
<1>4. RunShape(r)'
  BY <1>1, RunFacts DEF RunShape, Calling, Idle, vars, runVars, gatewayVars
<1>5. AtomicTyped'
  <2>1. /\ Len(modelRuns) \in Nat
        /\ candidate[r].row <= Len(modelRuns) /\ restored[r].candidate.row <= Len(modelRuns)
        /\ call[r].row <= Len(modelRuns)
        /\ checkpoint[target[r]].attempt <= attempts[target[r]]
        /\ checkpoint[target[r]].candidate.row <= Len(modelRuns)
    BY <1>1, RunFacts DEF AtomicTyped, AtomicTypes
  <2> QED BY <1>1, <1>2, <1>4, <2>1, TypedFrame DEF gatewayVars
<1> QED BY <1>1, <1>2, <1>3, <1>5

\* The model is asked for a draft, or for its revision.
Asks(r) == CallForDraft(r) \/ CallForRevision(r)

\* A call begins fresh, under the trace of its run; nothing else is touched.
LEMMA AskFacts ==
  ASSUME TypeOK, AtomicTyped, NEW r \in Runs, Asks(r)
  PROVE  /\ ~Idle(r) /\ target[r] \in Jobs /\ ~Calling(r)
         /\ UNCHANGED <<vars, atomicRows, restored, candidate, modelRuns, dbFaults,
                        walkedAway>>
         /\ call' \in [Runs -> CallType]
         /\ \A q \in Runs \ {r} : call'[q] = call[q]
         /\ call'[r].pc = "start" /\ call'[r].row = 0 /\ call'[r].text = 0
         /\ call'[r].trace = Trace(r)
         /\ at' \in [Runs -> Places]
         /\ \A q \in Runs \ {r} : at'[q] = at[q] /\ evidence'[q] = evidence[q]
         /\ evidence' \in [Runs -> EvidenceSets]
         /\ \/ /\ at[r] = "load" /\ at'[r] = "draft" /\ call'[r].key = NoKey
               /\ call'[r].mode = IF strict[target[r]] THEN "structured" ELSE "text"
            \/ /\ at[r] = "dispatch" /\ at'[r] = "revise"
               /\ call'[r].key = Key(r, evidence[r]) /\ call'[r].key # NoKey
               /\ evidence' = evidence /\ call'[r].mode = "structured"
<1>1. ~Idle(r) /\ ~Calling(r)
  <2>1. RunShape(r)
    BY DEF AtomicTyped, RunsShaped
  <2> QED BY <2>1 DEF RunShape, Asks, CallForDraft, CallForRevision
<1>2. /\ target[r] \in Jobs /\ Trace(r) \in Traces /\ evidence[r] \in EvidenceSets
      /\ assigned[target[r]].evidence \in EvidenceSets /\ AtomicTypes
      /\ call \in [Runs -> CallType]
  BY <1>1, RunFacts DEF AtomicTyped, AtomicTypes
<1>3. NoKey \in Keys /\ Key(r, evidence[r]) \in Keys /\ Key(r, evidence[r]) # NoKey
  BY <1>2, KeyType, Nothing
<1>4. CASE CallForDraft(r)
  <2>1. PICK mode \in {"text", "structured"} :
          /\ mode = IF strict[target[r]] THEN "structured" ELSE "text"
          /\ Begin(r, mode, Trace(r), NoKey)
    BY <1>4 DEF CallForDraft
  <2>2. /\ at[r] = "load" /\ at' = [at EXCEPT ![r] = "draft"]
        /\ evidence' = [evidence EXCEPT ![r] = assigned[target[r]].evidence]
        /\ UNCHANGED <<vars, atomicRows, restored, candidate>>
    BY <1>4 DEF CallForDraft, Goto
  <2>3. /\ call' \in [Runs -> CallType]
        /\ \A q \in Runs \ {r} : call'[q] = call[q]
        /\ call'[r].pc = "start" /\ call'[r].row = 0 /\ call'[r].text = 0
        /\ call'[r].trace = Trace(r) /\ call'[r].key = NoKey /\ call'[r].mode = mode
        /\ UNCHANGED <<modelRuns, dbFaults, walkedAway>>
    BY <1>2, <1>3, <2>1, BeginFacts
  <2>4. /\ at' \in [Runs -> Places] /\ at'[r] = "draft"
        /\ \A q \in Runs \ {r} : at'[q] = at[q] /\ evidence'[q] = evidence[q]
        /\ evidence' \in [Runs -> EvidenceSets]
    BY <1>2, <2>2 DEF AtomicTypes, Places
  <2> QED BY <1>1, <1>2, <2>1, <2>2, <2>3, <2>4
<1>5. CASE CallForRevision(r)
  <2>1. /\ at[r] = "dispatch" /\ at' = [at EXCEPT ![r] = "revise"]
        /\ Begin(r, "structured", Trace(r), Key(r, evidence[r]))
        /\ UNCHANGED <<vars, atomicRows, restored, candidate, evidence>>
    BY <1>5 DEF CallForRevision, Goto
  <2>3. /\ call' \in [Runs -> CallType]
        /\ \A q \in Runs \ {r} : call'[q] = call[q]
        /\ call'[r].pc = "start" /\ call'[r].row = 0 /\ call'[r].text = 0
        /\ call'[r].trace = Trace(r) /\ call'[r].key = Key(r, evidence[r])
        /\ call'[r].mode = "structured"
        /\ UNCHANGED <<modelRuns, dbFaults, walkedAway>>
    BY <1>2, <1>3, <2>1, BeginFacts
  <2>4. /\ at' \in [Runs -> Places] /\ at'[r] = "revise"
        /\ \A q \in Runs \ {r} : at'[q] = at[q]
    BY <1>2, <2>1 DEF AtomicTypes, Places
  <2> QED BY <1>1, <1>2, <1>3, <2>1, <2>3, <2>4 DEF AtomicTypes
<1> QED BY <1>4, <1>5 DEF Asks

\* So it keeps the types, and leaves jobs and other runs alone.
LEMMA AskTyped ==
  ASSUME TypeOK, AtomicTyped, NEW r \in Runs, Asks(r)
  PROVE  /\ AtomicTyped' /\ UNCHANGED vars
         /\ \A q \in Runs \ {r} : RunKept(q)
         /\ \A j \in Jobs : JobKept(j)
<1>1. /\ ~Idle(r) /\ target[r] \in Jobs /\ call'[r].row = 0 /\ call'[r].pc = "start"
      /\ UNCHANGED <<vars, atomicRows, restored, candidate, modelRuns>>
      /\ call'[r].trace = Trace(r)
      /\ \/ at'[r] = "draft" /\ call'[r].key = NoKey
         \/ at'[r] = "revise" /\ call'[r].key # NoKey
  BY AskFacts
<1>2. \A q \in Runs \ {r} : RunKept(q)
  BY <1>1, AskFacts DEF RunKept, vars, runVars
<1>3. \A j \in Jobs : JobKept(j)
  BY <1>1 DEF JobKept, vars, rowVars, leaseVars, atomicRows
<1>4. RunShape(r)'
  BY <1>1 DEF RunShape, Calling, Idle, vars, runVars, Trace
<1>5. AtomicTypes'
  BY AskFacts DEF AtomicTyped, AtomicTypes, atomicRows
<1>6. AtomicTyped'
  <2>1. /\ Len(modelRuns) \in Nat
        /\ candidate[r].row <= Len(modelRuns) /\ restored[r].candidate.row <= Len(modelRuns)
        /\ checkpoint[target[r]].attempt <= attempts[target[r]]
        /\ checkpoint[target[r]].candidate.row <= Len(modelRuns)
    BY <1>1, RunFacts DEF AtomicTyped, AtomicTypes
  <2> QED BY <1>1, <1>2, <1>4, <1>5, <2>1, TypedFrame DEF atomicRows
<1> QED BY <1>1, <1>2, <1>3, <1>6

\* The generator of a call runs on.
LEMMA ModelTyped ==
  ASSUME TypeOK, AtomicTyped, NEW r \in Runs, ModelStep(r)
  PROVE  /\ AtomicTyped' /\ UNCHANGED <<vars, atomicRows, execVars>>
         /\ ~Idle(r) /\ CallGoesOn(r)
         /\ \A q \in Runs \ {r} : RunKept(q)
         /\ \A j \in Jobs : JobKept(j)
<1>1. GatewayStep(r, aborted[r]) /\ UNCHANGED <<vars, atomicRows, execVars>>
  BY DEF ModelStep
<1>2. CallTyped(r) /\ RunShape(r)
  <2>1. /\ modelRuns \in Seq(RowType) /\ call \in [Runs -> CallType]
        /\ dbFaults \in 0..MaxFaults /\ Len(modelRuns) \in Nat
    BY DEF AtomicTyped, AtomicTypes
  <2>2. call[r].row \in 0..Len(modelRuns)
    BY <2>1, CallFields DEF AtomicTyped, RowsExist
  <2>3. RunShape(r)
    BY DEF AtomicTyped, RunsShaped
  <2>4. Calling(r) => call[r].trace \in Traces
    <3>1. Calling(r) => ~Idle(r)
      BY <2>3 DEF RunShape
    <3> QED BY <2>3, <3>1, RunFacts DEF RunShape
  <2> QED BY <2>1, <2>2, <2>3, <2>4 DEF CallTyped
<1>3. CallGoesOn(r)
  BY <1>1, <1>2, GatewayStepFacts
<1>4. ~Idle(r) /\ RunShape(r)
  BY <1>2, <1>3 DEF CallGoesOn, RunShape
<1>5. \A q \in Runs \ {r} : RunKept(q)
  BY <1>1, <1>3 DEF RunKept, CallGoesOn, vars, runVars, execVars
<1>6. \A j \in Jobs : JobKept(j)
  BY <1>1 DEF JobKept, vars, rowVars, leaseVars, atomicRows
<1>7. RunShape(r)'
  BY <1>1, <1>3, <1>4 DEF RunShape, CallGoesOn, Calling, Idle, vars, runVars, execVars, Trace
<1>8. AtomicTypes'
  BY <1>1, <1>3 DEF AtomicTyped, AtomicTypes, CallGoesOn, RowsGrow, atomicRows, execVars
<1>9. AtomicTyped'
  <2>1. /\ Len(modelRuns) \in Nat /\ Len(modelRuns') \in Nat
        /\ Len(modelRuns) <= Len(modelRuns')
    BY <1>3, <1>8 DEF AtomicTyped, AtomicTypes, CallGoesOn, RowsGrow
  <2>2. /\ candidate[r].row \in 0..Len(modelRuns)
        /\ restored[r].candidate.row \in 0..Len(modelRuns)
        /\ checkpoint[target[r]].attempt <= attempts[target[r]]
        /\ checkpoint[target[r]].candidate.row \in 0..Len(modelRuns)
        /\ target[r] \in Jobs
    BY <1>4, RunFacts
  <2>3. /\ call'[r].row <= Len(modelRuns')
        /\ candidate'[r].row <= Len(modelRuns')
        /\ restored'[r].candidate.row <= Len(modelRuns')
        /\ checkpoint'[target[r]].attempt <= attempts'[target[r]]
        /\ checkpoint'[target[r]].candidate.row <= Len(modelRuns')
    BY <1>1, <1>3, <2>1, <2>2 DEF CallGoesOn, atomicRows, execVars
  <2>4. \A i \in Jobs : checkpoint'[i] = checkpoint[i] /\ attempts'[i] = attempts[i]
    BY <1>1 DEF atomicRows
  <2> QED BY <1>5, <1>7, <1>8, <2>1, <2>2, <2>3, <2>4, TypedFrame
<1> QED BY <1>1, <1>3, <1>4, <1>5, <1>6, <1>9

\* The answer is verified.
LEMMA VerifyFacts ==
  ASSUME TypeOK, AtomicTyped, NEW r \in Runs, Verify(r)
  PROVE  /\ ~Idle(r) /\ target[r] \in Jobs /\ Calling(r) /\ at[r] \in {"draft", "revise"}
         /\ UNCHANGED <<vars, atomicRows, restored, evidence>> /\ Leave(r)
         /\ at' \in [Runs -> Places] /\ at'[r] # "idle"
         /\ candidate' \in [Runs -> CandidateType]
         /\ \A q \in Runs \ {r} : at'[q] = at[q] /\ candidate'[q] = candidate[q]
         /\ candidate'[r].row \in {candidate[r].row, call[r].row}
         /\ \/ /\ candidate'[r].row = call[r].row
               /\ at'[r] = IF at[r] = "draft" THEN "validate" ELSE "persist"
            \/ at[r] = "draft" /\ at'[r] = "require"
<1>1. Calling(r) /\ Leave(r) /\ UNCHANGED <<vars, atomicRows, restored, evidence>>
  BY DEF Verify, Calling
<1>2. ~Idle(r) /\ at[r] \in {"draft", "revise"}
  <2>1. RunShape(r)
    BY DEF AtomicTyped, RunsShaped
  <2> QED BY <1>1, <2>1 DEF RunShape
<1>3. target[r] \in Jobs /\ call[r].row \in Nat /\ evidence[r] \in EvidenceSets
  BY <1>2, RunFacts, CallFields
<1>4. at \in [Runs -> Places] /\ candidate \in [Runs -> CandidateType]
  BY DEF AtomicTyped, AtomicTypes
<1>5. CASE candidate' = candidate /\ at' = [at EXCEPT ![r] = "require"] /\ at[r] = "draft"
  BY <1>1, <1>2, <1>3, <1>4, <1>5 DEF Places
<1>6. CASE /\ candidate' = [candidate EXCEPT ![r] =
                              [row |-> call[r].row, evidence |-> evidence[r]]]
           /\ at' = [at EXCEPT ![r] = IF at[r] = "draft" THEN "validate" ELSE "persist"]
  <2>1. PICK c : c = [row |-> call[r].row, evidence |-> evidence[r]]
    OBVIOUS
  <2>2. c \in CandidateType /\ c.row = call[r].row
    BY <1>3, <2>1 DEF CandidateType
  <2>3. candidate' = [candidate EXCEPT ![r] = c]
    BY <1>6, <2>1
  <2>4. /\ candidate' \in [Runs -> CandidateType] /\ candidate'[r] = c
        /\ \A q \in Runs \ {r} : candidate'[q] = candidate[q]
    BY <1>4, <2>2, <2>3
  <2>5. PICK place \in {"validate", "persist"} :
          /\ place = IF at[r] = "draft" THEN "validate" ELSE "persist"
          /\ at' = [at EXCEPT ![r] = place]
    BY <1>6
  <2>6. /\ at' \in [Runs -> Places] /\ at'[r] = place /\ place # "idle"
        /\ \A q \in Runs \ {r} : at'[q] = at[q]
    BY <1>4, <2>5 DEF Places
  <2> QED BY <1>1, <1>2, <1>3, <2>2, <2>4, <2>5, <2>6
<1> QED BY <1>5, <1>6 DEF Verify, Goto

\* A verdict keeps the types: its candidate is of a row the call was given.
LEMMA VerifyTyped ==
  ASSUME TypeOK, AtomicTyped, NEW r \in Runs, Verify(r)
  PROVE  /\ AtomicTyped' /\ UNCHANGED vars
         /\ \A q \in Runs \ {r} : RunKept(q)
         /\ \A j \in Jobs : JobKept(j)
<1>1. /\ ~Idle(r) /\ target[r] \in Jobs /\ at'[r] # "idle"
      /\ UNCHANGED <<vars, atomicRows, restored, evidence>> /\ Leave(r)
      /\ at' \in [Runs -> Places] /\ candidate' \in [Runs -> CandidateType]
      /\ candidate'[r].row \in {candidate[r].row, call[r].row}
  BY VerifyFacts
<1>2. /\ call' \in [Runs -> CallType]
      /\ \A q \in Runs \ {r} : call'[q] = call[q]
      /\ call'[r] = NoCall /\ call'[r].pc = "none" /\ call'[r].row = 0
      /\ modelRuns' = modelRuns /\ dbFaults' = dbFaults /\ walkedAway' \in Nat
  BY <1>1, LeaveFacts DEF AtomicTyped, AtomicTypes
<1>3. \A q \in Runs \ {r} : RunKept(q)
  BY <1>1, <1>2, VerifyFacts DEF RunKept, vars, runVars
<1>4. \A j \in Jobs : JobKept(j)
  BY <1>1 DEF JobKept, vars, rowVars, leaseVars, atomicRows
<1>5. RunShape(r)'
  BY <1>1, <1>2 DEF RunShape, Calling, Idle, vars, runVars
<1>6. AtomicTypes'
  BY <1>1, <1>2 DEF AtomicTyped, AtomicTypes, atomicRows
<1>7. /\ Len(modelRuns) \in Nat
      /\ candidate[r].row <= Len(modelRuns) /\ restored[r].candidate.row <= Len(modelRuns)
      /\ call[r].row <= Len(modelRuns)
      /\ checkpoint[target[r]].attempt <= attempts[target[r]]
      /\ checkpoint[target[r]].candidate.row <= Len(modelRuns)
  BY <1>1, RunFacts DEF AtomicTyped, AtomicTypes
<1>8. AtomicTyped'
  BY <1>1, <1>2, <1>3, <1>5, <1>6, <1>7, TypedFrame DEF atomicRows
<1> QED BY <1>1, <1>3, <1>4, <1>8

\* HTTP handlers and the clock.
HandlerStep(j) == CreateJob(j) \/ CancelJob(j) \/ ResumeJob(j) \/ LoseLease(j)

\* A handler touches one job row, and no run or call.
LEMMA HandlerFacts ==
  ASSUME TypeOK, AtomicTyped, NEW j \in Jobs, HandlerStep(j)
  PROVE  /\ RowStep(j) /\ UNCHANGED <<gatewayVars, execVars, runVars, strict, attempts,
                                      fencingToken>>
         /\ \A i \in Jobs \ {j} : JobKept(i)
         /\ \A q \in Runs : RunKept(q)
         /\ \/ checkpoint' = checkpoint /\ assigned' = assigned
            \/ /\ ResumeJob(j)
               /\ checkpoint' \in [Jobs -> CheckpointType] /\ checkpoint'[j] = NoCheckpoint
               /\ assigned' \in [Jobs -> AssignmentType] /\ assigned'[j] = Unassigned
<1>1. CASE CreateJob(j) \/ CancelJob(j) \/ LoseLease(j)
  <2>1. /\ RowStep(j) /\ UNCHANGED <<gatewayVars, execVars, runVars, atomicRows, fencingToken>>
        /\ \A i \in Jobs \ {j} : events'[i] = events[i]
    BY <1>1 DEF CreateJob, CancelJob, LoseLease, RowStep, Create, Cancel, LeaseExpires,
                ClearLease, AppendEvent, leaseVars, TypeOK
  <2> QED BY <2>1 DEF JobKept, RunKept, gatewayVars, execVars, runVars, atomicRows
<1>2. CASE ResumeJob(j)
  <2>1. /\ RowStep(j)
        /\ UNCHANGED <<gatewayVars, execVars, runVars, strict, attempts, fencingToken>>
        /\ \A i \in Jobs \ {j} : events'[i] = events[i]
        /\ checkpoint' = [checkpoint EXCEPT ![j] = NoCheckpoint]
        /\ assigned' = [assigned EXCEPT ![j] = Unassigned]
    BY <1>2 DEF ResumeJob, RowStep, ResumeMaterial, ClearLease, AppendEvent, TypeOK
  <2>2. checkpoint \in [Jobs -> CheckpointType] /\ assigned \in [Jobs -> AssignmentType]
    BY DEF AtomicTyped, AtomicTypes
  <2>3. /\ checkpoint' \in [Jobs -> CheckpointType] /\ checkpoint'[j] = NoCheckpoint
        /\ assigned' \in [Jobs -> AssignmentType] /\ assigned'[j] = Unassigned
        /\ \A i \in Jobs \ {j} : checkpoint'[i] = checkpoint[i] /\ assigned'[i] = assigned[i]
    BY <2>1, <2>2, Nothing
  <2> QED BY <1>2, <2>1, <2>3 DEF JobKept, RunKept, gatewayVars, execVars, runVars
<1> QED BY <1>1, <1>2 DEF HandlerStep

\* So it keeps the types.
LEMMA HandlerTyped ==
  ASSUME TypeOK, AtomicTyped, NEW j \in Jobs, HandlerStep(j)
  PROVE  AtomicTyped'
<1>1. /\ UNCHANGED <<gatewayVars, execVars, runVars, strict, attempts>>
      /\ \A i \in Jobs \ {j} : checkpoint'[i] = checkpoint[i]
      /\ \/ checkpoint' = checkpoint /\ assigned' = assigned
         \/ /\ checkpoint' \in [Jobs -> CheckpointType] /\ checkpoint'[j] = NoCheckpoint
            /\ assigned' \in [Jobs -> AssignmentType]
  BY HandlerFacts DEF JobKept
<1>2. AtomicTypes'
  BY <1>1 DEF AtomicTyped, AtomicTypes, gatewayVars, execVars
<1>3. NoCheckpoint.attempt = 0 /\ NoCheckpoint.candidate.row = 0
  BY DEF NoCheckpoint, Checkpoint, NoCandidate
<1>4. \A i \in Jobs : attempts[i] \in Nat /\ Len(modelRuns) \in Nat
  BY DEF AtomicTyped, AtomicTypes
<1>5. AttemptsFit'
  BY <1>1, <1>3, <1>4 DEF AtomicTyped, AttemptsFit
<1>6. RowsExist'
  BY <1>1, <1>3, <1>4 DEF AtomicTyped, RowsExist, gatewayVars, execVars
<1>7. RunsShaped'
  BY <1>1 DEF AtomicTyped, RunsShaped, RunShape, Calling, Idle, Trace, gatewayVars, execVars,
              runVars
<1> QED BY <1>2, <1>5, <1>6, <1>7 DEF AtomicTyped

-----------------------------------------------------------------------------
(* A run starts and ends.                                                  *)

\* A claim takes up the checkpoint of the job.
LEMMA ClaimFacts ==
  ASSUME TypeOK, AtomicTyped, NEW r \in Runs, NEW j \in Jobs, ClaimJob(r, j)
  PROVE  /\ Idle(r) /\ Claim(r, j) /\ at[r] = "idle" /\ ~Calling(r)
         /\ UNCHANGED <<gatewayVars, atomicRows, candidate, evidence>>
         /\ target'[r] = j /\ token'[r] = fencingToken[j] + 1
         /\ fencingToken'[j] = fencingToken[j] + 1 /\ fencingToken[j] + 1 \in 1..MaxFence
         /\ \A i \in Jobs \ {j} : fencingToken'[i] = fencingToken[i]
         /\ \A q \in Runs \ {r} : target'[q] = target[q] /\ token'[q] = token[q]
         /\ events' = [events EXCEPT ![j] =
              Append(events[j], StatusEvent(fencingToken[j] + 1, "RUNNING"))]
         /\ at' \in [Runs -> Places] /\ at'[r] = Entry(checkpoint[j].phase)
         /\ at'[r] \notin {"idle", "assign", "load", "draft", "revise"}
         /\ restored' \in [Runs -> CheckpointType] /\ restored'[r] = checkpoint[j]
         /\ \A q \in Runs \ {r} : at'[q] = at[q] /\ restored'[q] = restored[q]
<1>1. /\ Claim(r, j) /\ at' = [at EXCEPT ![r] = Entry(checkpoint[j].phase)]
      /\ restored' = [restored EXCEPT ![r] = checkpoint[j]]
      /\ UNCHANGED <<gatewayVars, atomicRows, candidate, evidence>>
  BY DEF ClaimJob, Goto
<1>2. /\ Idle(r) /\ fencingToken[j] < MaxFence /\ fencingToken[j] \in Nat
      /\ fencingToken' = [fencingToken EXCEPT ![j] = fencingToken[j] + 1]
      /\ token' = [token EXCEPT ![r] = fencingToken[j] + 1]
      /\ target' = [target EXCEPT ![r] = j]
      /\ events' = [events EXCEPT ![j] =
           Append(events[j], StatusEvent(fencingToken[j] + 1, "RUNNING"))]
  BY <1>1, MaxFenceAssumption DEF Claim, AppendEvent, TypeOK
<1>3. /\ target'[r] = j /\ token'[r] = fencingToken[j] + 1
      /\ fencingToken'[j] = fencingToken[j] + 1 /\ fencingToken[j] + 1 \in 1..MaxFence
      /\ \A i \in Jobs \ {j} : fencingToken'[i] = fencingToken[i]
      /\ \A q \in Runs \ {r} : target'[q] = target[q] /\ token'[q] = token[q]
  BY <1>2, MaxFenceAssumption DEF TypeOK
<1>4. at[r] = "idle" /\ ~Calling(r)
  <2>1. RunShape(r)
    BY DEF AtomicTyped, RunsShaped
  <2> QED BY <1>2, <2>1 DEF RunShape
<1>5. checkpoint[j] \in CheckpointType /\ checkpoint[j].phase \in Phases
  BY CheckpointFields DEF AtomicTyped, AtomicTypes
<1>6. Entry(checkpoint[j].phase) \in Places \ {"idle", "assign", "load", "draft", "revise"}
  <2>1. Entry(checkpoint[j].phase) \in {"open", "finish", "review", "prepare", "recover"}
    BY <1>5 DEF Entry, Phases, AtomicPhases
  <2> QED BY <2>1 DEF Places
<1>7. /\ at' \in [Runs -> Places] /\ at'[r] = Entry(checkpoint[j].phase)
      /\ restored' \in [Runs -> CheckpointType] /\ restored'[r] = checkpoint[j]
      /\ \A q \in Runs \ {r} : at'[q] = at[q] /\ restored'[q] = restored[q]
  BY <1>1, <1>5, <1>6 DEF AtomicTyped, AtomicTypes
<1> QED BY <1>1, <1>2, <1>3, <1>4, <1>6, <1>7

\* So it keeps the types.
LEMMA ClaimTyped ==
  ASSUME TypeOK, AtomicTyped, NEW r \in Runs, NEW j \in Jobs, ClaimJob(r, j)
  PROVE  /\ AtomicTyped' /\ RunStep(r)
         /\ \A q \in Runs \ {r} : RunKept(q)
         /\ \A i \in Jobs \ {j} : JobKept(i)
<1>1. /\ Idle(r) /\ Claim(r, j) /\ ~Calling(r)
      /\ UNCHANGED <<gatewayVars, atomicRows, candidate, evidence>>
      /\ token'[r] = fencingToken[j] + 1 /\ fencingToken[j] + 1 \in 1..MaxFence
      /\ at' \in [Runs -> Places] /\ at'[r] # "idle"
      /\ restored' \in [Runs -> CheckpointType] /\ restored'[r] = checkpoint[j]
      /\ events' = [events EXCEPT ![j] =
           Append(events[j], StatusEvent(fencingToken[j] + 1, "RUNNING"))]
  BY ClaimFacts
<1>2. \A q \in Runs \ {r} : RunKept(q)
  BY <1>1, ClaimFacts DEF RunKept, gatewayVars
<1>3. \A i \in Jobs \ {j} : JobKept(i)
  <2>1. \A i \in Jobs \ {j} : events'[i] = events[i]
    BY <1>1 DEF TypeOK
  <2>2. \A i \in Jobs \ {j} : fencingToken'[i] = fencingToken[i]
    BY ClaimFacts
  <2> QED BY <1>1, <2>1, <2>2 DEF JobKept, atomicRows
<1>4. RunShape(r) /\ RunShape(r)'
  <2>1. RunShape(r)
    BY DEF AtomicTyped, RunsShaped
  <2>2. token'[r] # 0
    BY <1>1
  <2> QED BY <1>1, <2>1, <2>2 DEF RunShape, Calling, Idle, gatewayVars
<1>5. AtomicTypes'
  BY <1>1 DEF AtomicTyped, AtomicTypes, atomicRows, gatewayVars
<1>6. /\ Len(modelRuns) \in Nat
      /\ candidate[r].row <= Len(modelRuns) /\ call[r].row <= Len(modelRuns)
      /\ checkpoint[j].attempt <= attempts[j]
      /\ checkpoint[j].candidate.row <= Len(modelRuns)
  BY DEF AtomicTyped, AtomicTypes, AttemptsFit, RowsExist
<1>7. AtomicTyped'
  BY <1>1, <1>2, <1>4, <1>5, <1>6, TypedFrame DEF atomicRows, gatewayVars
<1> QED BY <1>1, <1>2, <1>3, <1>7 DEF RunStep

\* The ways a run ends
EndStep(r) == CompleteJob(r) \/ WaitForMaterial(r) \/ RunFails(r) \/ RunStops(r)

\* Nothing is left of the run in its slot; the rows of its job are the store's.
LEMMA EndFacts ==
  ASSUME TypeOK, AtomicTyped, NEW r \in Runs, EndStep(r)
  PROVE  /\ ~Idle(r) /\ target[r] \in Jobs /\ RunStep(r)
         /\ \/ Complete(r) \/ PauseForGrounding(r) \/ Fail(r) \/ Abandon(r)
         /\ UNCHANGED <<atomicRows, fencingToken>> /\ Leave(r)
         /\ at' \in [Runs -> Places] /\ at'[r] = "idle"
         /\ restored' \in [Runs -> CheckpointType] /\ restored'[r] = NoCheckpoint
         /\ candidate' \in [Runs -> CandidateType] /\ candidate'[r] = NoCandidate
         /\ evidence' \in [Runs -> EvidenceSets]
         /\ token'[r] = 0
         /\ \A q \in Runs \ {r} :
              /\ at'[q] = at[q] /\ restored'[q] = restored[q]
              /\ candidate'[q] = candidate[q] /\ evidence'[q] = evidence[q]
              /\ target'[q] = target[q] /\ token'[q] = token[q]
         /\ \A i \in Jobs \ {target[r]} : events'[i] = events[i]
<1>1. Over(r) /\ (Complete(r) \/ PauseForGrounding(r) \/ Fail(r) \/ Abandon(r))
  BY DEF EndStep, CompleteJob, WaitForMaterial, RunFails, RunStops
<1>2. \/ \E s, ev : Settle(r, s, ev)
      \/ Abandon(r)
  BY <1>1 DEF Complete, SettleStatus, PauseForGrounding, Fail, SettleWithNotice
<1>3. /\ EndRun(r) /\ ~Idle(r) /\ fencingToken' = fencingToken
  BY <1>2 DEF Settle, Abandon, Fenced, ClearLease, rowVars, leaseVars
<1>4. target[r] \in Jobs
  BY <1>3, RunFacts
<1>5. \A i \in Jobs \ {target[r]} : events'[i] = events[i]
  BY <1>2, <1>4 DEF Settle, Abandon, rowVars, TypeOK
<1>6. /\ token'[r] = 0
      /\ \A q \in Runs \ {r} : target'[q] = target[q] /\ token'[q] = token[q]
  BY <1>3 DEF EndRun, TypeOK
<1>7. /\ at \in [Runs -> Places] /\ restored \in [Runs -> CheckpointType]
      /\ candidate \in [Runs -> CandidateType] /\ evidence \in [Runs -> EvidenceSets]
      /\ "idle" \in Places
  BY DEF AtomicTyped, AtomicTypes, Places
<1>8. /\ at' = [at EXCEPT ![r] = "idle"]
      /\ restored' = [restored EXCEPT ![r] = NoCheckpoint]
      /\ candidate' = [candidate EXCEPT ![r] = NoCandidate]
      /\ evidence' = [evidence EXCEPT ![r] = 0]
      /\ Leave(r) /\ UNCHANGED atomicRows
  BY <1>1 DEF Over, Goto
<1>9. /\ at' \in [Runs -> Places] /\ at'[r] = "idle"
      /\ restored' \in [Runs -> CheckpointType] /\ restored'[r] = NoCheckpoint
      /\ candidate' \in [Runs -> CandidateType] /\ candidate'[r] = NoCandidate
      /\ evidence' \in [Runs -> EvidenceSets]
      /\ \A q \in Runs \ {r} :
           /\ at'[q] = at[q] /\ restored'[q] = restored[q]
           /\ candidate'[q] = candidate[q] /\ evidence'[q] = evidence[q]
  BY <1>7, <1>8, Nothing
<1> QED BY <1>1, <1>3, <1>4, <1>5, <1>6, <1>8, <1>9 DEF RunStep

\* So the types are kept.
LEMMA EndTyped ==
  ASSUME TypeOK, AtomicTyped, NEW r \in Runs, EndStep(r)
  PROVE  /\ AtomicTyped' /\ RunStep(r)
         /\ \A q \in Runs \ {r} : RunKept(q)
         /\ \A i \in Jobs \ {target[r]} : JobKept(i)
<1>1. /\ ~Idle(r) /\ target[r] \in Jobs /\ RunStep(r)
      /\ UNCHANGED <<atomicRows, fencingToken>> /\ Leave(r)
      /\ at' \in [Runs -> Places] /\ at'[r] = "idle"
      /\ restored' \in [Runs -> CheckpointType] /\ restored'[r] = NoCheckpoint
      /\ candidate' \in [Runs -> CandidateType] /\ candidate'[r] = NoCandidate
      /\ evidence' \in [Runs -> EvidenceSets] /\ token'[r] = 0
  BY EndFacts
<1>2. /\ call' \in [Runs -> CallType]
      /\ \A q \in Runs \ {r} : call'[q] = call[q]
      /\ call'[r] = NoCall /\ call'[r].pc = "none" /\ call'[r].row = 0
      /\ modelRuns' = modelRuns /\ dbFaults' = dbFaults /\ walkedAway' \in Nat
  BY <1>1, LeaveFacts DEF AtomicTyped, AtomicTypes
<1>3. \A q \in Runs \ {r} : RunKept(q)
  BY <1>2, EndFacts DEF RunKept
<1>4. \A i \in Jobs \ {target[r]} : JobKept(i)
  BY <1>1, EndFacts DEF JobKept, atomicRows
<1>5. RunShape(r)'
  BY <1>1, <1>2 DEF RunShape, Calling, Idle
<1>6. AtomicTypes'
  BY <1>1, <1>2 DEF AtomicTyped, AtomicTypes, atomicRows
<1>7. NoCheckpoint.candidate.row = 0 /\ NoCandidate.row = 0
  BY DEF NoCheckpoint, Checkpoint, NoCandidate
<1>8. /\ Len(modelRuns) \in Nat
      /\ checkpoint[target[r]].attempt <= attempts[target[r]]
      /\ checkpoint[target[r]].candidate.row <= Len(modelRuns)
  BY <1>1, RunFacts DEF AtomicTyped, AtomicTypes
<1>9. AtomicTyped'
  BY <1>1, <1>2, <1>3, <1>5, <1>6, <1>7, <1>8, TypedFrame DEF atomicRows
<1> QED BY <1>1, <1>3, <1>4, <1>9

\* The monitor touches the signal of a run only.
LEMMA MonitorTyped ==
  ASSUME TypeOK, AtomicTyped, NEW r \in Runs, MonitorStep(r)
  PROVE  /\ AtomicTyped' /\ RunStep(r)
         /\ UNCHANGED <<gatewayVars, atomicRows, execVars, rowVars, target, token>>
<1>1. /\ MonitorPoll(r)
      /\ UNCHANGED <<gatewayVars, atomicRows, execVars, rowVars, target, token>>
  BY DEF MonitorStep, MonitorPoll
<1>2. AtomicTyped'
  BY <1>1 DEF AtomicTyped, AtomicTypes, AttemptsFit, RowsExist, RunsShaped, RunShape,
              Calling, Idle, Trace, gatewayVars, atomicRows, execVars
<1> QED BY <1>1, <1>2 DEF RunStep

-----------------------------------------------------------------------------
(* The types, and the refinement.                                          *)

\* The kinds of steps that the lemmas above are about.
LEMMA StepKinds ==
  ASSUME AtomicNext
  PROVE  \/ \E j \in Jobs : HandlerStep(j)
         \/ \E r \in Runs : \/ \E j \in Jobs : ClaimJob(r, j)
                            \/ YieldingStep(r) \/ LocalStep(r) \/ Asks(r)
                            \/ ModelStep(r) \/ Verify(r) \/ MonitorStep(r)
                            \/ EndStep(r)
  BY DEF AtomicNext, ExecuteStep, HandlerStep, YieldingStep, LocalStep, Asks, EndStep

\* Every step keeps the types, and is a step of the store or none.
LEMMA AtomicStep ==
  ASSUME TypeOK, AtomicTyped, AtomicNext
  PROVE  /\ AtomicTyped'
         /\ \/ UNCHANGED vars
            \/ \E j \in Jobs : RowStep(j)
            \/ \E r \in Runs : RunStep(r)
<1>1. CASE \E j \in Jobs : HandlerStep(j)
  <2>1. PICK j \in Jobs : HandlerStep(j)
    BY <1>1
  <2> QED BY <2>1, HandlerFacts, HandlerTyped
<1>2. ASSUME NEW r \in Runs, NEW j \in Jobs, ClaimJob(r, j)
      PROVE  AtomicTyped' /\ RunStep(r)
  BY <1>2, ClaimTyped
<1>3. ASSUME NEW r \in Runs, YieldingStep(r)
      PROVE  AtomicTyped' /\ RunStep(r)
  BY <1>3, YieldTyped
<1>4. ASSUME NEW r \in Runs, LocalStep(r) \/ Asks(r) \/ ModelStep(r) \/ Verify(r)
      PROVE  AtomicTyped' /\ UNCHANGED vars
  BY <1>4, LocalTyped, AskTyped, ModelTyped, VerifyTyped
<1>5. ASSUME NEW r \in Runs, MonitorStep(r) \/ EndStep(r)
      PROVE  AtomicTyped' /\ RunStep(r)
  BY <1>5, MonitorTyped, EndTyped
<1> QED BY <1>1, <1>2, <1>3, <1>4, <1>5, StepKinds

\* A stuttering step keeps them too.
LEMMA AtomicStutters ==
  ASSUME TypeOK, AtomicTyped, UNCHANGED allVars
  PROVE  AtomicTyped' /\ UNCHANGED vars
<1>1. UNCHANGED vars /\ UNCHANGED <<gatewayVars, atomicRows, execVars>>
  BY DEF allVars
<1> QED BY <1>1 DEF AtomicTyped, AtomicTypes, AttemptsFit, RowsExist, RunsShaped, RunShape,
           Calling, Idle, Trace, gatewayVars, atomicRows, execVars, vars, runVars

\* The empty tables and idle slots are well typed.
LEMMA AtomicTypedInit == AtomicInit => TypeOK /\ AtomicTyped
<1> SUFFICES ASSUME AtomicInit PROVE TypeOK /\ AtomicTyped
  OBVIOUS
<1>1. Init /\ TypeOK
  BY TypeInit DEF AtomicInit
<1>2. /\ modelRuns = <<>> /\ call = [c \in Runs |-> NoCall] /\ dbFaults = 0 /\ walkedAway = 0
      /\ strict \in [Jobs -> BOOLEAN]
      /\ checkpoint = [j \in Jobs |-> NoCheckpoint]
      /\ attempts = [j \in Jobs |-> 0]
      /\ assigned = [j \in Jobs |-> Unassigned]
      /\ at = [r \in Runs |-> "idle"]
      /\ restored = [r \in Runs |-> NoCheckpoint]
      /\ candidate = [r \in Runs |-> NoCandidate]
      /\ evidence = [r \in Runs |-> 0]
      /\ token = [r \in Runs |-> 0]
  BY <1>1, CallersAssumption DEF AtomicInit, GatewayInit, Init
<1>3. AtomicTypes
  BY <1>2, Nothing, GatewayBounds DEF AtomicTypes, Places
<1>4. NoCheckpoint.attempt = 0 /\ NoCheckpoint.candidate.row = 0 /\ NoCandidate.row = 0
      /\ NoCall.row = 0 /\ NoCall.pc = "none" /\ Len(modelRuns) = 0
  BY <1>2 DEF NoCheckpoint, Checkpoint, NoCandidate, NoCall
<1>5. AttemptsFit /\ RowsExist
  BY <1>2, <1>4 DEF AttemptsFit, RowsExist
<1>6. RunsShaped
  BY <1>2, <1>4 DEF RunsShaped, RunShape, Idle, Calling
<1> QED BY <1>1, <1>3, <1>5, <1>6 DEF AtomicTyped

\* The columns and locals of the executor and of its model calls stay well
\* typed: a step of the store keeps the store's types, so both are shown at
\* once.
THEOREM AtomicInvariance == AtomicSpec => [](TypeOK /\ AtomicTyped)
<1>1. TypeOK /\ AtomicTyped /\ [AtomicNext]_allVars => (TypeOK /\ AtomicTyped)'
  <2> SUFFICES ASSUME TypeOK, AtomicTyped, [AtomicNext]_allVars
               PROVE  TypeOK' /\ AtomicTyped'
    OBVIOUS
  <2>1. /\ AtomicTyped'
        /\ \/ UNCHANGED vars
           \/ \E j \in Jobs : RowStep(j)
           \/ \E r \in Runs : RunStep(r)
    BY AtomicStep, AtomicStutters
  <2>2. UNCHANGED vars => TypeOK'
    BY DEF TypeOK, vars, rowVars, runVars, leaseVars
  <2> QED BY <2>1, <2>2, TypeRow, TypeRun
<1> QED BY AtomicTypedInit, <1>1, PTL DEF AtomicSpec

\* Every behaviour of the executor in shadow_no_persist is a behaviour of the
\* workflow store: its events, retries, revisions and ends are transactions
\* of the store, and the rest does not touch its tables.  (executeAtomic,
\* MysqlWorkflowExecutionStore)
THEOREM AtomicImplementsStore == AtomicSpec => Spec
<1>1. AtomicInit => Init
  BY DEF AtomicInit
<1>2. TypeOK /\ AtomicTyped /\ [AtomicNext]_allVars => [Next]_vars
  BY AtomicStep, AtomicStutters DEF Next
<1> QED BY <1>1, <1>2, AtomicInvariance, PTL DEF AtomicSpec, Spec

\* So everything proved of the store is proved of the executor, the promises
\* of workflow.types.ts among it.
THEOREM AtomicImplementsLifecycle == AtomicSpec => LifecycleSpec
  BY AtomicImplementsStore, Implementation, PTL

\* AtomicTypeOK: the rows a call, a candidate and a checkpoint name exist, no
\* checkpoint is of a later attempt than its job's, and a call is open only
\* where the executor asks the model.
THEOREM AtomicTypeCorrect == AtomicSpec => []AtomicTypeOK
<1>1. TypeOK /\ AtomicTyped => AtomicTypeOK
  <2> SUFFICES ASSUME TypeOK, AtomicTyped PROVE AtomicTypeOK
    OBVIOUS
  <2>1. GatewayTypeOK
    <3>1. ASSUME NEW i \in 1..Len(modelRuns)
          PROVE  modelRuns[i].status \in {"RUNNING", "SUCCEEDED", "FAILED", "CANCELLED"}
      BY <3>1, RowFields DEF AtomicTyped, AtomicTypes
    <3>2. ASSUME NEW c \in Callers
          PROVE  /\ call[c].pc \in Stages /\ call[c].mode \in {"text", "structured"}
                 /\ call[c].err \in Errors /\ call[c].row \in 0..Len(modelRuns)
                 /\ call[c].retries \in 0..MaxRetries /\ call[c].repairs \in 0..MaxRepairs
                 /\ call[c].text \in 0..MaxText
      <4>1. c \in Runs /\ call[c] \in CallType /\ Len(modelRuns) \in Nat
        BY <3>2, CallersAssumption DEF AtomicTyped, AtomicTypes
      <4>2. call[c].row <= Len(modelRuns)
        BY <4>1 DEF AtomicTyped, RowsExist
      <4> QED BY <4>1, <4>2, CallFields
    <3> QED BY <3>1, <3>2 DEF GatewayTypeOK, AtomicTyped, AtomicTypes
  <2>2. ASSUME NEW j \in Jobs
        PROVE  /\ strict[j] \in BOOLEAN
               /\ checkpoint[j].phase \in Phases
               /\ checkpoint[j].attempt \in 0..attempts[j]
               /\ checkpoint[j].emitted \in 0..MaxText
               /\ assigned[j].revision \in -1..1
               /\ assigned[j].evidence \in EvidenceSets
    <3>1. /\ checkpoint[j] \in CheckpointType /\ assigned[j] \in AssignmentType
          /\ attempts[j] \in Nat /\ strict[j] \in BOOLEAN
      BY DEF AtomicTyped, AtomicTypes
    <3>2. checkpoint[j].attempt <= attempts[j]
      BY DEF AtomicTyped, AttemptsFit
    <3>3. assigned[j].revision \in -1..1 /\ assigned[j].evidence \in EvidenceSets
      BY <3>1 DEF AssignmentType
    <3> QED BY <3>1, <3>2, <3>3, CheckpointFields
  <2>3. ASSUME NEW r \in Runs
        PROVE  /\ at[r] \in Places
               /\ at[r] = "idle" <=> Idle(r)
               /\ call[r].pc # "none" => at[r] \in {"draft", "revise"}
               /\ candidate[r].row \in 0..Len(modelRuns)
    <3>1. /\ at[r] \in Places /\ candidate[r] \in CandidateType /\ Len(modelRuns) \in Nat
          /\ candidate[r].row <= Len(modelRuns) /\ RunShape(r)
      BY DEF AtomicTyped, AtomicTypes, RowsExist, RunsShaped
    <3>2. candidate[r].row \in Nat
      BY <3>1 DEF CandidateType
    <3> QED BY <3>1, <3>2 DEF RunShape, Calling
  <2> QED BY <2>1, <2>2, <2>3 DEF AtomicTypeOK
<1> QED BY <1>1, AtomicInvariance, PTL

-----------------------------------------------------------------------------
(* The ledger of model calls.                                              *)

\* Row i was opened by the call of run r.
Mine(r, i) == modelRuns[i].trace = call[r].trace /\ modelRuns[i].key = call[r].key

\* The row of a call is its own, and in the state that the place of the call
\* says; of the rows of the call no other has SUCCEEDED.
CallFits(r) ==
  /\ call[r].row # 0 => Mine(r, call[r].row)
  /\ call[r].pc \in {"stream", "yield", "accept", "reject"} =>
       call[r].row # 0 /\ modelRuns[call[r].row].status = "RUNNING"
  /\ call[r].pc \in {"none", "start"} => call[r].row = 0
  /\ call[r].pc \in {"delay", "failed"} /\ call[r].row # 0 =>
       modelRuns[call[r].row].status \notin {"RUNNING", "SUCCEEDED"}
  /\ call[r].pc = "answered" =>
       call[r].row # 0 /\ modelRuns[call[r].row].status = "SUCCEEDED"
  /\ Calling(r) => \A i \in 1..Len(modelRuns) :
       Mine(r, i) /\ modelRuns[i].status = "SUCCEEDED" => i = call[r].row

CallsFit == \A r \in Runs : CallFits(r)

\* The places before the draft is asked for, and before its revision is
BeforeDraft == {"open", "assign", "load"}
BeforeRevision == BeforeDraft \cup {"draft", "require", "review", "retrieve", "announce",
                                    "prepare", "intent", "inspect", "dispatch"}

\* A row was opened under a claim that was given out, and not before the run
\* came to ask the model.
RowsKnown ==
  /\ \A i \in 1..Len(modelRuns) :
       modelRuns[i].trace[2] <= fencingToken[modelRuns[i].trace[1]]
  /\ \A r \in Runs : \A i \in 1..Len(modelRuns) :
       ~Idle(r) /\ modelRuns[i].trace = Trace(r) =>
         /\ modelRuns[i].key = NoKey => at[r] \notin BeforeDraft
         /\ modelRuns[i].key # NoKey => at[r] \notin BeforeRevision

LedgerInv == CallsFit /\ RowsKnown /\ OrphansAreFaults

\* Two busy runs call the model under two traces.
LEMMA TracesApart ==
  ASSUME TokensIdentifyRuns, NEW r \in Runs, NEW q \in Runs \ {r}, ~Idle(r), ~Idle(q)
  PROVE  Trace(q) # Trace(r)
  BY DEF TokensIdentifyRuns, Trace, Idle

\* A call that is not open has no row.
LEMMA NoCallFits ==
  ASSUME NEW r \in Runs, call[r] = NoCall
  PROVE  CallFits(r)
  BY DEF CallFits, NoCall, Calling

\* A step of one call does not disturb the others.
LEMMA FitsKept ==
  ASSUME TypeOK, AtomicTyped, TokensIdentifyRuns, CallsFit, NEW r \in Runs, ~Idle(r),
         Calling(r), RowsGrow(r), NEW q \in Runs \ {r}, call'[q] = call[q]
  PROVE  CallFits(q)'
<1>1. RunShape(q) /\ RunShape(r) /\ CallFits(q) /\ CallFits(r) /\ RowsExist
  BY DEF AtomicTyped, RunsShaped, CallsFit
<1>2. CASE ~Calling(q)
  BY <1>1, <1>2 DEF RunShape, CallFits, NoCall, Calling
<1>3. CASE Calling(q)
  <2>1. call[q].trace = Trace(q) /\ call[r].trace = Trace(r) /\ Trace(q) # Trace(r)
    BY <1>1, <1>3, TracesApart DEF RunShape
  <2>2. /\ Len(modelRuns) \in Nat /\ call[q].row \in 0..Len(modelRuns)
        /\ call[r].row \in 0..Len(modelRuns)
    <3>1. call[q] \in CallType /\ call[r] \in CallType /\ Len(modelRuns) \in Nat
      BY DEF AtomicTyped, AtomicTypes
    <3> QED BY <1>1, <3>1, CallFields DEF RowsExist
  <2>3. call[q].row # 0 => call[q].row # call[r].row
    BY <1>1, <2>1 DEF CallFits, Mine
  <2>4. call[q].row # 0 => modelRuns'[call[q].row] = modelRuns[call[q].row]
    BY <2>2, <2>3 DEF RowsGrow
  <2>5. ASSUME NEW i \in 1..Len(modelRuns'), Mine(q, i)',
               modelRuns'[i].status = "SUCCEEDED"
        PROVE  i = call'[q].row
    <3>1. i \in 1..Len(modelRuns)
      BY <2>2, <2>5 DEF RowsGrow
    <3>2. Mine(q, i)
      BY <2>5, <3>1 DEF RowsGrow, Mine
    <3>3. i # call[r].row
      <4>1. call[r].row # 0 => Mine(r, call[r].row)
        BY <1>1 DEF CallFits
      <4> QED BY <2>1, <3>1, <3>2, <4>1 DEF Mine
    <3>4. modelRuns'[i] = modelRuns[i]
      BY <3>1, <3>3 DEF RowsGrow
    <3> QED BY <1>1, <1>3, <2>5, <3>1, <3>2, <3>4 DEF CallFits
  <2> QED BY <1>1, <2>4, <2>5 DEF CallFits, Mine, Calling
<1> QED BY <1>2, <1>3

\* What a step of a call leaves of its rows: the old ones are still its own,
\* a new one is RUNNING, and only the row it has may have come to SUCCEED.
LEMMA RowsOfCall ==
  ASSUME NEW r \in Runs, CallTyped(r), CallFits(r), CallGoesOn(r)
  PROVE  /\ Len(modelRuns) \in Nat /\ Len(modelRuns') \in Nat
         /\ call[r].row \in 0..Len(modelRuns)
         /\ \A i \in 1..Len(modelRuns) : Mine(r, i)' <=> Mine(r, i)
         /\ \A i \in 1..Len(modelRuns') : i > Len(modelRuns) =>
              Mine(r, i)' /\ modelRuns'[i].status = "RUNNING"
         /\ \A i \in 1..Len(modelRuns') :
              Mine(r, i)' /\ modelRuns'[i].status = "SUCCEEDED" =>
                i = call[r].row /\ i # 0 /\ i \in 1..Len(modelRuns)
<1>1. Len(modelRuns) \in Nat /\ Len(modelRuns') \in Nat
  BY DEF CallGoesOn, RowsGrow, CallTyped
<1>2. \A i \in 1..Len(modelRuns) : Mine(r, i)' <=> Mine(r, i)
  BY DEF CallGoesOn, RowsGrow, Mine
<1>3. \A i \in 1..Len(modelRuns') : i > Len(modelRuns) =>
        Mine(r, i)' /\ modelRuns'[i].status = "RUNNING"
  BY DEF CallGoesOn, RowsGrow, Mine
<1>4. ASSUME NEW i \in 1..Len(modelRuns'), Mine(r, i)', modelRuns'[i].status = "SUCCEEDED"
      PROVE  i = call[r].row /\ i # 0 /\ i \in 1..Len(modelRuns)
  <2>1. i \in 1..Len(modelRuns)
    BY <1>1, <1>3, <1>4
  <2>2. Mine(r, i)
    BY <1>2, <1>4, <2>1
  <2>3. i # call[r].row => modelRuns'[i] = modelRuns[i]
    BY <2>1 DEF CallGoesOn, RowsGrow
  <2> QED BY <1>4, <2>1, <2>2, <2>3 DEF CallFits, CallGoesOn
<1> QED BY <1>1, <1>2, <1>3, <1>4 DEF CallTyped

\* A call that keeps its row, or drops one that has not SUCCEEDED, or gets a
\* new one after it had none, still fits, if its place does.
LEMMA FitsAgain ==
  ASSUME NEW r \in Runs, CallTyped(r), CallFits(r), CallGoesOn(r),
         \/ call'[r].row = call[r].row
         \/ /\ call'[r].row = 0
            /\ call[r].row # 0 => modelRuns'[call[r].row].status # "SUCCEEDED"
         \/ /\ call[r].row = 0 /\ call'[r].row = Len(modelRuns) + 1
            /\ Len(modelRuns') = Len(modelRuns) + 1,
         LET pc == call'[r].pc
             row == call'[r].row
             s == modelRuns'[row].status
         IN  /\ pc \in {"stream", "yield", "accept", "reject"} => row # 0 /\ s = "RUNNING"
             /\ pc \in {"none", "start"} => row = 0
             /\ pc \in {"delay", "failed"} /\ row # 0 => s \notin {"RUNNING", "SUCCEEDED"}
             /\ pc = "answered" => row # 0 /\ s = "SUCCEEDED"
  PROVE  CallFits(r)'
<1>0. PICK row : row = call'[r].row
  OBVIOUS
<1>1. row # 0 => Mine(r, row)'
  <2>1. CASE row = call[r].row
    BY <2>1, RowsOfCall DEF CallFits
  <2>2. CASE row # call[r].row
    <3>1. row # 0 => row \in 1..Len(modelRuns') /\ row > Len(modelRuns)
      BY <1>0, <2>2, RowsOfCall
    <3> QED BY <3>1, RowsOfCall
  <2> QED BY <2>1, <2>2
<1>2. ASSUME NEW i \in 1..Len(modelRuns'), Mine(r, i)', modelRuns'[i].status = "SUCCEEDED"
      PROVE  i = row
  BY <1>0, <1>2, RowsOfCall
<1> QED BY <1>0, <1>1, <1>2 DEF CallFits, Mine

\* Every step of a call keeps it.
LEMMA ModelFits ==
  ASSUME NEW r \in Runs, NEW abort, CallTyped(r), CallFits(r), GatewayStep(r, abort)
  PROVE  CallFits(r)'
<1>0. CallGoesOn(r)
  BY GatewayStepFacts
<1>a. /\ Len(modelRuns) \in Nat /\ Len(modelRuns') \in Nat
      /\ call[r].row \in 0..Len(modelRuns)
  BY <1>0, RowsOfCall
<1>r. Len(modelRuns') = Len(modelRuns) + 1 =>
        modelRuns'[Len(modelRuns) + 1].status = "RUNNING"
  BY <1>0, <1>a, RowsOfCall
<1>c. ASSUME NEW s, Closes(r, s), call[r].row # 0
      PROVE  modelRuns'[call[r].row].status =
               IF modelRuns[call[r].row].status = "RUNNING" THEN s
               ELSE modelRuns[call[r].row].status
  BY <1>a, <1>c DEF Closes
<1>1. CASE StartRun(r) \/ RefuseSecondDispatch(r) \/ StartRunFails(r)
  <2>1. /\ call[r].pc = "start" /\ call[r].row = 0
        /\ \/ /\ call'[r].pc = "stream" /\ call'[r].row = Len(modelRuns) + 1
              /\ Len(modelRuns') = Len(modelRuns) + 1
           \/ call'[r].pc = "catch" /\ call'[r].row = call[r].row
    BY <1>1, StartSteps DEF CallFits
  <2> QED BY <1>0, <1>a, <1>r, <2>1, FitsAgain
<1>2. CASE Delta(r) \/ Completed(r) \/ ProviderFails(r)
  <2>1. /\ call[r].pc = "stream" /\ call'[r].row = call[r].row /\ modelRuns' = modelRuns
        /\ call'[r].pc \in {"yield", "stream", "reject", "accept", "catch"}
    BY <1>2, StreamSteps
  <2>2. call[r].row # 0 /\ modelRuns[call[r].row].status = "RUNNING"
    BY <2>1 DEF CallFits
  <2> QED BY <1>0, <2>1, <2>2, FitsAgain
<1>3. CASE Accept(r) \/ Reject(r) \/ FinishFails(r)
  <2>1. /\ call[r].pc \in {"accept", "reject"}
        /\ \/ /\ call'[r].pc = "answered" /\ call'[r].row = call[r].row
              /\ Closes(r, "SUCCEEDED")
           \/ /\ \/ call'[r].pc = "start" /\ call'[r].row = 0
                 \/ call'[r].pc = "failed" /\ call'[r].row = call[r].row
              /\ Closes(r, "FAILED")
           \/ call'[r].pc = "catch" /\ call'[r].row = call[r].row
    BY <1>3, FinishSteps
  <2>2. call[r].row # 0 /\ modelRuns[call[r].row].status = "RUNNING"
    BY <2>1 DEF CallFits
  <2>3. /\ Closes(r, "SUCCEEDED") => modelRuns'[call[r].row].status = "SUCCEEDED"
        /\ Closes(r, "FAILED") => modelRuns'[call[r].row].status = "FAILED"
    BY <1>c, <2>2
  <2> QED BY <1>0, <2>1, <2>2, <2>3, FitsAgain
<1>4. CASE Catch(r, abort) \/ CloseFailed(r, abort) \/ CloseThrows(r) \/ DelayOver(r, abort)
  <2>1. \/ call'[r].pc = "closing" /\ call'[r].row = call[r].row
        \/ /\ call'[r].pc \in {"delay", "failed"} /\ call'[r].row = call[r].row
           /\ call[r].row # 0 => modelRuns[call[r].row].status = "RUNNING"
           /\ \E s \in {"FAILED", "CANCELLED"} : Closes(r, s)
        \/ call'[r].pc = "threw" /\ call'[r].row = call[r].row
        \/ /\ call[r].pc = "delay" /\ modelRuns' = modelRuns
           /\ \/ call'[r].pc = "start" /\ call'[r].row = 0
              \/ call'[r].pc = "failed" /\ call'[r].row = call[r].row
    BY <1>4, CatchSteps
  <2>2. CASE call'[r].pc \in {"closing", "threw"} /\ call'[r].row = call[r].row
    BY <1>0, <2>2, FitsAgain
  <2>3. CASE /\ call'[r].pc \in {"delay", "failed"} /\ call'[r].row = call[r].row
             /\ call[r].row # 0 => modelRuns[call[r].row].status = "RUNNING"
             /\ \E s \in {"FAILED", "CANCELLED"} : Closes(r, s)
    <3>1. call[r].row # 0 => modelRuns'[call[r].row].status \notin {"RUNNING", "SUCCEEDED"}
      BY <1>c, <2>3
    <3> QED BY <1>0, <2>3, <3>1, FitsAgain
  <2>4. CASE /\ call[r].pc = "delay" /\ modelRuns' = modelRuns
             /\ \/ call'[r].pc = "start" /\ call'[r].row = 0
                \/ call'[r].pc = "failed" /\ call'[r].row = call[r].row
    <3>1. call[r].row # 0 => modelRuns'[call[r].row].status \notin {"RUNNING", "SUCCEEDED"}
      BY <2>4 DEF CallFits
    <3> QED BY <1>0, <2>4, <3>1, FitsAgain
  <2> QED BY <2>1, <2>2, <2>3, <2>4
<1> QED BY <1>1, <1>2, <1>3, <1>4 DEF GatewayStep

\* A call fits as long as neither it nor a row changes.
LEMMA FitsSame ==
  ASSUME NEW q \in Runs, CallFits(q), modelRuns' = modelRuns, call'[q] = call[q]
  PROVE  CallFits(q)'
  BY DEF CallFits, Mine, Calling

\* The places are passed in the order draft, revision, and never the other way.
LEMMA Forward ==
  ASSUME TypeOK, AtomicTyped, NEW r \in Runs,
         YieldingStep(r) \/ LocalStep(r) \/ Asks(r) \/ Verify(r)
  PROVE  /\ at'[r] \in BeforeDraft => at[r] \in BeforeDraft
         /\ at'[r] \in BeforeRevision => at[r] \in BeforeRevision
<1> USE DEF BeforeDraft, BeforeRevision
<1>0. r \in DOMAIN at
  BY DEF AtomicTyped, AtomicTypes
<1>1. CASE LocalStep(r)
  BY <1>0, <1>1 DEF LocalStep, AssignEvidence, ReviewAssignment, ReplaceEvidence,
     PrepareRevision, InspectOperation, Recover, Goto
<1>2. CASE Asks(r)
  BY <1>2, AskFacts
<1>3. CASE Verify(r)
  BY <1>3, VerifyFacts
<1>4. CASE YieldingStep(r)
  BY <1>0, <1>4 DEF YieldingStep, OpenAttempt, StreamToken, StreamCompleted,
     RequireTargetedRevision, AnnounceRetrieval, RecordIntent, Seal, EmitToken, EmitDone,
     Goto
<1> QED BY <1>1, <1>2, <1>3, <1>4

\* The rows stay known while none is added: a claim draws a number that no row
\* was opened under.
LEMMA KnownFrame ==
  ASSUME TypeOK, AtomicTyped, RowsKnown, modelRuns' = modelRuns,
         \A j \in Jobs : fencingToken'[j] >= fencingToken[j] /\ fencingToken'[j] \in Nat,
         NEW r \in Runs, \A q \in Runs \ {r} : RunKept(q),
         \/ token'[r] = 0
         \/ /\ target'[r] = target[r] /\ token'[r] = token[r] /\ token[r] # 0
            /\ at'[r] \in BeforeDraft => at[r] \in BeforeDraft
            /\ at'[r] \in BeforeRevision => at[r] \in BeforeRevision
         \/ /\ target'[r] \in Jobs /\ token'[r] = fencingToken[target'[r]] + 1
  PROVE  RowsKnown'
<1>1. ASSUME NEW i \in 1..Len(modelRuns)
      PROVE  /\ modelRuns[i].trace[1] \in Jobs /\ modelRuns[i].trace[2] \in Nat
             /\ modelRuns[i].trace[2] <= fencingToken[modelRuns[i].trace[1]]
             /\ fencingToken[modelRuns[i].trace[1]] \in Nat
  <2>1. modelRuns[i].trace \in Traces
    BY RowFields DEF AtomicTyped, AtomicTypes
  <2>2. modelRuns[i].trace[1] \in Jobs /\ modelRuns[i].trace[2] \in Nat
    BY <2>1, MaxFenceAssumption DEF Traces
  <2>3. fencingToken[modelRuns[i].trace[1]] \in Nat
    BY <2>2, MaxFenceAssumption DEF TypeOK
  <2>4. modelRuns[i].trace[2] <= fencingToken[modelRuns[i].trace[1]]
    BY DEF RowsKnown
  <2> QED BY <2>2, <2>3, <2>4
<1>2. \A i \in 1..Len(modelRuns) :
        modelRuns[i].trace[2] <= fencingToken'[modelRuns[i].trace[1]]
  BY <1>1
<1>3. ASSUME NEW q \in Runs, NEW i \in 1..Len(modelRuns), token'[q] # 0,
             modelRuns[i].trace = <<target'[q], token'[q]>>
      PROVE  /\ modelRuns[i].key = NoKey => at'[q] \notin BeforeDraft
             /\ modelRuns[i].key # NoKey => at'[q] \notin BeforeRevision
  <2>1. CASE q # r
    BY <1>3, <2>1 DEF RowsKnown, RunKept, Idle, Trace
  <2>2. CASE /\ q = r /\ target'[r] = target[r] /\ token'[r] = token[r] /\ token[r] # 0
             /\ at'[r] \in BeforeDraft => at[r] \in BeforeDraft
             /\ at'[r] \in BeforeRevision => at[r] \in BeforeRevision
    BY <1>3, <2>2 DEF RowsKnown, Idle, Trace
  <2>3. CASE q = r /\ target'[r] \in Jobs /\ token'[r] = fencingToken[target'[r]] + 1
    <3>1. modelRuns[i].trace[1] = target'[r] /\ modelRuns[i].trace[2] = token'[r]
      BY <1>3, <2>3
    <3> QED BY <1>1, <2>3, <3>1
  <2> QED BY <1>3, <2>1, <2>2, <2>3
<1> QED BY <1>2, <1>3 DEF RowsKnown, Idle, Trace

\* A row that is added is of the claim and the place of its call.
LEMMA KnownGrows ==
  ASSUME TypeOK, AtomicTyped, TokensIdentifyRuns, RowsKnown, NEW r \in Runs, ~Idle(r),
         Calling(r), RowsGrow(r), UNCHANGED <<vars, execVars>>
  PROVE  RowsKnown'
<1>1. /\ RunShape(r) /\ target[r] \in Jobs /\ token[r] \in Nat /\ Len(modelRuns) \in Nat
      /\ token[r] <= fencingToken[target[r]]
  <2>1. token[r] <= fencingToken[target[r]]
    BY DEF TokensIdentifyRuns, Idle
  <2> QED BY <2>1, RunFacts, MaxFenceAssumption DEF AtomicTyped, AtomicTypes
<1>2. /\ at[r] \in {"draft", "revise"} /\ call[r].trace = <<target[r], token[r]>>
      /\ at[r] = "draft" => call[r].key = NoKey
      /\ at[r] = "revise" => call[r].key # NoKey
  BY <1>1 DEF RunShape, Trace
<1>3. /\ at' = at /\ target' = target /\ token' = token /\ fencingToken' = fencingToken
  BY DEF vars, runVars, rowVars, leaseVars, execVars
<1>4. ASSUME NEW i \in 1..Len(modelRuns')
      PROVE  modelRuns'[i].trace[2] <= fencingToken[modelRuns'[i].trace[1]]
  <2>1. CASE i \in 1..Len(modelRuns)
    BY <2>1 DEF RowsGrow, RowsKnown
  <2>2. CASE i > Len(modelRuns)
    BY <1>1, <1>2, <1>4, <2>2 DEF RowsGrow
  <2> QED BY <1>1, <1>4, <2>1, <2>2 DEF RowsGrow
<1>5. ASSUME NEW q \in Runs, NEW i \in 1..Len(modelRuns'), ~Idle(q),
             modelRuns'[i].trace = Trace(q)
      PROVE  /\ modelRuns'[i].key = NoKey => at[q] \notin BeforeDraft
             /\ modelRuns'[i].key # NoKey => at[q] \notin BeforeRevision
  <2>1. CASE i \in 1..Len(modelRuns)
    BY <1>5, <2>1 DEF RowsGrow, RowsKnown
  <2>2. CASE i > Len(modelRuns)
    <3>1. modelRuns'[i].trace = Trace(r) /\ modelRuns'[i].key = call[r].key
      BY <1>2, <1>5, <2>2 DEF RowsGrow, Trace
    <3>2. q = r
      BY <1>5, <3>1, TracesApart
    <3> QED BY <1>2, <3>1, <3>2 DEF BeforeDraft, BeforeRevision
  <2> QED BY <1>1, <1>5, <2>1, <2>2 DEF RowsGrow
<1> QED BY <1>3, <1>4, <1>5 DEF RowsKnown, Idle, Trace

\* The orphans are finitely many.
LEMMA OrphansFinite ==
  ASSUME AtomicTypes
  PROVE  IsFiniteSet(Orphans) /\ Cardinality(Orphans) \in Nat
<1>1. IsFiniteSet(1..Len(modelRuns))
  BY FS_Interval DEF AtomicTypes
<1>2. Orphans \in SUBSET (1..Len(modelRuns))
  BY DEF Orphans
<1> QED BY <1>1, <1>2, FS_Subset, FS_CardinalityType

\* One more, in sums
LEMMA OneMore ==
  ASSUME NEW a \in Nat, NEW b \in Nat, NEW c \in Nat, NEW d \in Nat,
         NEW m \in Nat, NEW n \in Nat,
         n <= m + 1, m <= a + b, c + d >= a + b + 1
  PROVE  n <= c + d
  OBVIOUS

\* One more orphan is paid for by one more fault.
LEMMA OrphansPaid ==
  ASSUME AtomicTypes, AtomicTypes', OrphansAreFaults,
         dbFaults' >= dbFaults, walkedAway' >= walkedAway,
         \/ Orphans' \subseteq Orphans
         \/ /\ \E x : Orphans' \subseteq Orphans \cup {x}
            /\ dbFaults' + walkedAway' >= dbFaults + walkedAway + 1
  PROVE  OrphansAreFaults'
<1>1. /\ IsFiniteSet(Orphans) /\ Cardinality(Orphans) \in Nat
      /\ Cardinality(Orphans') \in Nat
      /\ Cardinality(Orphans) <= dbFaults + walkedAway
      /\ dbFaults \in Nat /\ dbFaults' \in Nat
      /\ walkedAway \in Nat /\ walkedAway' \in Nat
  <2>1. (IsFiniteSet(Orphans) /\ Cardinality(Orphans) \in Nat)'
    BY OrphansFinite, PTL
  <2> QED BY <2>1, OrphansFinite, GatewayBounds DEF OrphansAreFaults, AtomicTypes
<1>2. CASE Orphans' \subseteq Orphans
  <2>1. Cardinality(Orphans') <= Cardinality(Orphans)
    BY <1>1, <1>2, FS_Subset
  <2> QED BY <1>1, <2>1 DEF OrphansAreFaults
<1>3. CASE /\ \E x : Orphans' \subseteq Orphans \cup {x}
           /\ dbFaults' + walkedAway' >= dbFaults + walkedAway + 1
  <2>1. PICK x : Orphans' \subseteq Orphans \cup {x}
    BY <1>3
  <2>2. /\ IsFiniteSet(Orphans \cup {x})
        /\ Cardinality(Orphans \cup {x}) =
             IF x \in Orphans THEN Cardinality(Orphans) ELSE Cardinality(Orphans) + 1
    BY <1>1, FS_AddElement
  <2>3. Cardinality(Orphans') <= Cardinality(Orphans \cup {x})
    BY <2>1, <2>2, FS_Subset
  <2>4. /\ Cardinality(Orphans \cup {x}) \in Nat
        /\ Cardinality(Orphans \cup {x}) <= Cardinality(Orphans) + 1
    BY <1>1, <2>2
  <2>5. Cardinality(Orphans') <= Cardinality(Orphans) + 1
    BY <1>1, <2>3, <2>4
  <2>a. dbFaults' + walkedAway' >= dbFaults + walkedAway + 1
    BY <1>3
  <2> QED BY <1>1, <2>a, <2>5, OneMore DEF OrphansAreFaults
<1> QED BY <1>2, <1>3

\* Only the row of the call, or a new one, can become an orphan in its steps.
LEMMA OrphansFrame ==
  ASSUME AtomicTypes, NEW r \in Runs, RowsGrow(r),
         Open(r) \/ modelRuns' = modelRuns,
         \A q \in Runs \ {r} : call'[q] = call[q],
         NEW i \in Orphans'
  PROVE  \/ i \in Orphans
         \/ i = call[r].row /\ Open(r) /\ i \in 1..Len(modelRuns)
         \/ i > Len(modelRuns)
<1>1. /\ i \in 1..Len(modelRuns') /\ modelRuns'[i].status = "RUNNING"
      /\ Len(modelRuns) \in Nat /\ Len(modelRuns') \in Nat
      /\ \A c \in Runs : Open(c)' => call'[c].row # i
  BY CallersAssumption DEF Orphans, AtomicTypes, RowsGrow
<1>2. SUFFICES ASSUME i \in 1..Len(modelRuns), ~(i = call[r].row /\ Open(r))
               PROVE  i \in Orphans
  BY <1>1
<1>3. modelRuns[i].status = "RUNNING"
  <2>1. modelRuns'[i] = modelRuns[i]
    BY <1>2 DEF RowsGrow
  <2> QED BY <1>1, <2>1
<1>4. ASSUME NEW q \in Runs, Open(q)
      PROVE  call[q].row # i
  <2>1. q # r => Open(q)' /\ call'[q] = call[q]
    BY <1>4 DEF Open
  <2> QED BY <1>1, <1>2, <1>4, <2>1
<1> QED BY <1>2, <1>3, <1>4, CallersAssumption DEF Orphans

\* None does if the call goes on with its row, or leaves it closed.
LEMMA OrphansKept ==
  ASSUME AtomicTypes, NEW r \in Runs, RowsGrow(r),
         Open(r) \/ modelRuns' = modelRuns,
         \A q \in Runs \ {r} : call'[q] = call[q],
         Len(modelRuns') = Len(modelRuns),
         \/ ~Open(r)
         \/ Open(r)' /\ call'[r].row = call[r].row
         \/ call[r].row = 0
         \/ modelRuns'[call[r].row].status # "RUNNING"
  PROVE  Orphans' \subseteq Orphans
<1> SUFFICES ASSUME NEW i \in Orphans' PROVE i \in Orphans
  OBVIOUS
<1>1. \/ i \in Orphans
      \/ i = call[r].row /\ Open(r) /\ i \in 1..Len(modelRuns)
      \/ i > Len(modelRuns)
  BY OrphansFrame
<1>2. /\ i \in 1..Len(modelRuns') /\ modelRuns'[i].status = "RUNNING"
      /\ Open(r)' => call'[r].row # i
  BY CallersAssumption DEF Orphans
<1>3. Len(modelRuns) \in Nat
  BY DEF AtomicTypes
<1> QED BY <1>1, <1>2, <1>3

\* A step of a call leaves no row behind that is not paid for.
LEMMA ModelOrphans ==
  ASSUME AtomicTypes, NEW r \in Runs, NEW abort, CallTyped(r), CallFits(r),
         GatewayStep(r, abort)
  PROVE  \/ Orphans' \subseteq Orphans
         \/ /\ \E x : Orphans' \subseteq Orphans \cup {x}
            /\ dbFaults' = dbFaults + 1
<1>0. /\ CallGoesOn(r) /\ RowsGrow(r) /\ \A q \in Runs \ {r} : call'[q] = call[q]
      /\ Len(modelRuns) \in Nat /\ Len(modelRuns') \in Nat
      /\ call[r].row \in 0..Len(modelRuns)
  BY GatewayStepFacts, RowsOfCall DEF CallGoesOn
<1>c. ASSUME NEW s \in {"SUCCEEDED", "FAILED", "CANCELLED"}, Closes(r, s)
      PROVE  call[r].row # 0 => modelRuns'[call[r].row].status # "RUNNING"
  BY <1>0, <1>c DEF Closes
<1>1. CASE StartRun(r) \/ RefuseSecondDispatch(r) \/ StartRunFails(r)
  <2>1. /\ call[r].pc = "start" /\ call[r].row = 0 /\ Open(r)
        /\ \/ /\ call'[r].pc = "stream" /\ call'[r].row = Len(modelRuns) + 1
              /\ Len(modelRuns') = Len(modelRuns) + 1
           \/ modelRuns' = modelRuns
           \/ Len(modelRuns') = Len(modelRuns) + 1 /\ dbFaults' = dbFaults + 1
    BY <1>1, StartSteps DEF CallFits, Open
  <2>2. CASE modelRuns' = modelRuns
    BY <1>0, <2>1, <2>2, OrphansKept
  <2>3. CASE Len(modelRuns') = Len(modelRuns) + 1 /\ dbFaults' = dbFaults + 1
    <3>1. ASSUME NEW i \in Orphans'
          PROVE  i \in Orphans \cup {Len(modelRuns) + 1}
      <4>1. i \in 1..Len(modelRuns')
        BY DEF Orphans
      <4>2. i \in Orphans \/ i > Len(modelRuns)
        BY <1>0, <2>1, OrphansFrame
      <4> QED BY <1>0, <2>3, <4>1, <4>2
    <3> QED BY <2>3, <3>1
  <2>4. CASE /\ call'[r].pc = "stream" /\ call'[r].row = Len(modelRuns) + 1
             /\ Len(modelRuns') = Len(modelRuns) + 1
    <3>1. ASSUME NEW i \in Orphans'
          PROVE  i \in Orphans
      <4>1. i \in 1..Len(modelRuns') /\ (Open(r)' => call'[r].row # i)
        BY CallersAssumption DEF Orphans
      <4>2. i \in Orphans \/ i > Len(modelRuns)
        BY <1>0, <2>1, OrphansFrame
      <4> QED BY <1>0, <2>4, <4>1, <4>2 DEF Open
    <3> QED BY <3>1
  <2> QED BY <2>1, <2>2, <2>3, <2>4
<1>2. CASE Delta(r) \/ Completed(r) \/ ProviderFails(r)
  <2>1. /\ call[r].pc = "stream" /\ call'[r].row = call[r].row /\ modelRuns' = modelRuns
        /\ call'[r].pc \in {"yield", "stream", "reject", "accept", "catch"}
    BY <1>2, StreamSteps
  <2>2. Open(r)'
    BY <2>1 DEF Open
  <2> QED BY <1>0, <2>1, <2>2, OrphansKept
<1>3. CASE Accept(r) \/ Reject(r) \/ FinishFails(r)
  <2>1. /\ call[r].pc \in {"accept", "reject"} /\ Len(modelRuns') = Len(modelRuns)
        /\ \/ Closes(r, "SUCCEEDED") \/ Closes(r, "FAILED")
           \/ call'[r].pc = "catch" /\ call'[r].row = call[r].row
    BY <1>3, FinishSteps DEF Closes
  <2>2. Open(r) /\ (call'[r].pc = "catch" => Open(r)')
    BY <2>1 DEF Open
  <2>3. \/ Open(r)' /\ call'[r].row = call[r].row
        \/ call[r].row = 0
        \/ modelRuns'[call[r].row].status # "RUNNING"
    BY <1>c, <2>1, <2>2
  <2> QED BY <1>0, <2>1, <2>2, <2>3, OrphansKept
<1>4. CASE Catch(r, abort) \/ CloseFailed(r, abort) \/ CloseThrows(r) \/ DelayOver(r, abort)
  <2>1. /\ call[r].pc \in {"catch", "closing", "delay"} /\ Len(modelRuns') = Len(modelRuns)
        /\ \/ call'[r].pc = "closing" /\ call'[r].row = call[r].row
           \/ \E s \in {"FAILED", "CANCELLED"} : Closes(r, s)
           \/ modelRuns' = modelRuns /\ modelRuns[call[r].row].status # "RUNNING"
           \/ dbFaults' = dbFaults + 1
           \/ call[r].pc = "delay" /\ modelRuns' = modelRuns
    BY <1>4, CatchSteps DEF Closes
  <2>2. Open(r) /\ (call'[r].pc = "closing" => Open(r)')
    BY <2>1 DEF Open
  <2>3. CASE dbFaults' = dbFaults + 1
    <3>1. ASSUME NEW i \in Orphans'
          PROVE  i \in Orphans \cup {call[r].row}
      <4>1. i \in 1..Len(modelRuns')
        BY DEF Orphans
      <4>2. \/ i \in Orphans \/ i = call[r].row \/ i > Len(modelRuns)
        BY <1>0, <2>2, OrphansFrame
      <4> QED BY <1>0, <2>1, <4>1, <4>2
    <3> QED BY <2>3, <3>1
  <2>4. CASE dbFaults' # dbFaults + 1
    <3>1. call[r].pc = "delay" /\ modelRuns' = modelRuns =>
            call[r].row = 0 \/ modelRuns'[call[r].row].status # "RUNNING"
      BY DEF CallFits
    <3>2. \/ Open(r)' /\ call'[r].row = call[r].row
          \/ call[r].row = 0
          \/ modelRuns'[call[r].row].status # "RUNNING"
      BY <1>c, <2>1, <2>2, <2>4, <3>1
    <3> QED BY <1>0, <2>1, <2>2, <3>2, OrphansKept
  <2> QED BY <2>3, <2>4
<1> QED BY <1>1, <1>2, <1>3, <1>4 DEF GatewayStep

\* Neither does a caller that leaves: an open row it had is counted.
LEMMA LeaveOrphans ==
  ASSUME AtomicTypes, NEW r \in Runs, Leave(r)
  PROVE  \/ Orphans' \subseteq Orphans
         \/ /\ \E x : Orphans' \subseteq Orphans \cup {x}
            /\ walkedAway' = walkedAway + 1
<1>1. /\ modelRuns' = modelRuns /\ RowsGrow(r) /\ Len(modelRuns) \in Nat
      /\ \A q \in Runs \ {r} : call'[q] = call[q]
      /\ HasOpenRow(r) => walkedAway' = walkedAway + 1
  BY LeaveFacts, RowsSame DEF AtomicTypes
<1>2. ASSUME NEW i \in Orphans'
      PROVE  i \in Orphans \cup {call[r].row} /\ (i \in Orphans \/ HasOpenRow(r))
  <2>1. i \in 1..Len(modelRuns) /\ modelRuns[i].status = "RUNNING"
    BY <1>1 DEF Orphans
  <2>2. i \in Orphans \/ (i = call[r].row /\ Open(r))
    <3>1. i \in Orphans \/ (i = call[r].row /\ Open(r)) \/ i > Len(modelRuns)
      BY <1>1, OrphansFrame
    <3> QED BY <1>1, <2>1, <3>1
  <2> QED BY <2>1, <2>2 DEF HasOpenRow
<1>3. CASE HasOpenRow(r)
  BY <1>1, <1>2, <1>3
<1>4. CASE ~HasOpenRow(r)
  BY <1>2, <1>4
<1> QED BY <1>3, <1>4

\* A call that begins or is pulled leaves none.
LEMMA QuietOrphans ==
  ASSUME AtomicTypes, NEW r \in Runs, modelRuns' = modelRuns,
         \A q \in Runs \ {r} : call'[q] = call[q],
         ~Open(r) \/ (Open(r)' /\ call'[r].row = call[r].row)
  PROVE  Orphans' \subseteq Orphans
<1>1. RowsGrow(r) /\ Len(modelRuns') = Len(modelRuns)
  BY RowsSame DEF AtomicTypes
<1> QED BY <1>1, OrphansKept

\* While the ledger and the calls are left alone, and no fence goes back.
LEMMA LedgerSame ==
  ASSUME TypeOK, AtomicTyped, LedgerInv, UNCHANGED gatewayVars,
         \A j \in Jobs : fencingToken'[j] >= fencingToken[j] /\ fencingToken'[j] \in Nat,
         NEW r \in Runs, \A q \in Runs \ {r} : RunKept(q),
         \/ token'[r] = 0
         \/ /\ target'[r] = target[r] /\ token'[r] = token[r] /\ token[r] # 0
            /\ at'[r] \in BeforeDraft => at[r] \in BeforeDraft
            /\ at'[r] \in BeforeRevision => at[r] \in BeforeRevision
         \/ /\ target'[r] \in Jobs /\ token'[r] = fencingToken[target'[r]] + 1
  PROVE  LedgerInv'
<1>1. CallsFit'
  BY FitsSame DEF LedgerInv, CallsFit, gatewayVars
<1>2. RowsKnown'
  BY KnownFrame DEF LedgerInv, gatewayVars
<1>3. OrphansAreFaults'
  BY DEF LedgerInv, OrphansAreFaults, Orphans, Open, gatewayVars
<1> QED BY <1>1, <1>2, <1>3 DEF LedgerInv

\* A call begins where no row of it can be yet.
LEMMA AskFits ==
  ASSUME TypeOK, AtomicTyped, RowsKnown, NEW r \in Runs, Asks(r)
  PROVE  CallFits(r)'
<1>1. /\ ~Idle(r) /\ call'[r].pc = "start" /\ call'[r].row = 0
      /\ call'[r].trace = Trace(r) /\ modelRuns' = modelRuns
      /\ \/ at[r] = "load" /\ call'[r].key = NoKey
         \/ at[r] = "dispatch" /\ call'[r].key # NoKey
  BY AskFacts
<1>2. ASSUME NEW i \in 1..Len(modelRuns), Mine(r, i)'
      PROVE  FALSE
  BY <1>1, <1>2 DEF Mine, RowsKnown, BeforeDraft, BeforeRevision
<1> QED BY <1>1, <1>2 DEF CallFits

\* Every step keeps the ledger.
LEMMA LedgerStep ==
  ASSUME TypeOK, AtomicTyped, AtomicTyped', TokensIdentifyRuns, LedgerInv, AtomicNext
  PROVE  LedgerInv'
<1>0. /\ CallsFit /\ RowsKnown /\ OrphansAreFaults /\ AtomicTypes /\ AtomicTypes'
      /\ \A j \in Jobs : fencingToken[j] \in Nat
      /\ call \in [Runs -> CallType] /\ walkedAway \in Nat /\ walkedAway' \in Nat
      /\ dbFaults \in Nat
  BY GatewayBounds, MaxFenceAssumption DEF LedgerInv, AtomicTyped, AtomicTypes, TypeOK
<1>1. ASSUME NEW j \in Jobs, HandlerStep(j)
      PROVE  LedgerInv'
  <2>1. UNCHANGED <<gatewayVars, execVars, runVars, fencingToken>>
    BY <1>1, HandlerFacts
  <2>2. CallsFit'
    BY <1>0, <2>1, FitsSame DEF CallsFit, gatewayVars
  <2>3. RowsKnown'
    BY <1>0, <2>1 DEF RowsKnown, Idle, Trace, gatewayVars, execVars, runVars
  <2>4. OrphansAreFaults'
    BY <1>0, <2>1 DEF OrphansAreFaults, Orphans, Open, gatewayVars
  <2> QED BY <2>2, <2>3, <2>4 DEF LedgerInv
<1>2. ASSUME NEW r \in Runs, NEW j \in Jobs, ClaimJob(r, j)
      PROVE  LedgerInv'
  <2>1. /\ UNCHANGED gatewayVars
        /\ target'[r] \in Jobs /\ token'[r] = fencingToken[target'[r]] + 1
    BY <1>2, ClaimFacts
  <2>2. \A i \in Jobs : fencingToken'[i] >= fencingToken[i] /\ fencingToken'[i] \in Nat
    BY <1>0, <1>2, ClaimFacts
  <2>3. \A q \in Runs \ {r} : RunKept(q)
    BY <1>2, ClaimTyped
  <2> QED BY <2>1, <2>2, <2>3, LedgerSame
<1>3. ASSUME NEW r \in Runs, LocalStep(r)
      PROVE  LedgerInv'
  <2>1. /\ UNCHANGED <<vars, gatewayVars>> /\ ~Idle(r)
    BY <1>3, LocalFacts
  <2>2. \A i \in Jobs : fencingToken'[i] >= fencingToken[i] /\ fencingToken'[i] \in Nat
    BY <1>0, <2>1 DEF vars, rowVars, leaseVars
  <2>3. \A q \in Runs \ {r} : RunKept(q)
    BY <1>3, LocalTyped
  <2>4. target'[r] = target[r] /\ token'[r] = token[r] /\ token[r] # 0
    BY <2>1 DEF vars, runVars, Idle
  <2> QED BY <1>3, <2>1, <2>2, <2>3, <2>4, Forward, LedgerSame
<1>4. ASSUME NEW r \in Runs, MonitorStep(r)
      PROVE  LedgerInv'
  <2>1. UNCHANGED <<gatewayVars, execVars, rowVars, target, token>>
    BY <1>4, MonitorTyped
  <2>2. CallsFit'
    BY <1>0, <2>1, FitsSame DEF CallsFit, gatewayVars
  <2>3. RowsKnown'
    BY <1>0, <2>1 DEF RowsKnown, Idle, Trace, gatewayVars, execVars, rowVars, leaseVars
  <2>4. OrphansAreFaults'
    BY <1>0, <2>1 DEF OrphansAreFaults, Orphans, Open, gatewayVars
  <2> QED BY <2>2, <2>3, <2>4 DEF LedgerInv
<1>5. ASSUME NEW r \in Runs, ModelStep(r)
      PROVE  LedgerInv'
  <2>1. /\ UNCHANGED <<vars, execVars>> /\ ~Idle(r) /\ CallGoesOn(r)
        /\ GatewayStep(r, aborted[r])
    BY <1>5, ModelTyped DEF ModelStep
  <2>2. /\ CallTyped(r) /\ CallFits(r) /\ Calling(r) /\ RowsGrow(r)
        /\ \A q \in Runs \ {r} : call'[q] = call[q]
    BY <1>0, <2>1, RunFacts DEF CallsFit, CallGoesOn
  <2>3. CallsFit'
    <3>1. CallFits(r)'
      BY <2>1, <2>2, ModelFits
    <3>2. \A q \in Runs \ {r} : CallFits(q)'
      BY <1>0, <2>1, <2>2, FitsKept
    <3> QED BY <3>1, <3>2 DEF CallsFit
  <2>4. RowsKnown'
    BY <1>0, <2>1, <2>2, KnownGrows
  <2>5. OrphansAreFaults'
    <3>1. \/ Orphans' \subseteq Orphans
          \/ /\ \E x : Orphans' \subseteq Orphans \cup {x}
             /\ dbFaults' = dbFaults + 1
      BY <1>0, <2>1, <2>2, ModelOrphans
    <3>2. walkedAway' = walkedAway /\ walkedAway' >= walkedAway /\ dbFaults' >= dbFaults
      BY <1>0, <2>1 DEF CallGoesOn
    <3>3. dbFaults' = dbFaults + 1 =>
            dbFaults' + walkedAway' >= dbFaults + walkedAway + 1
      BY <1>0, <3>2
    <3> QED BY <1>0, <3>1, <3>2, <3>3, OrphansPaid
  <2> QED BY <2>3, <2>4, <2>5 DEF LedgerInv
<1>6. ASSUME NEW r \in Runs, YieldingStep(r) \/ Asks(r) \/ Verify(r) \/ EndStep(r)
      PROVE  LedgerInv'
  <2>1. /\ ~Idle(r) /\ modelRuns' = modelRuns /\ dbFaults' = dbFaults
        /\ fencingToken' = fencingToken
        /\ \A q \in Runs \ {r} : RunKept(q) /\ call'[q] = call[q]
        /\ \/ token'[r] = 0
           \/ target'[r] = target[r] /\ token'[r] = token[r]
    <3>1. CASE YieldingStep(r)
      <4>1. PICK c \in CheckpointType : YieldsFrom(r, c)
        BY <1>0, <3>1, YieldShape
      <4>2. \E k, d : Yield(r, k, d, c)
        BY <4>1 DEF YieldsFrom
      <4>3. Fenced(r) /\ UNCHANGED <<leaseVars, runVars>>
        BY <1>0, <4>2, YieldFacts
      <4> QED BY <3>1, <4>3, FencedTarget, YieldRest, YieldTyped
          DEF leaseVars, runVars, RunKept
    <3>2. CASE Asks(r)
      BY <3>2, AskFacts, AskTyped DEF vars, rowVars, leaseVars, runVars, RunKept
    <3>3. CASE Verify(r)
      BY <1>0, <3>3, VerifyFacts, VerifyTyped, LeaveFacts
          DEF vars, rowVars, leaseVars, runVars, RunKept
    <3>4. CASE EndStep(r)
      BY <3>4, EndFacts, EndTyped, LeaveFacts, <1>0 DEF RunKept
    <3> QED BY <1>6, <3>1, <3>2, <3>3, <3>4
  <2>2. CallsFit'
    <3>1. \A q \in Runs \ {r} : CallFits(q)'
      BY <1>0, <2>1, FitsSame DEF CallsFit
    <3>2. CASE Asks(r)
      BY <1>0, <3>2, AskFits, <3>1 DEF CallsFit
    <3>3. CASE Leave(r)
      <4>1. call'[r] = NoCall
        BY <1>0, <3>3, LeaveFacts
      <4>2. CallFits(r)'
        BY <4>1 DEF CallFits, NoCall, Calling
      <4> QED BY <3>1, <4>2 DEF CallsFit
    <3>4. CASE StreamToken(r)
      <4>1. call[r].pc = "yield" /\ Pull(r)
        BY <3>4 DEF StreamToken
      <4>2. /\ call'[r].pc = "stream" /\ call'[r].trace = call[r].trace
            /\ call'[r].key = call[r].key /\ call'[r].row = call[r].row
        BY <1>0, <4>1, PullFacts
      <4>3. CallFits(r)'
        BY <1>0, <2>1, <4>1, <4>2 DEF CallsFit, CallFits, Mine, Calling
      <4> QED BY <3>1, <4>3 DEF CallsFit
    <3>5. CASE call' = call
      BY <1>0, <2>1, <3>5, FitsSame DEF CallsFit
    <3> QED BY <1>6, <3>2, <3>3, <3>4, <3>5, YieldRest, VerifyFacts, EndFacts
  <2>3. RowsKnown'
    <3>1. \/ token'[r] = 0
          \/ /\ target'[r] = target[r] /\ token'[r] = token[r] /\ token[r] # 0
             /\ at'[r] \in BeforeDraft => at[r] \in BeforeDraft
             /\ at'[r] \in BeforeRevision => at[r] \in BeforeRevision
      BY <1>6, <2>1, Forward, EndFacts DEF Idle
    <3> QED BY <1>0, <2>1, <3>1, KnownFrame
  <2>4. OrphansAreFaults'
    <3>1. CASE Leave(r)
      <4>1. \/ Orphans' \subseteq Orphans
            \/ /\ \E x : Orphans' \subseteq Orphans \cup {x}
               /\ walkedAway' = walkedAway + 1
        BY <1>0, <3>1, LeaveOrphans
      <4>2. walkedAway' >= walkedAway /\ dbFaults' >= dbFaults
        BY <1>0, <2>1, <3>1, LeaveFacts
      <4>3. walkedAway' = walkedAway + 1 =>
              dbFaults' + walkedAway' >= dbFaults + walkedAway + 1
        BY <1>0, <2>1
      <4> QED BY <1>0, <4>1, <4>2, <4>3, OrphansPaid
    <3>2. CASE Asks(r) \/ StreamToken(r) \/ (call' = call /\ walkedAway' = walkedAway)
      <4>1. walkedAway' = walkedAway
        BY <3>2, AskFacts DEF StreamToken
      <4>2. ~Open(r) \/ (Open(r)' /\ call'[r].row = call[r].row)
        <5>1. CASE Asks(r)
          BY <5>1, AskFacts DEF Calling, Open
        <5>2. CASE StreamToken(r)
          <6>1. Pull(r)
            BY <5>2 DEF StreamToken
          <6> QED BY <1>0, <6>1, PullFacts DEF Open
        <5>3. CASE call' = call
          BY <5>3 DEF Open
        <5> QED BY <3>2, <5>1, <5>2, <5>3
      <4>3. Orphans' \subseteq Orphans
        BY <1>0, <2>1, <4>2, QuietOrphans
      <4> QED BY <1>0, <2>1, <4>1, <4>3, OrphansPaid
    <3> QED BY <1>6, <3>1, <3>2, YieldRest, VerifyFacts, EndFacts
  <2> QED BY <2>2, <2>3, <2>4 DEF LedgerInv
<1> QED BY <1>1, <1>2, <1>3, <1>4, <1>5, <1>6, StepKinds

\* No call has a row in the empty table.
LEMMA LedgerInit == AtomicInit => LedgerInv
<1> SUFFICES ASSUME AtomicInit PROVE LedgerInv
  OBVIOUS
<1>1. /\ modelRuns = <<>> /\ \A r \in Runs : call[r] = NoCall /\ Idle(r)
      /\ dbFaults = 0 /\ walkedAway = 0 /\ Len(modelRuns) = 0
  BY CallersAssumption DEF AtomicInit, GatewayInit, Init, Idle
<1>2. CallsFit
  BY <1>1, NoCallFits DEF CallsFit
<1>3. RowsKnown
  BY <1>1 DEF RowsKnown
<1>4. Orphans = {}
  BY <1>1 DEF Orphans
<1>5. OrphansAreFaults
  BY <1>1, <1>4, FS_EmptySet DEF OrphansAreFaults
<1> QED BY <1>2, <1>3, <1>5 DEF LedgerInv

\* The store's invariant, its tokens above all, holds of the executor.
THEOREM AtomicStoreInvariance == AtomicSpec => []IInv
  BY AtomicImplementsStore, Invariance, PTL

\* The invariant behind the ledger: what a call knows of its row, and that no
\* row of a call is there before the call begins.
THEOREM LedgerInvariance == AtomicSpec => []LedgerInv
<1>1. /\ IInv /\ TypeOK /\ AtomicTyped /\ AtomicTyped' /\ LedgerInv
      /\ [AtomicNext]_allVars
      => LedgerInv'
  <2> SUFFICES ASSUME IInv, TypeOK, AtomicTyped, AtomicTyped', LedgerInv,
                      [AtomicNext]_allVars
               PROVE  LedgerInv'
    OBVIOUS
  <2>1. CASE AtomicNext
    BY <2>1, LedgerStep DEF IInv
  <2>2. CASE UNCHANGED allVars
    <3>1. UNCHANGED <<vars, gatewayVars, execVars>>
      BY <2>2 DEF allVars
    <3> QED BY <3>1 DEF LedgerInv, CallsFit, CallFits, Calling, Mine, RowsKnown, Idle, Trace,
            OrphansAreFaults, Orphans, Open, vars, rowVars, leaseVars, runVars, gatewayVars, execVars
  <2> QED BY <2>1, <2>2
<1> QED BY LedgerInit, <1>1, AtomicInvariance, AtomicStoreInvariance, PTL DEF AtomicSpec

\* LedgerIsTrue: whoever has an answer of the model has exactly one SUCCEEDED
\* row for it, whoever was told of an error has none, and every row left
\* RUNNING is paid for by a failed call of the recorder or by a caller that
\* went away.  (ModelGateway.streamWithAdapter, ModelRunService)
THEOREM TrueLedger == AtomicSpec => []LedgerIsTrue
<1>1. AtomicTyped /\ LedgerInv => LedgerIsTrue
  <2> SUFFICES ASSUME AtomicTyped, LedgerInv PROVE AnswersAreRecorded
    BY DEF LedgerIsTrue, LedgerInv
  <2>1. ASSUME NEW c \in Callers
        PROVE  LET good == {i \in RowsOf(c) : modelRuns[i].status = "SUCCEEDED"}
               IN  /\ call[c].pc = "answered" => good = {call[c].row}
                   /\ call[c].pc = "failed" => good = {}
    <3>1. /\ c \in Runs /\ CallFits(c) /\ call[c] \in CallType /\ Len(modelRuns) \in Nat
          /\ call[c].row <= Len(modelRuns)
      BY CallersAssumption DEF LedgerInv, CallsFit, AtomicTyped, AtomicTypes, RowsExist
    <3>2. call[c].row \in 0..Len(modelRuns)
      BY <3>1, CallFields
    <3>3. \A i : i \in RowsOf(c) <=> i \in 1..Len(modelRuns) /\ Mine(c, i)
      BY DEF RowsOf, Mine
    <3>4. ASSUME call[c].pc = "answered"
          PROVE  {i \in RowsOf(c) : modelRuns[i].status = "SUCCEEDED"} = {call[c].row}
      BY <3>1, <3>2, <3>3, <3>4 DEF CallFits, Calling
    <3>5. ASSUME call[c].pc = "failed"
          PROVE  {i \in RowsOf(c) : modelRuns[i].status = "SUCCEEDED"} = {}
      BY <3>1, <3>2, <3>3, <3>5 DEF CallFits, Calling
    <3> QED BY <3>4, <3>5
  <2> QED BY <2>1 DEF AnswersAreRecorded
<1> QED BY <1>1, AtomicInvariance, LedgerInvariance, PTL
=============================================================================
