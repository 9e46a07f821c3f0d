--------------------------- MODULE AtomicGeneration ---------------------------
(***************************************************************************)
(* WorkflowGenerationExecutor in ATOMIC_GROUNDING_MODE=shadow_no_persist:  *)
(* a strict body is drafted as one structured answer, verified, revised at *)
(* most once, sealed in the checkpoint and streamed from there; a plain    *)
(* one is streamed while the model writes it.  Both call the model through *)
(* ModelGateway and write through WorkflowStore.                           *)
(*                                                                         *)
(* A candidate is named by the model_runs row whose answer it was rendered *)
(* from and the evidence it was verified against; evidence by the claim    *)
(* that assigned it, plus MaxFence when a targeted retrieval added to it.  *)
(* What the verifier says of an answer, and whether the headings of a      *)
(* candidate are still the current ones, are choices.  Of a plain body     *)
(* only the model call is here: module Generation has its commit.          *)
(***************************************************************************)
EXTENDS WorkflowStore, ModelGateway

ASSUME CallersAssumption == Callers = Runs

VARIABLES
  \* rows
  strict,       \* isStrict(job)
  checkpoint,   \* workflow_jobs.checkpoint
  attempts,     \* workflow_jobs.generation_attempt
  assigned,     \* grounding_assignments
  \* locals of execute
  at,           \* where the run is
  restored,     \* the checkpoint it goes by
  candidate,    \* the sealed candidate
  evidence      \* of the assignment it loaded

atomicRows == <<strict, checkpoint, attempts, assigned>>
execVars == <<at, restored, candidate, evidence>>
allVars == <<vars, gatewayVars, atomicRows, execVars>>

-----------------------------------------------------------------------------
AtomicPhases == {"atomic_revision_required", "atomic_revision_retrieved",
                 "atomic_revision_model_started", "atomic_sealed",
                 "atomic_shadow_complete"}
Phases == AtomicPhases \cup {"none", "model_started", "model_completed"}

\* 0 for no evidence
EvidenceSets == 0..(2 * MaxFence)

NoCandidate == [row |-> 0, evidence |-> 0]

\* base: base_retrieval_run_id; key: the operation key
Checkpoint(phase, n, cand, emitted, base, key) ==
  [phase |-> phase, attempt |-> n, candidate |-> cand, emitted |-> emitted,
   base |-> base, key |-> key]
NoCheckpoint == Checkpoint("none", 0, NoCandidate, 0, 0, NoKey)

\* revision: targeted_revision_attempts
Unassigned == [revision |-> -1, evidence |-> 0]

\* The data of a token event: the row that wrote it, and its place there, in
\* one number
Token(row, i) == row * (MaxText + 1) + i
ASSUME TokenPayloadsAssumption == Payloads = Nat

AtomicKinds == {"meta", "reset", "token", "model_completed",
                "grounding.revision_required", "grounding.revision_retrieved",
                "grounding.revision_model_started",
                "grounding.proposal_validated", "done"}
ASSUME AtomicKindsAssumption == AtomicKinds \subseteq Kinds

Places == {"idle", "open", "assign", "load", "draft", "validate", "require",
           "review", "retrieve", "announce", "prepare", "intent", "inspect",
           "dispatch", "revise", "persist", "recover", "emit", "finish"}

AtomicTypeOK ==
  /\ TypeOK
  /\ GatewayTypeOK
  /\ \A j \in Jobs :
       /\ strict[j] \in BOOLEAN
       /\ checkpoint[j].phase \in Phases
       /\ checkpoint[j].attempt \in 0..attempts[j]
       /\ checkpoint[j].emitted \in 0..MaxText
       /\ assigned[j].revision \in -1..1
       /\ assigned[j].evidence \in EvidenceSets
  /\ \A r \in Runs :
       /\ at[r] \in Places
       /\ at[r] = "idle" <=> Idle(r)
       /\ call[r].pc # "none" => at[r] \in {"draft", "revise"}
       /\ candidate[r].row \in 0..Len(modelRuns)

AtomicInit ==
  /\ Init
  /\ GatewayInit
  /\ strict \in [Jobs -> BOOLEAN]
  /\ checkpoint = [j \in Jobs |-> NoCheckpoint]
  /\ attempts = [j \in Jobs |-> 0]
  /\ assigned = [j \in Jobs |-> Unassigned]
  /\ at = [r \in Runs |-> "idle"]
  /\ restored = [r \in Runs |-> NoCheckpoint]
  /\ candidate = [r \in Runs |-> NoCandidate]
  /\ evidence = [r \in Runs |-> 0]

-----------------------------------------------------------------------------
(* The handlers of WorkflowStore, with what they do to the new columns.    *)

CreateJob(j) == Create(j) /\ UNCHANGED <<gatewayVars, atomicRows, execVars>>
CancelJob(j) == Cancel(j) /\ UNCHANGED <<gatewayVars, atomicRows, execVars>>

\* Bound: a lease is lost, a run killed and a job resumed only while a claim
\* is left, and a failed call of the recorder takes the place of one.
ClaimLeft(j) == fencingToken[j] + dbFaults < MaxFence

LoseLease(j) ==
  /\ ClaimLeft(j)
  /\ LeaseExpires(j)
  /\ UNCHANGED <<gatewayVars, atomicRows, execVars>>

\* resumeMaterial drops the checkpoint and the assignment.
ResumeJob(j) ==
  /\ ClaimLeft(j)
  /\ ResumeMaterial(j)
  /\ checkpoint' = [checkpoint EXCEPT ![j] = NoCheckpoint]
  /\ assigned' = [assigned EXCEPT ![j] = Unassigned]
  /\ UNCHANGED <<gatewayVars, strict, attempts, execVars>>

-----------------------------------------------------------------------------
(* execute, one action per transaction or external call.                   *)

Goto(r, place) == at' = [at EXCEPT ![r] = place]

\* yield event(kind, d, c): one transaction appends the event and stores the
\* checkpoint.  The run goes by the new checkpoint from here on.
Yield(r, kind, d, c) ==
  /\ PersistProgress(r, kind, d)
  /\ checkpoint' = [checkpoint EXCEPT ![target[r]] = c]
  /\ attempts' = [attempts EXCEPT ![target[r]] = c.attempt]
  /\ restored' = [restored EXCEPT ![r] = c]

\* execute, executeAtomic and resumeAtomicRevision: where a claim goes on
Entry(phase) ==
  CASE phase \in {"none", "model_started"}           -> "open"
    [] phase = "model_completed"                     -> "finish"
    [] phase = "atomic_revision_required"            -> "review"
    [] phase \in {"atomic_revision_retrieved",
                  "atomic_revision_model_started"}   -> "prepare"
    [] phase \in {"atomic_sealed",
                  "atomic_shadow_complete"}          -> "recover"

ClaimJob(r, j) ==
  /\ ClaimLeft(j)
  /\ Claim(r, j)
  /\ Goto(r, Entry(checkpoint[j].phase))
  /\ restored' = [restored EXCEPT ![r] = checkpoint[j]]
  /\ UNCHANGED <<gatewayVars, atomicRows, candidate, evidence>>

\* A new generation attempt: "reset" when it replaces a broken one.
OpenAttempt(r) ==
  /\ at[r] = "open"
  /\ Yield(r, IF restored[r].phase = "model_started" THEN "reset" ELSE "meta", 0,
           Checkpoint("model_started", attempts[target[r]] + 1, NoCandidate, 0,
                      0, NoKey))
  /\ Goto(r, "assign")
  /\ UNCHANGED <<gatewayVars, strict, assigned, candidate, evidence>>

\* prepareWorkflowGeneration: a second assignment for the job is an error,
\* see Generation.
AssignEvidence(r) ==
  /\ at[r] = "assign"
  /\ assigned[target[r]] = Unassigned
  /\ assigned' = [assigned EXCEPT ![target[r]] =
                    [revision |-> 0, evidence |-> token[r]]]
  /\ Goto(r, "load")
  /\ UNCHANGED <<vars, gatewayVars, strict, checkpoint, attempts, restored,
                 candidate, evidence>>

\* The trace of a run's calls: its job and, for the attempt, its claim
Trace(r) == <<target[r], token[r]>>

\* loadAssignment refuses an assignment of the other revision; then the model
\* is called, in the response mode of the job.
CallForDraft(r) ==
  /\ at[r] = "load"
  /\ strict[target[r]] => assigned[target[r]].revision = 0
  /\ evidence' = [evidence EXCEPT ![r] = assigned[target[r]].evidence]
  /\ Begin(r, IF strict[target[r]] THEN "structured" ELSE "text", Trace(r), NoKey)
  /\ Goto(r, "draft")
  /\ UNCHANGED <<vars, atomicRows, restored, candidate>>

\* The generator of the call runs on; nothing of the job is touched.
ModelStep(r) ==
  /\ GatewayStep(r, aborted[r])
  /\ dbFaults' # dbFaults => ClaimLeft(target[r])
  /\ UNCHANGED <<vars, atomicRows, execVars>>

\* A plain body: the token is an event before the next one is pulled.
StreamToken(r) ==
  /\ call[r].pc = "yield"
  /\ Yield(r, "token", Token(call[r].row, call[r].text), restored[r])
  /\ Pull(r)
  /\ UNCHANGED <<modelRuns, dbFaults, walkedAway, strict, assigned, at,
                 candidate, evidence>>

StreamCompleted(r) ==
  /\ at[r] = "draft"
  /\ call[r].pc = "answered"
  /\ call[r].mode = "text"
  /\ Yield(r, "model_completed", 0, [restored[r] EXCEPT !.phase = "model_completed"])
  /\ Leave(r)
  /\ Goto(r, "finish")
  /\ UNCHANGED <<strict, assigned, candidate, evidence>>

\* AtomicGroundingCoordinator.generate: every claim of the answer is
\* supported and it is sealed, or a first draft may be revised once.
Verify(r) ==
  /\ call[r].pc = "answered"
  /\ call[r].mode = "structured"
  /\ \/ /\ candidate' = [candidate EXCEPT ![r] =
                           [row |-> call[r].row, evidence |-> evidence[r]]]
        /\ Goto(r, IF at[r] = "draft" THEN "validate" ELSE "persist")
     \/ /\ at[r] = "draft"
        /\ Goto(r, "require")
        /\ UNCHANGED candidate
  /\ Leave(r)
  /\ UNCHANGED <<vars, atomicRows, restored, evidence>>

\* grounding.revision_required, with reserveAtomicRevision in its transaction
RequireTargetedRevision(r) ==
  /\ at[r] = "require"
  /\ assigned[target[r]].revision = 0
  /\ assigned' = [assigned EXCEPT ![target[r]].revision = 1]
  /\ Yield(r, "grounding.revision_required", 0,
           [restored[r] EXCEPT !.phase = "atomic_revision_required",
                               !.base = evidence[r]])
  /\ Goto(r, "review")
  /\ UNCHANGED <<gatewayVars, strict, candidate, evidence>>

\* prepareGroundingRevision: the evidence another run has already replaced is
\* left alone.
ReviewAssignment(r) ==
  /\ at[r] = "review"
  /\ LET a == assigned[target[r]]
     IN  Goto(r, IF a.revision = 1 /\ a.evidence # restored[r].base
                 THEN "announce" ELSE "retrieve")
  /\ UNCHANGED <<vars, gatewayVars, atomicRows, restored, candidate, evidence>>

\* replaceEvidenceAfterTargetedRetrieval: the row is locked, the fence is not
\* looked at, and what was reviewed may have changed since.
ReplaceEvidence(r) ==
  /\ at[r] = "retrieve"
  /\ assigned[target[r]].revision = 1
  /\ assigned' = [assigned EXCEPT ![target[r]].evidence = MaxFence + token[r]]
  /\ Goto(r, "announce")
  /\ UNCHANGED <<vars, gatewayVars, strict, checkpoint, attempts, restored,
                 candidate, evidence>>

AnnounceRetrieval(r) ==
  /\ at[r] = "announce"
  /\ Yield(r, "grounding.revision_retrieved", 0,
           [restored[r] EXCEPT !.phase = "atomic_revision_retrieved"])
  /\ Goto(r, "prepare")
  /\ UNCHANGED <<gatewayVars, strict, assigned, candidate, evidence>>

\* Mutant of SameOperation: the prepared identity is not compared.
AnyOperation(c, key) == TRUE

\* sameModelOperationIdentity, when the checkpoint has one
SameOperation(c, key) ==
  c.phase = "atomic_revision_model_started" => c.key = key

\* The operation key: a digest of the job, the attempt and a request that
\* quotes the evidence.
Key(r, found) == <<target[r], restored[r].attempt, found>>

\* prepareSingleDispatch: the identity of the revision call
PrepareRevision(r) ==
  LET a == assigned[target[r]]
  IN  /\ at[r] = "prepare"
      /\ a.revision = 1
      /\ SameOperation(restored[r], Key(r, a.evidence))
      /\ evidence' = [evidence EXCEPT ![r] = a.evidence]
      /\ Goto(r, IF restored[r].phase = "atomic_revision_model_started"
                 THEN "inspect" ELSE "intent")
      /\ UNCHANGED <<vars, gatewayVars, atomicRows, restored, candidate>>

\* The intent to call the model is in the checkpoint before the call is made.
RecordIntent(r) ==
  /\ at[r] = "intent"
  /\ Yield(r, "grounding.revision_model_started", 0,
           [restored[r] EXCEPT !.phase = "atomic_revision_model_started",
                               !.key = Key(r, evidence[r])])
  /\ Goto(r, "dispatch")
  /\ UNCHANGED <<gatewayVars, strict, assigned, candidate, evidence>>

\* After a crash: the call is made only if it never was (findOperationState).
InspectOperation(r) ==
  /\ at[r] = "inspect"
  /\ ~KeyTaken(Key(r, evidence[r]))
  /\ Goto(r, "dispatch")
  /\ UNCHANGED <<vars, gatewayVars, atomicRows, restored, candidate, evidence>>

CallForRevision(r) ==
  /\ at[r] = "dispatch"
  /\ Begin(r, "structured", Trace(r), Key(r, evidence[r]))
  /\ Goto(r, "revise")
  /\ UNCHANGED <<vars, atomicRows, restored, candidate, evidence>>

\* Mutant of SealedCheckpoint: emitted_utf16 starts over.
SealedFromStart(r) ==
  [restored[r] EXCEPT !.phase = "atomic_sealed", !.candidate = candidate[r],
                      !.emitted = 0]

\* atomicSealedCheckpoint, with the emitted_utf16 of the restored one
SealedCheckpoint(r) ==
  [restored[r] EXCEPT !.phase = "atomic_sealed", !.candidate = candidate[r]]

\* grounding.proposal_validated; a revision is persisted in the same way by
\* persist_sealed_candidate.
Seal(r) ==
  /\ at[r] \in {"validate", "persist"}
  /\ Yield(r, "grounding.proposal_validated", 0, SealedCheckpoint(r))
  /\ Goto(r, "emit")
  /\ UNCHANGED <<gatewayVars, strict, assigned, candidate, evidence>>

\* The next piece of the sealed text
EmitToken(r) ==
  LET i == restored[r].emitted + 1
  IN  /\ at[r] = "emit"
      /\ i <= MaxText
      /\ Yield(r, "token", Token(candidate[r].row, i),
               [restored[r] EXCEPT !.emitted = i])
      /\ UNCHANGED <<gatewayVars, strict, assigned, at, candidate, evidence>>

EmitDone(r) ==
  /\ at[r] = "emit"
  /\ restored[r].emitted = MaxText
  /\ Yield(r, "done", 0, [restored[r] EXCEPT !.phase = "atomic_shadow_complete"])
  /\ Goto(r, "finish")
  /\ UNCHANGED <<gatewayVars, strict, assigned, candidate, evidence>>

\* AtomicGroundingCoordinator.recover: the assignment is still the one the
\* candidate was sealed with.
Recover(r) ==
  /\ at[r] = "recover"
  /\ assigned[target[r]].evidence = restored[r].candidate.evidence
  /\ candidate' = [candidate EXCEPT ![r] = restored[r].candidate]
  /\ Goto(r, IF restored[r].phase = "atomic_sealed" THEN "validate" ELSE "finish")
  /\ UNCHANGED <<vars, gatewayVars, atomicRows, restored, evidence>>

-----------------------------------------------------------------------------
(* How a run ends.                                                         *)

Over(r) ==
  /\ Goto(r, "idle")
  /\ restored' = [restored EXCEPT ![r] = NoCheckpoint]
  /\ candidate' = [candidate EXCEPT ![r] = NoCandidate]
  /\ evidence' = [evidence EXCEPT ![r] = 0]
  /\ Leave(r)
  /\ UNCHANGED atomicRows

CompleteJob(r) == at[r] = "finish" /\ Complete(r) /\ Over(r)

CallEnded(r) == call[r].pc \in {"none", "answered", "failed", "threw"}

\* persistAtomicFailure with WAITING_MATERIAL: the draft or the revision is
\* not supported, its schema is wrong, the assignment or the headings are not
\* what the checkpoint says, the revision is spent.
WaitForMaterial(r) ==
  /\ ~Idle(r)
  /\ strict[target[r]]
  /\ \/ at[r] \in {"draft", "revise"} /\ (call[r].pc = "answered" \/ call[r].err = "invalid")
     \/ at[r] = "load" /\ assigned[target[r]].revision # 0
     \/ at[r] = "require" /\ assigned[target[r]].revision # 0
     \/ at[r] = "prepare"
     \/ at[r] = "recover"
  /\ CallEnded(r)
  /\ PauseForGrounding(r)
  /\ Over(r)

\* Any other error, INTERNAL_FAIL_CLOSED among them: evidence assigned twice,
\* an operation already dispatched, a model, parser or database error.
RunFails(r) ==
  /\ ~Idle(r)
  /\ CallEnded(r)
  /\ Fail(r)
  /\ Over(r)

\* The process dies, a write is refused, or the signal ends the run.
RunStops(r) ==
  /\ ~Idle(r)
  /\ ~Fenced(r) \/ ClaimLeft(target[r])
  /\ Abandon(r)
  /\ Over(r)

\* Only in a call is the signal seen before the fence is: a run that is not
\* fenced never is again.
MonitorStep(r) ==
  /\ Open(r)
  /\ MonitorPoll(r)
  /\ UNCHANGED <<gatewayVars, atomicRows, execVars>>

ExecuteStep(r) ==
  \/ OpenAttempt(r) \/ AssignEvidence(r) \/ CallForDraft(r) \/ ModelStep(r)
  \/ StreamToken(r) \/ StreamCompleted(r) \/ Verify(r)
  \/ RequireTargetedRevision(r) \/ ReviewAssignment(r) \/ ReplaceEvidence(r)
  \/ AnnounceRetrieval(r) \/ PrepareRevision(r) \/ RecordIntent(r)
  \/ InspectOperation(r) \/ CallForRevision(r) \/ Seal(r)
  \/ EmitToken(r) \/ EmitDone(r) \/ Recover(r)

AtomicNext ==
  \/ \E j \in Jobs : CreateJob(j) \/ CancelJob(j) \/ ResumeJob(j) \/ LoseLease(j)
  \/ \E r \in Runs : \/ \E j \in Jobs : ClaimJob(r, j)
                     \/ ExecuteStep(r) \/ MonitorStep(r)
                     \/ CompleteJob(r) \/ WaitForMaterial(r) \/ RunFails(r)
                     \/ RunStops(r)

AtomicSpec == AtomicInit /\ [][AtomicNext]_allVars

-----------------------------------------------------------------------------
(* Properties.                                                             *)

\* A revision is paid for once: however often its run crashes, is superseded
\* or races the evidence, the model is asked for the revision of a generation
\* attempt of a job at most once.  (resumeAtomicRevision, single-dispatch.v1)
OneRevisionDispatch ==
  \A i, k \in 1..Len(modelRuns) :
    /\ modelRuns[i].key # NoKey
    /\ modelRuns[k].key # NoKey
    /\ modelRuns[i].key[1] = modelRuns[k].key[1]
    /\ modelRuns[i].key[2] = modelRuns[k].key[2]
    => i = k

\* The tokens of a log since its last meta or reset event
Openings == {"meta", "reset"}
Fresh(log) == {p \in 1..Len(log) : /\ log[p].kind = "token"
                                  /\ \A o \in p..Len(log) : log[o].kind \notin Openings}

\* They are the text of one row of model_runs so far, in order.
IsTextOf(log, row) ==
  \A p \in Fresh(log) :
    log[p].data = Token(row, Cardinality({q \in Fresh(log) : q <= p}))

\* The tokens a reader gets since the last meta or reset event are one text:
\* all of one answer of the model, from its beginning, each once and in order,
\* across retries, repairs, crashes and resumed streams.  (streamWithAdapter,
\* executeAtomic)
TokensAreOneText ==
  \A j \in Jobs : \E row \in 0..Len(modelRuns) : IsTextOf(events[j], row)
=============================================================================
