----------------------------- MODULE Generation -----------------------------
(***************************************************************************)
(* WorkflowGenerationExecutor.execute on top of WorkflowStore: the steps   *)
(* by which an engine run turns a claimed job into a published artifact,   *)
(* and how a later run picks up from the checkpoint it left.               *)
(*                                                                         *)
(* This is the executor with ATOMIC_GROUNDING_MODE off (the default) and   *)
(* the legacy definition.  In that mode content jobs run with              *)
(* strict_citation false, so the verifier never asks for a targeted        *)
(* revision and the executor's revision phases are not entered.            *)
(*                                                                         *)
(* A run makes at most one model call, so a streamed token is identified   *)
(* with the claim of the run that streamed it, and a draft is the sequence *)
(* of its tokens.                                                          *)
(***************************************************************************)
EXTENDS WorkflowStore, FiniteSetsExt

CONSTANT MaxTokens    \* MAX_MODEL_TOKEN_EVENTS, the longest draft

ASSUME MaxTokensAssumption == MaxTokens \in Nat

VARIABLES
  \* rows
  workflowType,       \* workflow_jobs.workflow_type
  checkpoint,         \* workflow_jobs.checkpoint
  generationAttempt,  \* workflow_jobs.generation_attempt
  assigned,           \* does the job have a grounding_assignments row?
  artifact,           \* the text the commit transaction inserted
  \* locals of execute
  at,                 \* where the run is
  restored,           \* phase of the checkpoint it was claimed with
  attempt,            \* generationAttempt
  output

jobVars == <<workflowType, checkpoint, generationAttempt, assigned, artifact>>
execVars == <<at, restored, attempt, output>>
genVars == <<jobVars, execVars>>
allVars == <<vars, genVars>>

-----------------------------------------------------------------------------
\* "directory" stands for directory and outline jobs, which never touch the
\* evidence ledger; "content" for content, rewrite and expand jobs, which
\* retrieve evidence; "compress" inherits the evidence of an older result.
WorkflowType == {"directory", "content", "compress"}

Phases == {"model_started", "model_completed", "business_committed", "done"}

Places == {"idle", "open", "retrieve", "stream", "commit", "verify", "publish",
           "committed", "report", "finish"}

\* A missing output reads as ''; phase "none" is a NULL checkpoint.
Checkpoint(phase, n, out) == [phase |-> phase, attempt |-> n, out |-> out]

NoCheckpoint == Checkpoint("none", 0, <<>>)

GenKinds == {"meta", "reset", "token", "model_completed", "business_committed",
             "done"}

ASSUME KindsAssumption == GenKinds \subseteq Kinds

GenTypeOK ==
  /\ TypeOK
  /\ workflowType \in [Jobs -> WorkflowType]
  /\ checkpoint \in [Jobs -> [phase : Phases \cup {"none"}, attempt : Nat,
                              out : Seq(1..MaxFence)]]
  /\ generationAttempt \in [Jobs -> Nat]
  /\ assigned \in [Jobs -> BOOLEAN]
  /\ artifact \in [Jobs -> Seq(1..MaxFence)]
  /\ at \in [Runs -> Places]
  /\ restored \in [Runs -> Phases \cup {"none"}]
  /\ attempt \in [Runs -> Nat]
  /\ output \in [Runs -> Seq(1..MaxFence)]
  /\ \A r \in Runs : at[r] = "idle" <=> Idle(r)

GenInit ==
  /\ Init
  /\ workflowType \in [Jobs -> WorkflowType]
  /\ checkpoint = [j \in Jobs |-> NoCheckpoint]
  /\ generationAttempt = [j \in Jobs |-> 0]
  /\ assigned = [j \in Jobs |-> FALSE]
  /\ artifact = [j \in Jobs |-> <<>>]
  /\ at = [r \in Runs |-> "idle"]
  /\ restored = [r \in Runs |-> "none"]
  /\ attempt = [r \in Runs |-> 0]
  /\ output = [r \in Runs |-> <<>>]

-----------------------------------------------------------------------------
(* The handlers of WorkflowStore, with what they do to the new columns.    *)

CreateJob(j) == Create(j) /\ UNCHANGED genVars

CancelJob(j) == Cancel(j) /\ UNCHANGED genVars

\* Bound: a job is resumed, a lease lost or a run killed only while a claim
\* is left, so that the bound on claims is never what strands a job.
ClaimLeft(j) == fencingToken[j] < MaxFence

\* resumeMaterial drops the checkpoint and the evidence assignment, so the
\* job starts over; generation_attempt stays.
ResumeJob(j) ==
  /\ ClaimLeft(j)
  /\ ResumeMaterial(j)
  /\ checkpoint' = [checkpoint EXCEPT ![j] = NoCheckpoint]
  /\ assigned' = [assigned EXCEPT ![j] = FALSE]
  /\ UNCHANGED <<workflowType, generationAttempt, artifact, execVars>>

LoseLease(j) == ClaimLeft(j) /\ LeaseExpires(j) /\ UNCHANGED genVars

-----------------------------------------------------------------------------
(* execute, one action per transaction or external call.                   *)

\* Mutant of RestoredAttempt: only the checkpoint is consulted.
AttemptOfCheckpoint(j) == checkpoint[j].attempt

\* Math.max(job.generationAttempt, restored?.generation_attempt ?? 0)
RestoredAttempt(j) == Max({generationAttempt[j], checkpoint[j].attempt})

\* Mutant of Entry: a finished model call is repeated.
EntryRegenerates(phase) ==
  CASE phase \in {"none", "model_started", "model_completed"} -> "open"
    [] phase = "business_committed"                           -> "report"
    [] phase = "done"                                         -> "finish"

\* Mutant of Entry: a stream that broke off is taken for a finished one.
EntryCommitsBroken(phase) ==
  CASE phase = "none"                                -> "open"
    [] phase \in {"model_started", "model_completed"} -> "commit"
    [] phase = "business_committed"                  -> "report"
    [] phase = "done"                                -> "finish"

\* Where execute starts, given the phase of the restored checkpoint.  From
\* "business_committed" the commit is read back (findCommitted, or the ids
\* in the checkpoint) and only the report is left.
Entry(phase) ==
  CASE phase \in {"none", "model_started"} -> "open"
    [] phase = "model_completed"           -> "commit"
    [] phase = "business_committed"        -> "report"
    [] phase = "done"                      -> "finish"

ClaimJob(r, j) ==
  /\ Claim(r, j)
  /\ at' = [at EXCEPT ![r] = Entry(checkpoint[j].phase)]
  /\ restored' = [restored EXCEPT ![r] = checkpoint[j].phase]
  /\ attempt' = [attempt EXCEPT ![r] = RestoredAttempt(j)]
  /\ output' = [output EXCEPT ![r] = checkpoint[j].out]
  /\ UNCHANGED jobVars

\* yield event(kind, ..., checkpoint(phase, n, out)): one transaction appends
\* the event and stores the checkpoint; it refuses a smaller attempt number.
Yield(r, kind, phase, n, out) ==
  LET j == target[r]
  IN  /\ PersistProgress(r, kind, 0)
      /\ n >= generationAttempt[j]
      /\ checkpoint' = [checkpoint EXCEPT ![j] = Checkpoint(phase, n, out)]
      /\ generationAttempt' = [generationAttempt EXCEPT ![j] = n]
      /\ UNCHANGED <<workflowType, assigned, artifact>>

Goto(r, place) == at' = [at EXCEPT ![r] = place]

\* A new attempt: "reset" when it replaces a stream that broke off.
Open(r) ==
  /\ at[r] = "open"
  /\ Yield(r, IF restored[r] = "model_started" THEN "reset" ELSE "meta",
           "model_started", attempt[r] + 1, <<>>)
  /\ attempt' = [attempt EXCEPT ![r] = @ + 1]
  /\ output' = [output EXCEPT ![r] = <<>>]
  /\ Goto(r, "retrieve")
  /\ UNCHANGED restored

\* prepareWorkflowGeneration of a directory or outline: nothing is stored.
RetrieveNothing(r) ==
  /\ at[r] = "retrieve"
  /\ workflowType[target[r]] = "directory"
  /\ Goto(r, "stream")
  /\ UNCHANGED <<vars, jobVars, restored, attempt, output>>

\* retrieveGroundingMaterials: a new retrieval run, then assignEvidence
\* inserts the assignment.  The transaction locks the job row but does not
\* look at the fence.
AssignEvidence(r) ==
  /\ at[r] = "retrieve"
  /\ workflowType[target[r]] = "content"
  /\ ~assigned[target[r]]
  /\ assigned' = [assigned EXCEPT ![target[r]] = TRUE]
  /\ Goto(r, "stream")
  /\ UNCHANGED <<vars, workflowType, checkpoint, generationAttempt, artifact,
                 restored, attempt, output>>

\* A token of the model call, checkpointed without the text so far.
Token(r) ==
  /\ at[r] = "stream"
  /\ Len(output[r]) < MaxTokens
  /\ Yield(r, "token", "model_started", attempt[r], <<>>)
  /\ output' = [output EXCEPT ![r] = Append(@, token[r])]
  /\ UNCHANGED <<at, restored, attempt>>

ModelCompleted(r) ==
  /\ at[r] = "stream"
  /\ Yield(r, "model_completed", "model_completed", attempt[r], output[r])
  /\ Goto(r, "commit")
  /\ UNCHANGED <<restored, attempt, output>>

\* commit, up to findCommitted, which reads outside any transaction.
FindCommitted(r) ==
  /\ at[r] = "commit"
  /\ ~aborted[r]
  /\ Goto(r, IF receipt[target[r]] # 0 THEN "committed" ELSE "verify")
  /\ UNCHANGED <<vars, jobVars, restored, attempt, output>>

\* prepareGrounding lets the draft pass: directory and outline jobs are not
\* verified, a non-strict assignment is at most annotated.
Verify(r) ==
  /\ at[r] = "verify"
  /\ workflowType[target[r]] # "directory" => assigned[target[r]]
  /\ Goto(r, "publish")
  /\ UNCHANGED <<vars, jobVars, restored, attempt, output>>

\* Mutant of PublishDraft: the commit transaction omits assertFence.
PublishDraftUnfenced(r) ==
  /\ at[r] = "publish"
  /\ receipt' = [receipt EXCEPT ![target[r]] = token[r]]
  /\ artifact' = [artifact EXCEPT ![target[r]] = output[r]]
  /\ Goto(r, "committed")
  /\ UNCHANGED <<status, cancelRequested, completedAt, leaseVars, events,
                 runVars, workflowType, checkpoint, generationAttempt,
                 assigned, restored, attempt, output>>

\* The commit transaction inserts the artifact and its receipt.  Its other
\* branch, which returns a receipt found under the row lock, is never
\* reached by a fenced run that did not see the receipt in FindCommitted.
PublishDraft(r) ==
  /\ at[r] = "publish"
  /\ Publish(r)
  /\ artifact' = [artifact EXCEPT ![target[r]] = output[r]]
  /\ Goto(r, "committed")
  /\ UNCHANGED <<workflowType, checkpoint, generationAttempt, assigned,
                 restored, attempt, output>>

BusinessCommitted(r) ==
  /\ at[r] = "committed"
  /\ Yield(r, "business_committed", "business_committed", attempt[r], <<>>)
  /\ Goto(r, "report")
  /\ UNCHANGED <<restored, attempt, output>>

\* Mutant of ReportDone: the done event keeps the older checkpoint.
ReportDoneOnly(r) ==
  /\ at[r] = "report"
  /\ Yield(r, "done", "business_committed", attempt[r], <<>>)
  /\ Goto(r, "finish")
  /\ UNCHANGED <<restored, attempt, output>>

ReportDone(r) ==
  /\ at[r] = "report"
  /\ Yield(r, "done", "done", attempt[r], <<>>)
  /\ Goto(r, "finish")
  /\ UNCHANGED <<restored, attempt, output>>

-----------------------------------------------------------------------------
(* Ends of a run.                                                          *)

\* Mutant of Leave: the place is not left.
LeaveInPlace(r) ==
  /\ restored' = [restored EXCEPT ![r] = "none"]
  /\ attempt' = [attempt EXCEPT ![r] = 0]
  /\ output' = [output EXCEPT ![r] = <<>>]
  /\ UNCHANGED <<jobVars, at>>

Leave(r) ==
  /\ at' = [at EXCEPT ![r] = "idle"]
  /\ restored' = [restored EXCEPT ![r] = "none"]
  /\ attempt' = [attempt EXCEPT ![r] = 0]
  /\ output' = [output EXCEPT ![r] = <<>>]
  /\ UNCHANGED jobVars

CompleteJob(r) == at[r] = "finish" /\ Complete(r) /\ Leave(r)

\* Mutant of MaterialGap: the ledger is saved after the commit transaction.
LedgerAfterCommit(r) ==
  LET t == workflowType[target[r]]
  IN  \/ at[r] = "retrieve" /\ t = "compress"
      \/ at[r] \in {"verify", "committed"} /\ t = "content"

\* MaterialGapError: compress finds nothing to inherit outside atomic:v1;
\* at the commit the assignment is gone, or saveLedger sees that the
\* evidence changed since it was verified, which rolls the commit back.
MaterialGap(r) ==
  LET t == workflowType[target[r]]
  IN  \/ at[r] = "retrieve" /\ t = "compress"
      \/ at[r] = "verify" /\ t = "content" /\ ~assigned[target[r]]
      \/ at[r] = "publish" /\ t = "content" /\ receipt[target[r]] = 0

PauseJob(r) == MaterialGap(r) /\ PauseForGrounding(r) /\ Leave(r)

\* A second assignEvidence for the job: each call has a retrieval_run_id of
\* its own, so the upsert sets the NOT NULL column to NULL and throws.
FailOnReassignment(r) ==
  /\ at[r] = "retrieve"
  /\ workflowType[target[r]] = "content"
  /\ assigned[target[r]]
  /\ Fail(r)
  /\ Leave(r)

\* The model, the parser, a limit or the database fails.
FailOnError(r) == at[r] # "idle" /\ Fail(r) /\ Leave(r)

\* Cancelled, superseded or killed.
AbandonJob(r) ==
  /\ Fenced(r) => ClaimLeft(target[r])
  /\ Abandon(r)
  /\ Leave(r)

Monitor(r) == MonitorPoll(r) /\ UNCHANGED genVars

-----------------------------------------------------------------------------
HandlerStep(j) == CreateJob(j) \/ CancelJob(j) \/ ResumeJob(j) \/ LoseLease(j)

\* What a run that is neither killed nor hit by an error does.
Proceed(r) ==
  \/ Open(r) \/ RetrieveNothing(r) \/ AssignEvidence(r) \/ Token(r)
  \/ ModelCompleted(r) \/ FindCommitted(r) \/ Verify(r) \/ PublishDraft(r)
  \/ BusinessCommitted(r) \/ ReportDone(r) \/ CompleteJob(r) \/ PauseJob(r)
  \/ FailOnReassignment(r)

\* The next-state relation without errors, and with them.
CalmNext ==
  \/ \E j \in Jobs : HandlerStep(j)
  \/ \E r \in Runs, j \in Jobs : ClaimJob(r, j)
  \/ \E r \in Runs : Proceed(r) \/ AbandonJob(r) \/ Monitor(r)

GenNext == CalmNext \/ \E r \in Runs : FailOnError(r)

\* Queue deliveries and the recovery dispatcher keep offering claimable jobs
\* to workers, a lease that no run renews expires, and a run keeps going
\* until it ends: a superseded one at its next fenced write.
Fairness ==
  /\ \A j \in Jobs :
       WF_allVars(LoseLease(j) /\ \A r \in Runs : target[r] = j => ~Fenced(r))
  /\ \A j \in Jobs : WF_allVars(\E r \in Runs : ClaimJob(r, j))
  /\ \A r \in Runs : WF_allVars(Proceed(r) \/ (~Fenced(r) /\ AbandonJob(r)))

GenSpec == GenInit /\ [][GenNext]_allVars /\ Fairness

CalmSpec == GenInit /\ [][CalmNext]_allVars /\ Fairness

-----------------------------------------------------------------------------
(* Properties.                                                             *)

Positions(log, kinds) == {i \in 1..Len(log) : log[i].kind \in kinds}

\* An event of one of these kinds opens an attempt.
Openings == {"meta", "reset"}

\* text is what the attempt opened at o has streamed: o is the last opening
\* of the log, and the tokens behind it follow it without a gap.
IsDraftOf(log, o, text) ==
  /\ o \in Positions(log, Openings)
  /\ \A i \in Positions(log, Openings) : i <= o
  /\ {i \in Positions(log, {"token"}) : i > o} = (o + 1)..(o + Len(text))
  /\ \A n \in 1..Len(text) : text[n] = log[o + n].by

\* Across crashes, lost leases and resumed jobs the published text is the
\* newest attempt of the log, whole and unmixed: no run publishes an
\* output other than the one whose tokens were streamed last, and no other
\* event comes between those tokens.
PublishesLatestDraft ==
  \A j \in Jobs : receipt[j] # 0 =>
    \E o \in 1..Len(events[j]) : IsDraftOf(events[j], o, artifact[j])

\* The user is told "done" at most once, only with a committed artifact,
\* and always before the job counts as succeeded; wherever between the
\* commit, the event and the status write the worker dies.
DoneOnceAndCommitted ==
  \A j \in Jobs :
    LET done == Positions(events[j], {"done"})
    IN  /\ Cardinality(done) <= 1
        /\ done # {} => receipt[j] # 0
        /\ status[j] = "SUCCEEDED" => done # {}

\* The model is not paid for twice: once an output is checkpointed, no new
\* attempt is opened unless the user resumed the job in between.
NoRegeneration ==
  \A j \in Jobs :
    \A i \in Positions(events[j], {"model_completed"}) :
    \A k \in Positions(events[j], Openings) :
      i < k => \E m \in i..k : events[j][m].st = "WAITING_MATERIAL"

\* Attempts are numbered 1, 2, ... over the life of the job, also across a
\* resume that drops the checkpoint: model calls of different attempts never
\* share a trace identity.
AttemptsAreNumbered ==
  \A j \in Jobs :
    generationAttempt[j] = Cardinality(Positions(events[j], Openings))

\* A job that pauses for material has published nothing, so that resuming
\* cannot produce a second artifact.
PausedIsUnpublished ==
  \A j \in Jobs : status[j] = "WAITING_MATERIAL" => receipt[j] = 0

\* Whatever happens, an admitted job ends or waits for its user.
Settled == {"SUCCEEDED", "FAILED", "STOPPED", "WAITING_MATERIAL"}

JobsSettle ==
  \A j \in Jobs : status[j] = "QUEUED" ~> status[j] \in Settled

\* A worker crash alone does not fail a job: the broken stream is replayed
\* under a new attempt (workflow.mysql.spec.ts, "persists a reset attempt
\* before replaying a crashed model stream").
CrashesAreSurvived == \A j \in Jobs : status[j] # "FAILED"

\* The tokens in the log behind its last event of one of the given kinds.
TokensSince(log, kinds) ==
  LET last == Max(Positions(log, kinds) \cup {0})
      toks == SelectSeq(SubSeq(log, last + 1, Len(log)),
                        LAMBDA e : e.kind = "token")
  IN  [n \in 1..Len(toks) |-> toks[n].by]

\* What a client shows that replays the events and clears its text on
\* "reset", as workflow.mysql.spec.ts, useSSE and workflowStore do, is the
\* text of the artifact.
ReplayShowsArtifact ==
  \A j \in Jobs : status[j] = "SUCCEEDED" =>
    TokensSince(events[j], {"reset"}) = artifact[j]
=============================================================================
