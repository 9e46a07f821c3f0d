------------------------------ MODULE Authoring ------------------------------
(***************************************************************************)
(* Deterministic authoring on top of WorkflowStore: an engine run drafts   *)
(* an artifact, seals it as a proposal and waits; the user approves it;    *)
(* a later run commits it.  (DeterministicAuthoringGraph,                  *)
(* AuthoringProposalService, AuthoringCommitService and, for the text of a *)
(* body, AtomicGroundingCoordinator.)                                      *)
(*                                                                         *)
(* A payload is named by the claim whose model call wrote it and, for a    *)
(* body, by the evidence it was rendered from, so two payloads have the    *)
(* same digest exactly when they are equal.  What the verifier says of a   *)
(* draft, and whether the evidence and the headings a sealed candidate was *)
(* rendered from are still the current ones, are choices: both depend on   *)
(* the model and on what users do to files, outlines and styles meanwhile. *)
(* So a targeted revision never takes place: of a draft with unsupported   *)
(* claims the store is asked for more evidence, which it only adds to an   *)
(* assignment that another path (AtomicGeneration) has counted a revision  *)
(* for, and the job pauses.                                                *)
(*                                                                         *)
(* The ten nodes are taken in five groups, because the four before the     *)
(* draft and the three reviews after it write nothing but a checkpoint.    *)
(* The checkpoint's model_calls is left out: a graph makes at most two     *)
(* calls that it lives to record, so the budget of nine is never met.      *)
(***************************************************************************)
EXTENDS WorkflowStore, FiniteSets

VARIABLES
  \* rows
  kind,         \* workflow_type: "body" (content, rewrite, expand),
                \* "compress", "structured" (directory, outline)
  definition,   \* workflow_definition: "enforce" or "shadow"
  checkpoint,   \* workflow_jobs.checkpoint
  assigned,     \* grounding_assignments: the claim that retrieved the
                \* evidence, 0: inherited from the result, -1: no row
  proposals,    \* authoring_proposals of the job, in sequence order
  artifact,     \* the payload in directory_versions, outline_versions, ...
  \* locals of execute
  at,           \* where the run is
  restored,     \* the checkpoint it was claimed with
  completed,    \* completedNodes.length
  draft,        \* artifact
  proposal      \* the sequence number of the proposal it works on, 0: none

authRows == <<kind, definition, checkpoint, assigned, proposals, artifact>>
execVars == <<at, restored, completed, draft, proposal>>
authVars == <<authRows, execVars>>
allVars == <<vars, authVars>>

-----------------------------------------------------------------------------
Kind == {"body", "compress", "structured"}
Evidence == -1..MaxFence

Payload == [by : 0..MaxFence, evidence : Evidence]
NoPayload == [by |-> 0, evidence |-> -1]

\* isBodyWorkflow
IsBody(j) == kind[j] # "structured"

\* DETERMINISTIC_AUTHORING_NODES; "inputs" is permission_input_snapshot to
\* evidence_gate, "reviews" schema_domain_validation to
\* style_consistency_review.
Nodes == <<"inputs", "structured_draft", "reviews", "targeted_revision",
           "seal_proposal">>

\* The nodes before structured_draft
BeforeDraft == 1

Phases == {"none", "executing", "waiting_approval", "shadow_completed",
           "committed"}

\* sealed: the text of sealed_candidate; a candidate knows the digest of its
\* assignment, which is the payload's evidence.
Checkpoint == [phase : Phases, nodes : 0..Len(Nodes), draft : Payload,
               sealed : Payload, proposal : Nat]

NoCheckpoint == [phase |-> "none", nodes |-> 0, draft |-> NoPayload,
                 sealed |-> NoPayload, proposal |-> 0]

\* outcome: atomicOutcome.kind of a body, "plain" for the rest
Draft == [text : Payload, outcome : {"none", "plain", "sealed", "revision"}]
NoDraft == [text |-> NoPayload, outcome |-> "none"]

\* live: expires_at > CURRENT_TIMESTAMP(6)
Proposal == [payload : Payload, st : {"ACTIVE", "APPROVED", "COMMITTED"},
             live : BOOLEAN]

Places == {"idle", "find", "node", "draft", "sealed", "suspend",
           "shadowed", "recover", "commit", "committed", "report", "finish"}

AuthKinds == {"node", "recovered", "sealed", "shadow", "committed", "done"}

ASSUME AuthKindsAssumption == AuthKinds \subseteq Kinds

AuthTypeOK ==
  /\ TypeOK
  /\ kind \in [Jobs -> Kind]
  /\ definition \in [Jobs -> {"enforce", "shadow"}]
  /\ checkpoint \in [Jobs -> Checkpoint]
  /\ assigned \in [Jobs -> Evidence]
  /\ proposals \in [Jobs -> Seq(Proposal)]
  /\ artifact \in [Jobs -> Payload]
  /\ at \in [Runs -> Places]
  /\ restored \in [Runs -> Checkpoint]
  /\ completed \in [Runs -> 0..Len(Nodes)]
  /\ draft \in [Runs -> Draft]
  /\ proposal \in [Runs -> Nat]
  /\ \A r \in Runs : at[r] = "idle" <=> Idle(r)
  /\ \A r \in Runs : proposal[r] # 0 => proposal[r] <= Len(proposals[target[r]])

AuthInit ==
  /\ Init
  /\ kind \in [Jobs -> Kind]
  /\ definition \in [Jobs -> {"enforce", "shadow"}]
  /\ checkpoint = [j \in Jobs |-> NoCheckpoint]
  /\ assigned = [j \in Jobs |-> -1]
  /\ proposals = [j \in Jobs |-> <<>>]
  /\ artifact = [j \in Jobs |-> NoPayload]
  /\ at = [r \in Runs |-> "idle"]
  /\ restored = [r \in Runs |-> NoCheckpoint]
  /\ completed = [r \in Runs |-> 0]
  /\ draft = [r \in Runs |-> NoDraft]
  /\ proposal = [r \in Runs |-> 0]

-----------------------------------------------------------------------------
(* Proposals.                                                              *)

\* The latest proposal of the job whose status is one of st, 0 if none.
Latest(j, st) ==
  LET found == {i \in 1..Len(proposals[j]) : proposals[j][i].st \in st}
  IN  IF found = {} THEN 0 ELSE CHOOSE i \in found : \A k \in found : k <= i

\* Mutant of SelectActive: store overlooks what findActive overlooks.
SelectUnexpired(j) ==
  LET i == Latest(j, {"ACTIVE", "APPROVED"})
  IN  IF i # 0 /\ (proposals[j][i].st = "APPROVED" \/ proposals[j][i].live)
      THEN i ELSE 0

\* selectActive: store does not look at expires_at.
SelectActive(j) == Latest(j, {"ACTIVE", "APPROVED"})

\* Mutant of NextSequence: counts the proposal about to be stored twice.
SequenceTwice(j) == Len(proposals[j]) + 2

\* SELECT COALESCE(MAX(sequence),0) ... FOR UPDATE, plus one
NextSequence(j) == Len(proposals[j]) + 1

\* findActive: an ACTIVE proposal counts only while it has not expired.
FindActive(j) ==
  LET shown == {i \in 1..Len(proposals[j]) :
                  \/ proposals[j][i].st = "APPROVED"
                  \/ proposals[j][i].st = "ACTIVE" /\ proposals[j][i].live}
  IN  IF shown = {} THEN 0 ELSE CHOOSE i \in shown : \A k \in shown : k <= i

\* approve: the latest open proposal, if it has not expired, and the job row
\* in one transaction.  An APPROVED one is returned as it is.
ApproveProposal(j) ==
  LET i == SelectActive(j)
  IN  /\ i # 0
      /\ proposals[j][i].st = "ACTIVE"
      /\ proposals[j][i].live
      /\ proposals' = [proposals EXCEPT ![j][i].st = "APPROVED"]
      /\ Approve(j)
      /\ UNCHANGED <<kind, definition, checkpoint, assigned, artifact, execVars>>

\* PROPOSAL_TTL_MS passes; an approval does not extend it.
ProposalExpires(j) ==
  /\ \E i \in 1..Len(proposals[j]) :
       /\ proposals[j][i].live
       /\ proposals[j][i].st # "COMMITTED"
       /\ proposals' = [proposals EXCEPT ![j][i].live = FALSE]
  /\ UNCHANGED <<vars, kind, definition, checkpoint, assigned, artifact,
                 execVars>>

-----------------------------------------------------------------------------
(* The handlers of WorkflowStore, with what they do to the new columns.    *)

CreateJob(j) == Create(j) /\ UNCHANGED authVars

CancelJob(j) == Cancel(j) /\ UNCHANGED authVars

\* Bound: a lease is lost, a run killed and a job resumed only while a claim
\* is left.
ClaimLeft(j) == fencingToken[j] < MaxFence

LoseLease(j) == ClaimLeft(j) /\ LeaseExpires(j) /\ UNCHANGED authVars

\* resumeMaterial drops the checkpoint and the assignment; proposals stay.
ResumeJob(j) ==
  /\ ClaimLeft(j)
  /\ ResumeMaterial(j)
  /\ checkpoint' = [checkpoint EXCEPT ![j] = NoCheckpoint]
  /\ assigned' = [assigned EXCEPT ![j] = -1]
  /\ UNCHANGED <<kind, definition, proposals, artifact, execVars>>

-----------------------------------------------------------------------------
(* execute, one action per transaction or group of external calls.         *)

Goto(r, place) == at' = [at EXCEPT ![r] = place]

\* Mutant of RestoreDraft: a draft the verifier sent back is restored too.
RestoreAnyDraft(j, c) ==
  [text |-> c.draft, outcome |-> IF IsBody(j) THEN "sealed" ELSE "plain"]

\* restoreArtifact: the empty payload of a draft that needs a revision is
\* not restored, nor is a body without its sealed candidate.
RestoreDraft(j, c) ==
  IF c.draft = NoPayload \/ (IsBody(j) /\ c.sealed = NoPayload)
  THEN NoDraft
  ELSE [text |-> c.draft,
        outcome |-> IF IsBody(j) THEN "sealed" ELSE "plain"]

\* completed_nodes; without a draft, only the nodes before structured_draft.
RestoreNodes(j, c) ==
  IF RestoreDraft(j, c) = NoDraft /\ c.nodes > BeforeDraft
  THEN BeforeDraft ELSE c.nodes

\* claim; execute reads the checkpoint.  A finished shadow run is suspended
\* again at once.
ClaimJob(r, j) ==
  LET c == checkpoint[j]
  IN  /\ Claim(r, j)
      /\ restored' = [restored EXCEPT ![r] = c]
      /\ completed' = [completed EXCEPT ![r] = RestoreNodes(j, c)]
      /\ draft' = [draft EXCEPT ![r] = RestoreDraft(j, c)]
      /\ proposal' = [proposal EXCEPT ![r] = 0]
      /\ Goto(r, CASE definition[j] = "enforce"        -> "find"
                   [] c.phase = "shadow_completed"     -> "shadowed"
                   [] OTHER                            -> "node")
      /\ UNCHANGED authRows

\* yield graphEvent(k, ..., c): one transaction appends the event and stores
\* the checkpoint.
Yield(r, k, c) ==
  /\ PersistProgress(r, k, 0)
  /\ checkpoint' = [checkpoint EXCEPT ![target[r]] = c]

\* executionCheckpoint
ExecutionCheckpoint(n, d) ==
  [phase |-> "executing", nodes |-> n, draft |-> d.text,
   sealed |-> IF d.outcome = "sealed" THEN d.text ELSE NoPayload,
   proposal |-> 0]

\* Mutant of ProposalCheckpoint: the sealed candidate is not carried over.
ProposalCheckpointBare(phase, i, c) ==
  [phase |-> phase, nodes |-> IF c.phase = "none" THEN Len(Nodes) ELSE c.nodes,
   draft |-> NoPayload, sealed |-> NoPayload, proposal |-> i]

\* proposalCheckpoint: the payload is in the proposal now; the sealed
\* candidate of a body is only in the checkpoint.
ProposalCheckpoint(phase, i, c) ==
  [phase |-> phase, nodes |-> IF c.phase = "none" THEN Len(Nodes) ELSE c.nodes,
   draft |-> NoPayload, sealed |-> c.sealed, proposal |-> i]

\* Where an approved proposal is taken: a body is verified again first.
CommitPlace(r) == IF IsBody(target[r]) THEN "recover" ELSE "commit"

\* findActiveProposal and the four ways on from it.  Without an open
\* proposal, one named by the checkpoint is taken to be committed already.
Find(r) ==
  LET j == target[r]
      i == FindActive(j)
      approved == i # 0 /\ proposals[j][i].st = "APPROVED"
      known == IF i = 0 THEN restored[r].proposal ELSE i
  IN  /\ at[r] = "find"
      /\ proposal' = [proposal EXCEPT ![r] = known]
      /\ UNCHANGED <<kind, definition, assigned, proposals, artifact, restored,
                     completed, draft>>
      /\ \/ /\ i # 0 /\ ~approved
            /\ Yield(r, "recovered",
                     ProposalCheckpoint("waiting_approval", i, restored[r]))
            /\ Goto(r, "suspend")
         \/ /\ approved \/ (i = 0 /\ known # 0)
            /\ Goto(r, CommitPlace(r))
            /\ UNCHANGED <<vars, checkpoint>>
         \/ /\ known = 0
            /\ Goto(r, "node")
            /\ UNCHANGED <<vars, checkpoint>>

\* The node is done: its event, its checkpoint, and the draft as it is now.
NodeDone(r, d) ==
  /\ Yield(r, "node", ExecutionCheckpoint(completed[r] + 1, d))
  /\ completed' = [completed EXCEPT ![r] = @ + 1]
  /\ draft' = [draft EXCEPT ![r] = d]
  /\ Goto(r, "node")
  /\ UNCHANGED <<kind, definition, assigned, proposals, artifact, restored,
                 proposal>>

AtNode(r, node) ==
  /\ at[r] = "node"
  /\ completed[r] < Len(Nodes)
  /\ Nodes[completed[r] + 1] = node

\* The nodes that only check what is there; so does targeted_revision when
\* nothing is to be revised.
CheckingNode(r) ==
  /\ \/ AtNode(r, "inputs") \/ AtNode(r, "reviews") \/ AtNode(r, "seal_proposal")
     \/ AtNode(r, "targeted_revision") /\ draft[r].outcome # "revision"
  /\ NodeDone(r, draft[r])

\* generateDraft of a directory or an outline
DraftStructured(r) ==
  /\ AtNode(r, "structured_draft")
  /\ kind[target[r]] = "structured"
  /\ NodeDone(r, [text |-> [by |-> token[r], evidence |-> -1], outcome |-> "plain"])

\* Mutant of MayAssign: whatever is assigned is written over.
MayAssignAgain(j) == TRUE

\* ON DUPLICATE KEY UPDATE: another retrieval sets a column that is NOT NULL
\* to NULL and fails; what is inherited is the same every time.
MayAssign(j) == assigned[j] = -1 \/ kind[j] = "compress"

\* generateDraft of a body first retrieves and assigns evidence, that of a
\* compression assigns the evidence of the result to be compressed.
AssignEvidence(r) ==
  LET j == target[r]
  IN  /\ AtNode(r, "structured_draft")
      /\ IsBody(j)
      /\ MayAssign(j)
      /\ assigned' = [assigned EXCEPT ![j] =
                        IF kind[j] = "compress" THEN 0 ELSE token[r]]
      /\ Goto(r, "draft")
      /\ UNCHANGED <<vars, kind, definition, checkpoint, proposals, artifact,
                     restored, completed, draft, proposal>>

\* AtomicGroundingCoordinator.generate: loadAssignment, the model call and the
\* verifier.  A draft whose claims are all supported is rendered and sealed,
\* one with unsupported claims is sent on without its text.
GenerateBody(r) ==
  LET j == target[r]
  IN  /\ at[r] = "draft"
      /\ assigned[j] # -1
      /\ \/ NodeDone(r, [text |-> [by |-> token[r], evidence |-> assigned[j]],
                          outcome |-> "sealed"])
         \/ NodeDone(r, [text |-> NoPayload, outcome |-> "revision"])

AllNodesDone(r) == at[r] = "node" /\ completed[r] = Len(Nodes)

ShadowCompleted(r) ==
  /\ AllNodesDone(r)
  /\ definition[target[r]] = "shadow"
  /\ Yield(r, "shadow", [ExecutionCheckpoint(completed[r], draft[r]) EXCEPT
                           !.phase = "shadow_completed"])
  /\ Goto(r, "shadowed")
  /\ UNCHANGED <<kind, definition, assigned, proposals, artifact, restored,
                 completed, draft, proposal>>

\* AuthoringProposalService.store, under the worker's fence.  An open
\* proposal with the same payload is returned; with another, store throws.
StoreProposal(r) ==
  LET j == target[r]
      i == SelectActive(j)
  IN  /\ AllNodesDone(r)
      /\ definition[j] = "enforce"
      /\ Fenced(r)
      /\ i # 0 => proposals[j][i].payload = draft[r].text
      /\ IF i # 0
         THEN /\ proposal' = [proposal EXCEPT ![r] = i]
              /\ UNCHANGED proposals
         ELSE /\ proposals' = [proposals EXCEPT ![j] =
                   Append(@, [payload |-> draft[r].text, st |-> "ACTIVE",
                              live |-> TRUE])]
              /\ proposal' = [proposal EXCEPT ![r] = NextSequence(j)]
      /\ Goto(r, "sealed")
      /\ UNCHANGED <<vars, kind, definition, checkpoint, assigned, artifact,
                     restored, completed, draft>>

ProposalSealed(r) ==
  /\ at[r] = "sealed"
  /\ Yield(r, "sealed",
           ProposalCheckpoint("waiting_approval", proposal[r],
                              ExecutionCheckpoint(completed[r], draft[r])))
  /\ Goto(r, "suspend")
  /\ UNCHANGED <<kind, definition, assigned, proposals, artifact, restored,
                 completed, draft, proposal>>

\* commitApproved of the graph, for a body: AtomicGroundingCoordinator.recover
\* rebuilds the sealed candidate from the checkpoint and finds it unchanged.
RecoverCandidate(r) ==
  LET sealed == restored[r].sealed
  IN  /\ at[r] = "recover"
      /\ sealed # NoPayload
      /\ assigned[target[r]] = sealed.evidence
      /\ Goto(r, "commit")
      /\ UNCHANGED <<vars, authRows, restored, completed, draft, proposal>>

\* Mutant of Committable: a proposal once approved stays good.
CommittableForEver(r, p) ==
  /\ p.st = "APPROVED"
  /\ IsBody(target[r]) => /\ p.payload = restored[r].sealed
                          /\ assigned[target[r]] = p.payload.evidence

\* assertApproved, verifyAtomicCandidate, assertAtomicAssignment
Committable(r, p) ==
  /\ p.st = "APPROVED"
  /\ p.live
  /\ IsBody(target[r]) => /\ p.payload = restored[r].sealed
                          /\ assigned[target[r]] = p.payload.evidence

\* Mutant of LeaveReceipt: assertFence is left out of the transaction.
LeaveReceiptUnfenced(r) == PublishUnfenced(r)

\* assertFence, and the row of workflow_domain_commits
LeaveReceipt(r) == Publish(r)

\* Mutant of CloseProposal: the proposal stays APPROVED.
CloseNothing(j, i) == proposals' = proposals

\* UPDATE authoring_proposals SET status='COMMITTED'
CloseProposal(j, i) == proposals' = [proposals EXCEPT ![j][i].st = "COMMITTED"]

\* commitDirectory, commitOutline and commitBody: the approved bytes become
\* the current version.
SaveArtifact(j, payload) == artifact' = [artifact EXCEPT ![j] = payload]

\* findDomainCommit, recoverReceipt: proposal.resource_id is compared only
\* when it is set, and an APPROVED proposal has none.
ReceiptFound(j) == receipt[j] # 0

\* AuthoringCommitService.commitApproved.  A receipt is returned before the
\* fence is looked at; otherwise the fenced run inserts the artifact, closes
\* the proposal and leaves the receipt.
CommitApproved(r) ==
  LET j == target[r]
      i == Latest(j, {"APPROVED", "COMMITTED"})
  IN  /\ at[r] = "commit"
      /\ i # 0
      /\ Goto(r, "committed")
      /\ \/ /\ receipt[j] # 0
            /\ UNCHANGED <<vars, proposals, artifact>>
         \/ /\ ~ReceiptFound(j)
            /\ Committable(r, proposals[j][i])
            /\ LeaveReceipt(r)
            /\ SaveArtifact(j, proposals[j][i].payload)
            /\ CloseProposal(j, i)
      /\ UNCHANGED <<kind, definition, checkpoint, assigned, restored, completed,
                     draft, proposal>>

\* authoring.committed, then done, with the same checkpoint
Report(r) ==
  /\ \/ at[r] = "committed" /\ Goto(r, "report") /\ Yield(r, "committed",
          ProposalCheckpoint("committed", proposal[r], restored[r]))
     \/ at[r] = "report" /\ Goto(r, "finish") /\ Yield(r, "done",
          ProposalCheckpoint("committed", proposal[r], restored[r]))
  /\ UNCHANGED <<kind, definition, assigned, proposals, artifact, restored,
                 completed, draft, proposal>>

-----------------------------------------------------------------------------
(* How a run ends.                                                         *)

Over(r) ==
  /\ Goto(r, "idle")
  /\ restored' = [restored EXCEPT ![r] = NoCheckpoint]
  /\ completed' = [completed EXCEPT ![r] = 0]
  /\ draft' = [draft EXCEPT ![r] = NoDraft]
  /\ proposal' = [proposal EXCEPT ![r] = 0]
  /\ UNCHANGED authRows

\* SHADOW_COMPLETED ends the job as SUCCEEDED.
Settled(r) ==
  /\ Over(r)
  /\ \/ at[r] = "suspend" /\ SuspendForApproval(r)
     \/ at[r] = "shadowed" /\ Complete(r)
     \/ at[r] = "finish" /\ Complete(r)

\* MaterialGapError: a draft that cannot be grounded, evidence that cannot be
\* inherited, a draft with unsupported claims (replaceEvidenceAfterTargeted-
\* Retrieval refuses an assignment that counts no revision), an approved body
\* whose candidate is not in the checkpoint or no longer matches the current
\* evidence and headings.
MaterialGap(r) ==
  /\ \/ at[r] \in {"draft", "recover"}
     \/ AtNode(r, "structured_draft") /\ kind[target[r]] = "compress"
     \/ AtNode(r, "targeted_revision") /\ draft[r].outcome = "revision"
  /\ PauseForGrounding(r)
  /\ Over(r)

\* Any other error of a step fails the job: an invalid draft, evidence
\* assigned twice, a proposal conflict, a commit refused, a model or database
\* error.
RunFails(r) ==
  /\ ~Idle(r)
  /\ Fail(r)
  /\ Over(r)

\* The process dies, or a fence or abort error ends the run; the row is left
\* to the next claim.
RunStops(r) ==
  /\ ~Idle(r)
  /\ ~Fenced(r) \/ ClaimLeft(target[r])
  /\ Abandon(r)
  /\ Over(r)

MonitorStep(r) == MonitorPoll(r) /\ UNCHANGED authVars

GraphStep(r) ==
  \/ Find(r) \/ CheckingNode(r) \/ DraftStructured(r)
  \/ AssignEvidence(r) \/ GenerateBody(r)
  \/ ShadowCompleted(r) \/ StoreProposal(r) \/ ProposalSealed(r)
  \/ RecoverCandidate(r) \/ CommitApproved(r) \/ Report(r) \/ Settled(r)

AuthNext ==
  \/ \E j \in Jobs : \/ CreateJob(j) \/ CancelJob(j) \/ ResumeJob(j)
                     \/ LoseLease(j) \/ ApproveProposal(j) \/ ProposalExpires(j)
  \/ \E r \in Runs : \/ \E j \in Jobs : ClaimJob(r, j)
                     \/ GraphStep(r) \/ MonitorStep(r) \/ MaterialGap(r)
                     \/ RunFails(r) \/ RunStops(r)

AuthSpec == AuthInit /\ [][AuthNext]_allVars

-----------------------------------------------------------------------------
(* Properties.                                                             *)

\* What is published is what the user approved: an artifact exists exactly
\* with one COMMITTED proposal, has its bytes, and a shadow job has neither.
\* (AuthoringCommitService.commitApproved)
PublishedIsApproved ==
  \A j \in Jobs :
    LET done == {i \in 1..Len(proposals[j]) : proposals[j][i].st = "COMMITTED"}
    IN  /\ artifact[j] # NoPayload <=> receipt[j] # 0
        /\ receipt[j] # 0 => Cardinality(done) = 1 /\ definition[j] = "enforce"
        /\ \A i \in done : proposals[j][i].payload = artifact[j]

\* A user is never asked to choose: at most one proposal of a job is open,
\* and it is the newest, however often runs crash, drafts are redone and
\* proposals expire.  (AuthoringProposalService.store)
OneOpenProposal ==
  \A j \in Jobs : \A i \in 1..Len(proposals[j]) :
    proposals[j][i].st \in {"ACTIVE", "APPROVED"} => i = Len(proposals[j])

\* While a job waits for approval, all that the commit will need is in place:
\* the open proposal, the checkpoint that names it and, for a body, the sealed
\* candidate of the same text, rendered from the evidence that is assigned
\* to the job now.  (proposalCheckpoint, assignEvidence)
WaitingIsCommittable ==
  \A j \in Jobs : status[j] = "WAITING_APPROVAL" =>
    LET i == Len(proposals[j])
        c == checkpoint[j]
    IN  /\ i # 0
        /\ proposals[j][i].st = "ACTIVE"
        /\ c.proposal = i
        /\ IsBody(j) => /\ c.sealed = proposals[j][i].payload
                        /\ c.sealed.evidence # -1
                        /\ assigned[j] = c.sealed.evidence

\* The two dead ends of an approval: a proposal that expires before it is
\* committed, and an approved body whose sealed candidate went with the
\* checkpoint that resumeMaterial dropped.
DeadEnd(j) ==
  \E i \in 1..Len(proposals[j]) :
    /\ proposals[j][i].st # "COMMITTED"
    /\ \/ ~proposals[j][i].live
       \/ /\ proposals[j][i].st = "APPROVED"
          /\ IsBody(j)
          /\ checkpoint[j].sealed = NoPayload

\* A dead end is final: neither the proposal nor a redrafted successor is ever
\* published, whatever is resumed, approved or retried; all that is left to
\* the user is to cancel.  (store, approve, commitApproved)
DeadEndPublishesNothing ==
  [][\A j \in Jobs : DeadEnd(j) => artifact'[j] = artifact[j]]_allVars

\* "Approve and save": a job that succeeds has saved the proposal its user
\* approved last.  (WorkflowStatusPanel, AuthoringCommitService)
ApprovedIsSaved ==
  \A j \in Jobs : status[j] = "SUCCEEDED" /\ definition[j] = "enforce" =>
    artifact[j] = proposals[j][Len(proposals[j])].payload
=============================================================================
