--------------------------- MODULE AuthoringProofs ---------------------------
(***************************************************************************)
(* Proofs about Authoring, for any number of jobs, engine runs and claims. *)
(***************************************************************************)
EXTENDS Authoring, WorkflowStoreProofs, FiniteSetTheorems

\* Which workflows write a body is expanded in every proof below.
USE DEF IsBody

-----------------------------------------------------------------------------
(* Authoring implements WorkflowStore.                                     *)

\* The events the graph yields are progress events of the store.
LEMMA YieldStep ==
  ASSUME NEW r \in Runs, NEW k \in AuthKinds, NEW c, Yield(r, k, c)
  PROVE  RunStep(r)
<1>1. PersistProgress(r, k, 0)
  BY DEF Yield
<1> QED BY <1>1, AuthKindsAssumption, PayloadsAssumption DEF RunStep

\* So does a node that is done.
LEMMA NodeDoneStep ==
  ASSUME NEW r \in Runs, NEW d, NodeDone(r, d)
  PROVE  RunStep(r)
<1>1. "node" \in AuthKinds /\ Yield(r, "node", ExecutionCheckpoint(completed[r] + 1, d))
  BY DEF NodeDone, AuthKinds
<1> QED BY <1>1, YieldStep

\* Every step of the graph is a step of the store or leaves its rows alone:
\* the proposals and the assignment have tables of their own.
LEMMA GraphStepRefines ==
  ASSUME NEW r \in Runs, GraphStep(r)
  PROVE  RunStep(r) \/ UNCHANGED vars
<1>1. CASE Find(r)
  <2>1. \/ \E c : Yield(r, "recovered", c)
        \/ UNCHANGED vars
    BY <1>1 DEF Find
  <2>2. "recovered" \in AuthKinds
    BY DEF AuthKinds
  <2> QED BY <2>1, <2>2, YieldStep
<1>2. CASE CheckingNode(r) \/ DraftStructured(r) \/ GenerateBody(r)
  BY <1>2, NodeDoneStep DEF CheckingNode, DraftStructured, GenerateBody
<1>3. CASE AssignEvidence(r) \/ StoreProposal(r) \/ RecoverCandidate(r)
  BY <1>3 DEF AssignEvidence, StoreProposal, RecoverCandidate
<1>4. CASE ShadowCompleted(r) \/ ProposalSealed(r)
  BY <1>4, YieldStep DEF ShadowCompleted, ProposalSealed, AuthKinds
<1>5. CASE CommitApproved(r)
  BY <1>5 DEF CommitApproved, LeaveReceipt, RunStep
<1>6. CASE Report(r)
  BY <1>6, YieldStep DEF Report, AuthKinds
<1>7. CASE Settled(r)
  BY <1>7 DEF Settled, RunStep
<1> QED BY <1>1, <1>2, <1>3, <1>4, <1>5, <1>6, <1>7 DEF GraphStep

\* So is every other step of a behaviour of Authoring.
LEMMA AuthStep ==
  ASSUME AuthNext
  PROVE  Next \/ UNCHANGED vars
<1>1. ASSUME NEW j \in Jobs,
             \/ CreateJob(j) \/ CancelJob(j) \/ ResumeJob(j) \/ LoseLease(j)
             \/ ApproveProposal(j)
      PROVE  Next
  BY <1>1 DEF CreateJob, CancelJob, ResumeJob, LoseLease, ApproveProposal,
              RowStep, Next
<1>2. ASSUME NEW j \in Jobs, ProposalExpires(j)
      PROVE  UNCHANGED vars
  BY <1>2 DEF ProposalExpires
<1>3. ASSUME NEW r \in Runs, NEW j \in Jobs, ClaimJob(r, j)
      PROVE  Next
  BY <1>3 DEF ClaimJob, RunStep, Next
<1>4. ASSUME NEW r \in Runs, MonitorStep(r) \/ MaterialGap(r) \/ RunFails(r) \/ RunStops(r)
      PROVE  Next
  BY <1>4 DEF MonitorStep, MaterialGap, RunFails, RunStops, RunStep, Next
<1> QED BY <1>1, <1>2, <1>3, <1>4, GraphStepRefines DEF AuthNext, Next

\* The graph only does to the workflow rows what WorkflowStore allows any
\* run: the theorems of WorkflowStoreProofs hold of authoring jobs too.
THEOREM AuthoringImplementsStore == AuthSpec => Spec
<1>1. AuthInit => Init
  BY DEF AuthInit
<1>2. [AuthNext]_allVars => [Next]_vars
  BY AuthStep DEF allVars
<1> QED BY <1>1, <1>2, PTL DEF AuthSpec, Spec

\* Through the store, an authoring job follows the job life cycle.
THEOREM AuthoringImplementsLifecycle == AuthSpec => LifecycleSpec
  BY AuthoringImplementsStore, Implementation, PTL

-----------------------------------------------------------------------------
(* Type correctness.  A place and a draft are only well typed together     *)
(* with the node the run has reached, so both are in the invariant.        *)

\* The columns and locals of Authoring.
AuthTypes ==
  /\ kind \in [Jobs -> Kind]
  /\ definition \in [Jobs -> {"enforce", "shadow"}]
  /\ checkpoint \in [Jobs -> Checkpoint]
  /\ assigned \in [Jobs -> Evidence]
  /\ proposals \in [Jobs -> Seq(Proposal)]
  /\ artifact \in [Jobs -> Payload]
  /\ at \in [Runs -> Places]
  /\ restored \in [Runs -> Checkpoint]
  /\ completed \in [Runs -> 0..Len(Nodes)]
  /\ draft \in [Runs -> Draft]
  /\ proposal \in [Runs -> Nat]

\* A place is left exactly when a claim is.
PlacesFitClaims == \A r \in Runs : at[r] = "idle" <=> Idle(r)

\* What a run holds at the node it has reached: from structured_draft on it
\* has a draft, and one that needs a revision only until that node.
DraftFits(r, j) ==
  /\ at[r] = "find" => draft[r].outcome # "revision"
  /\ at[r] = "draft" => IsBody(j) /\ completed[r] = 1
  /\ at[r] = "sealed" => completed[r] = 5
  /\ \/ /\ draft[r].outcome = "none"
        /\ draft[r].text = NoPayload
        /\ completed[r] <= 1
     \/ /\ draft[r].outcome = "revision"
        /\ draft[r].text = NoPayload
        /\ completed[r] <= 3
        /\ IsBody(j)
     \/ /\ draft[r].outcome = (IF IsBody(j) THEN "sealed" ELSE "plain")
        /\ draft[r].text # NoPayload

DraftsFit == \A r \in Runs : ~Idle(r) => DraftFits(r, target[r])

AuthTyped == AuthTypes /\ PlacesFitClaims /\ DraftsFit

\* There are five groups of nodes; a run enters each at its own number.
LEMMA NodeNumbers ==
  /\ Len(Nodes) = 5
  /\ \A n \in 0..4 :
       /\ Nodes[n + 1] = "inputs" <=> n = 0
       /\ Nodes[n + 1] = "structured_draft" <=> n = 1
       /\ Nodes[n + 1] = "reviews" <=> n = 2
       /\ Nodes[n + 1] = "targeted_revision" <=> n = 3
       /\ Nodes[n + 1] = "seal_proposal" <=> n = 4
  BY DEF Nodes

\* Checkpoints are well typed.
LEMMA CheckpointTypes ==
  /\ NoPayload \in Payload
  /\ NoCheckpoint \in Checkpoint
  /\ NoDraft \in Draft
  /\ \A n \in 0..5, d \in Draft : ExecutionCheckpoint(n, d) \in Checkpoint
  /\ \A phase \in Phases, i \in Nat, c \in Checkpoint :
       ProposalCheckpoint(phase, i, c) \in Checkpoint
<1>1. NoPayload \in Payload
  BY MaxFenceAssumption DEF NoPayload, Payload, Evidence
<1>2. NoCheckpoint \in Checkpoint
  BY <1>1, NodeNumbers DEF NoCheckpoint, Checkpoint, Phases
<1>3. ASSUME NEW n \in 0..5, NEW d \in Draft
      PROVE  ExecutionCheckpoint(n, d) \in Checkpoint
  BY <1>1, NodeNumbers DEF ExecutionCheckpoint, Checkpoint, Phases, Draft
<1>4. ASSUME NEW phase \in Phases, NEW i \in Nat, NEW c \in Checkpoint
      PROVE  ProposalCheckpoint(phase, i, c) \in Checkpoint
  BY <1>1, NodeNumbers DEF ProposalCheckpoint, Checkpoint
<1> QED BY <1>1, <1>2, <1>3, <1>4 DEF NoDraft, Draft

\* One proposal of a sequence is replaced.
LEMMA ProposalReplaced ==
  ASSUME NEW s \in Seq(Proposal), NEW i \in 1..Len(s), NEW p \in Proposal
  PROVE  [s EXCEPT ![i] = p] \in Seq(Proposal)
  OBVIOUS

\* A fenced run works on a job.
LEMMA BusyTarget ==
  ASSUME TypeOK, NEW r \in Runs, ~Idle(r)
  PROVE  target[r] \in Jobs /\ token[r] \in 1..MaxFence
  BY MaxFenceAssumption DEF TypeOK, Idle

\* What restoreArtifact restores is a draft for some node.
LEMMA Restored ==
  ASSUME AuthTypes, NEW j \in Jobs, NEW c \in Checkpoint
  PROVE  /\ RestoreDraft(j, c) \in Draft
         /\ RestoreNodes(j, c) \in 0..5
         /\ \/ RestoreDraft(j, c) = NoDraft /\ RestoreNodes(j, c) <= 1
            \/ /\ RestoreDraft(j, c).outcome =
                    (IF IsBody(j) THEN "sealed" ELSE "plain")
               /\ RestoreDraft(j, c).text = c.draft
               /\ c.draft # NoPayload
               /\ IsBody(j) => c.sealed # NoPayload
<1>1. c.draft \in Payload /\ c.nodes \in 0..5
  BY NodeNumbers DEF Checkpoint
<1>2. kind[j] \in Kind
  BY DEF AuthTypes
<1>3. CASE RestoreDraft(j, c) = NoDraft
  <2>1. NoDraft \in Draft
    BY CheckpointTypes
  <2> HIDE DEF NoDraft
  <2>2. RestoreNodes(j, c) = IF c.nodes > 1 THEN 1 ELSE c.nodes
    BY <1>3 DEF RestoreNodes, BeforeDraft
  <2> QED BY <1>1, <1>3, <2>1, <2>2
<1>4. CASE RestoreDraft(j, c) # NoDraft
  <2>1. /\ RestoreDraft(j, c) = [text |-> c.draft,
                outcome |-> IF IsBody(j) THEN "sealed" ELSE "plain"]
        /\ c.draft # NoPayload
        /\ IsBody(j) => c.sealed # NoPayload
    BY <1>4 DEF RestoreDraft
  <2>2. RestoreDraft(j, c) \in Draft
    BY <1>1, <2>1 DEF Draft
  <2>3. RestoreNodes(j, c) = c.nodes
    BY <1>4 DEF RestoreNodes
  <2> QED BY <1>1, <1>2, <2>1, <2>2, <2>3
<1> QED BY <1>3, <1>4

\* Runs that a step leaves alone keep their place and draft.
LEMMA RunFrame ==
  ASSUME TypeOK, PlacesFitClaims, DraftsFit, NEW r \in Runs, kind' = kind,
         \A q \in Runs \ {r} :
           /\ at'[q] = at[q] /\ completed'[q] = completed[q]
           /\ draft'[q] = draft[q]
           /\ token'[q] = token[q] /\ target'[q] = target[q],
         at'[r] = "idle" <=> Idle(r)',
         ~Idle(r)' => DraftFits(r, target[r])'
  PROVE  PlacesFitClaims' /\ DraftsFit'
<1>1. ASSUME NEW q \in Runs
      PROVE  at'[q] = "idle" <=> Idle(q)'
  BY DEF PlacesFitClaims, Idle
<1>2. ASSUME NEW q \in Runs, ~Idle(q)'
      PROVE  DraftFits(q, target[q])'
  <2>1. CASE q = r
    BY <1>2, <2>1
  <2>2. CASE q # r
    <3>1. DraftFits(q, target[q])
      BY <1>2, <2>2 DEF DraftsFit, Idle
    <3> QED BY <2>2, <3>1 DEF DraftFits
  <2> QED BY <2>1, <2>2
<1> QED BY <1>1, <1>2 DEF PlacesFitClaims, DraftsFit

\* A step of r moves r to another place and leaves the rest of its locals.
LEMMA Moved ==
  ASSUME TypeOK, AuthTyped, NEW r \in Runs, ~Idle(r), NEW place \in Places,
         Goto(r, place), UNCHANGED <<kind, completed, draft, token, target>>,
         place \notin {"idle", "find", "draft", "sealed"}
  PROVE  at' \in [Runs -> Places] /\ PlacesFitClaims' /\ DraftsFit'
<1>1. at \in [Runs -> Places]
  BY DEF AuthTyped, AuthTypes
<1>2. at' \in [Runs -> Places] /\ at'[r] = place
  BY <1>1 DEF Goto
<1>3. DraftFits(r, target[r])
  BY DEF AuthTyped, DraftsFit
<1>4. DraftFits(r, target[r])'
  BY <1>2, <1>3 DEF DraftFits
<1>5. \A q \in Runs \ {r} : at'[q] = at[q]
  BY <1>1 DEF Goto
<1> QED BY <1>2, <1>4, <1>5, RunFrame DEF AuthTyped, Idle

\* When a run is over, it is idle.
LEMMA OverTyped ==
  ASSUME TypeOK, AuthTyped, NEW r \in Runs, Over(r), EndRun(r)
  PROVE  AuthTyped'
<1>1. AuthTypes'
  <2>1. 0 \in 0..Len(Nodes) /\ "idle" \in Places
    BY NodeNumbers DEF Places
  <2>2. UNCHANGED <<kind, definition, checkpoint, assigned, proposals, artifact>>
    BY DEF Over, authRows
  <2> QED BY <2>1, <2>2, CheckpointTypes DEF Over, Goto, AuthTyped, AuthTypes
<1>2. at'[r] = "idle" /\ Idle(r)'
  BY DEF Over, Goto, EndRun, Idle, TypeOK, AuthTyped, AuthTypes
<1>3. \A q \in Runs \ {r} :
           /\ at'[q] = at[q] /\ completed'[q] = completed[q]
           /\ draft'[q] = draft[q]
           /\ token'[q] = token[q] /\ target'[q] = target[q]
  BY DEF Over, Goto, EndRun, TypeOK, AuthTyped, AuthTypes
<1>4. kind' = kind
  BY DEF Over, authRows
<1>5. PlacesFitClaims' /\ DraftsFit'
  BY <1>2, <1>3, <1>4, RunFrame DEF AuthTyped
<1> QED BY <1>1, <1>5 DEF AuthTyped

\* A node that is done leaves a draft that fits the next one.
LEMMA NodeDoneTyped ==
  ASSUME TypeOK, AuthTyped, NEW r \in Runs, NEW d \in Draft, NodeDone(r, d),
         completed[r] \in 0..4,
         \/ d.outcome = "none" /\ d.text = NoPayload /\ completed[r] = 0
         \/ /\ d.outcome = "revision" /\ d.text = NoPayload
            /\ completed[r] <= 2 /\ IsBody(target[r])
         \/ /\ d.outcome = (IF IsBody(target[r]) THEN "sealed" ELSE "plain")
            /\ d.text # NoPayload
  PROVE  AuthTyped'
<1>1. /\ ~Idle(r)
      /\ UNCHANGED <<kind, definition, assigned, proposals, artifact, restored, proposal,
                     token, target>>
      /\ checkpoint' = [checkpoint EXCEPT ![target[r]] =
                          ExecutionCheckpoint(completed[r] + 1, d)]
      /\ completed' = [completed EXCEPT ![r] = completed[r] + 1]
      /\ draft' = [draft EXCEPT ![r] = d]
      /\ at' = [at EXCEPT ![r] = "node"]
  BY DEF NodeDone, Yield, PersistProgress, Fenced, runVars, Goto
<1>2. target[r] \in Jobs
  BY <1>1, BusyTarget
<1>3. ExecutionCheckpoint(completed[r] + 1, d) \in Checkpoint
  BY CheckpointTypes
<1>4. completed[r] + 1 \in 0..Len(Nodes) /\ "node" \in Places
  BY NodeNumbers DEF Places
<1>5. AuthTypes'
  BY <1>1, <1>2, <1>3, <1>4 DEF AuthTyped, AuthTypes
<1>6. /\ at'[r] = "node" /\ draft'[r] = d /\ completed'[r] = completed[r] + 1
      /\ \A q \in Runs \ {r} :
           /\ at'[q] = at[q] /\ completed'[q] = completed[q] /\ draft'[q] = draft[q]
  BY <1>1 DEF AuthTyped, AuthTypes
<1>7. DraftFits(r, target[r])'
  BY <1>1, <1>6 DEF DraftFits
<1>8. PlacesFitClaims' /\ DraftsFit'
  BY <1>1, <1>6, <1>7, RunFrame DEF AuthTyped, Idle
<1> QED BY <1>5, <1>8 DEF AuthTyped

\* The nodes keep the types.
LEMMA NodesTyped ==
  ASSUME TypeOK, AuthTyped, NEW r \in Runs,
         CheckingNode(r) \/ DraftStructured(r) \/ GenerateBody(r)
  PROVE  AuthTyped'
<1>t. /\ draft[r] \in Draft /\ completed[r] \in 0..5
      /\ checkpoint \in [Jobs -> Checkpoint]
  BY NodeNumbers DEF AuthTyped, AuthTypes
<1>d. ~Idle(r) /\ DraftFits(r, target[r])
  <2>1. PICK d : NodeDone(r, d)
    BY DEF CheckingNode, DraftStructured, GenerateBody
  <2>2. ~Idle(r)
    BY <2>1 DEF NodeDone, Yield, PersistProgress, Fenced
  <2> QED BY <2>2 DEF AuthTyped, DraftsFit
<1>b. /\ target[r] \in Jobs
      /\ \A e \in Evidence : /\ [by |-> token[r], evidence |-> e] \in Payload
                             /\ [by |-> token[r], evidence |-> e] # NoPayload
  BY <1>d, BusyTarget, MaxFenceAssumption DEF Payload, NoPayload
<1>e. -1 \in Evidence /\ assigned[target[r]] \in Evidence
  BY <1>b, MaxFenceAssumption DEF Evidence, AuthTyped, AuthTypes
<1>1. CASE CheckingNode(r)
  <2>1. NodeDone(r, draft[r]) /\ completed[r] \in 0..4
    BY <1>1, <1>t, NodeNumbers DEF CheckingNode, AtNode
  <2>2. completed[r] = 0 \/ completed[r] >= 2
    BY <1>1, <1>t, NodeNumbers DEF CheckingNode, AtNode
  <2>3. completed[r] = 3 => draft[r].outcome # "revision"
    BY <1>1, <1>t, NodeNumbers DEF CheckingNode, AtNode
  <2> QED BY <1>t, <1>d, <2>1, <2>2, <2>3, NodeDoneTyped DEF DraftFits
<1>2. CASE DraftStructured(r)
  <2>1. PICK d : d = [text |-> [by |-> token[r], evidence |-> -1], outcome |-> "plain"]
    OBVIOUS
  <2>2. NodeDone(r, d) /\ kind[target[r]] = "structured" /\ completed[r] \in 0..4
    BY <1>2, <1>t, <2>1, NodeNumbers DEF DraftStructured, AtNode
  <2>3. d \in Draft /\ d.outcome = "plain" /\ d.text # NoPayload
    BY <1>b, <1>e, <2>1 DEF Draft
  <2> QED BY <2>2, <2>3, NodeDoneTyped
<1>3. CASE GenerateBody(r)
  <2>0. completed[r] = 1 /\ IsBody(target[r])
    BY <1>3, <1>d DEF GenerateBody, DraftFits
  <2>1. PICK d : d = [text |-> [by |-> token[r], evidence |-> assigned[target[r]]],
                      outcome |-> "sealed"]
    OBVIOUS
  <2>2. PICK e : e = [text |-> NoPayload, outcome |-> "revision"]
    OBVIOUS
  <2>3. /\ d \in Draft /\ d.outcome = "sealed" /\ d.text # NoPayload
        /\ e \in Draft /\ e.outcome = "revision" /\ e.text = NoPayload
    BY <1>b, <1>e, <2>1, <2>2, CheckpointTypes DEF Draft
  <2>4. NodeDone(r, d) \/ NodeDone(r, e)
    BY <1>3, <2>1, <2>2 DEF GenerateBody
  <2> QED BY <2>0, <2>3, <2>4, NodeDoneTyped
<1> QED BY <1>1, <1>2, <1>3

-----------------------------------------------------------------------------
(* The proposal a query returns.  As only the newest proposal can be open, *)
(* it is the newest or none.                                               *)

\* ORDER BY sequence DESC LIMIT 1, of proposals among which only n can be.
LEMMA NewestOf ==
  ASSUME NEW n \in Nat, NEW found \in SUBSET (1..n), found \subseteq {n},
         NEW i, i = IF found = {} THEN 0 ELSE CHOOSE k \in found : \A m \in found : m <= k
  PROVE  /\ i = 0 => found = {}
         /\ i # 0 => i = n /\ n \in found
<1>1. CASE found = {}
  BY <1>1
<1>2. CASE found # {}
  <2>1. found = {n}
    BY <1>2
  <2> QED BY <2>1
<1> QED BY <1>1, <1>2

\* Proposals are well typed.
LEMMA ProposalTypes ==
  ASSUME AuthTypes, NEW j \in Jobs
  PROVE  /\ proposals[j] \in Seq(Proposal)
         /\ Len(proposals[j]) \in Nat
         /\ \A k \in 1..Len(proposals[j]) :
              /\ proposals[j][k] \in Proposal
              /\ proposals[j][k].payload \in Payload
              /\ proposals[j][k].st \in {"ACTIVE", "APPROVED", "COMMITTED"}
              /\ proposals[j][k].live \in BOOLEAN
<1>1. proposals[j] \in Seq(Proposal)
  BY DEF AuthTypes
<1>2. PICK s : s = proposals[j]
  OBVIOUS
<1>3. Len(s) \in Nat /\ \A k \in 1..Len(s) : s[k] \in Proposal
  BY <1>1, <1>2
<1> QED BY <1>1, <1>2, <1>3 DEF Proposal

\* findActive
LEMMA FindActiveIs ==
  ASSUME AuthTypes, OneOpenProposal, NEW j \in Jobs
  PROVE  LET n == Len(proposals[j])
             i == FindActive(j)
         IN  /\ i = 0 => \A k \in 1..n : /\ proposals[j][k].st # "APPROVED"
                                         /\ ~(proposals[j][k].st = "ACTIVE" /\ proposals[j][k].live)
             /\ i # 0 => /\ i = n
                         /\ n \in 1..n
                         /\ \/ proposals[j][n].st = "APPROVED"
                            \/ proposals[j][n].st = "ACTIVE" /\ proposals[j][n].live
<1>1. PICK n : n = Len(proposals[j]) /\ n \in Nat
  BY ProposalTypes
<1>2. PICK found : found = {i \in 1..Len(proposals[j]) :
                  \/ proposals[j][i].st = "APPROVED"
                  \/ proposals[j][i].st = "ACTIVE" /\ proposals[j][i].live}
  OBVIOUS
<1>3. found \in SUBSET (1..n) /\ found \subseteq {n}
  BY <1>1, <1>2 DEF OneOpenProposal
<1>4. FindActive(j) = IF found = {} THEN 0 ELSE CHOOSE k \in found : \A m \in found : m <= k
  BY <1>2 DEF FindActive
<1>5. /\ FindActive(j) = 0 => found = {}
      /\ FindActive(j) # 0 => FindActive(j) = n /\ n \in found
  BY <1>1, <1>3, <1>4, NewestOf
<1> QED BY <1>1, <1>2, <1>5

\* selectActive
LEMMA SelectActiveIs ==
  ASSUME AuthTypes, OneOpenProposal, NEW j \in Jobs
  PROVE  LET n == Len(proposals[j])
             i == SelectActive(j)
         IN  /\ i = 0 => \A k \in 1..n : proposals[j][k].st = "COMMITTED"
             /\ i # 0 => /\ i = n
                         /\ n \in 1..n
                         /\ proposals[j][n].st \in {"ACTIVE", "APPROVED"}
<1>1. PICK n : n = Len(proposals[j]) /\ n \in Nat
  BY ProposalTypes
<1>2. PICK found : found =
        {i \in 1..Len(proposals[j]) : proposals[j][i].st \in {"ACTIVE", "APPROVED"}}
  OBVIOUS
<1>3. found \in SUBSET (1..n) /\ found \subseteq {n}
  BY <1>1, <1>2 DEF OneOpenProposal
<1>4. SelectActive(j) = IF found = {} THEN 0 ELSE CHOOSE k \in found : \A m \in found : m <= k
  BY <1>2 DEF SelectActive, Latest
<1>5. /\ SelectActive(j) = 0 => found = {}
      /\ SelectActive(j) # 0 => SelectActive(j) = n /\ n \in found
  BY <1>1, <1>3, <1>4, NewestOf
<1>6. \A k \in 1..n : proposals[j][k].st \in {"ACTIVE", "APPROVED", "COMMITTED"}
  BY <1>1, ProposalTypes
<1> QED BY <1>1, <1>2, <1>5, <1>6

Replaces(j, i, p) == proposals' = [proposals EXCEPT ![j][i] = p]
SetsStatus(j, i, s) == proposals' = [proposals EXCEPT ![j][i].st = s]
LetsExpire(j, i) == proposals' = [proposals EXCEPT ![j][i].live = FALSE]

\* A proposal is replaced by another, or none is if i is not one of them.
LEMMA ProposalSet ==
  ASSUME AuthTypes, NEW j \in Jobs, NEW i, NEW p,
         i \in 1..Len(proposals[j]) => p \in Proposal,
         Replaces(j, i, p)
  PROVE  /\ proposals' \in [Jobs -> Seq(Proposal)]
         /\ \A q \in Jobs : Len(proposals'[q]) = Len(proposals[q])
         /\ \A q \in Jobs : \A k \in 1..Len(proposals[q]) :
              proposals'[q][k] = IF q = j /\ k = i THEN p ELSE proposals[q][k]
<1>1. PICK old : old = proposals[j] /\ old \in Seq(Proposal)
  BY DEF AuthTypes
<1>2. PICK new : new = [old EXCEPT ![i] = p]
  OBVIOUS
<1>3. new \in Seq(Proposal) /\ Len(new) = Len(old)
      /\ \A k \in 1..Len(old) : new[k] = IF k = i THEN p ELSE old[k]
  <2>1. CASE i \in 1..Len(old)
    BY <1>1, <1>2, <2>1, ProposalReplaced
  <2>2. CASE i \notin 1..Len(old)
    <3>1. new = old
      BY <1>1, <1>2, <2>2
    <3> QED BY <1>1, <2>2, <3>1
  <2> QED BY <2>1, <2>2
<1>4. proposals' = [proposals EXCEPT ![j] = new]
  BY <1>1, <1>2 DEF Replaces
<1> QED BY <1>1, <1>3, <1>4 DEF AuthTypes

\* UPDATE authoring_proposals SET status = s
LEMMA StatusSet ==
  ASSUME AuthTypes, NEW j \in Jobs, NEW i, NEW s \in {"APPROVED", "COMMITTED"},
         SetsStatus(j, i, s)
  PROVE  /\ proposals' \in [Jobs -> Seq(Proposal)]
         /\ \A q \in Jobs : Len(proposals'[q]) = Len(proposals[q])
         /\ \A q \in Jobs : \A k \in 1..Len(proposals[q]) :
              /\ proposals'[q][k].payload = proposals[q][k].payload
              /\ proposals'[q][k].live = proposals[q][k].live
              /\ proposals'[q][k].st = IF q = j /\ k = i THEN s ELSE proposals[q][k].st
<1>1. PICK p : p = [proposals[j][i] EXCEPT !.st = s]
  OBVIOUS
<1>2. Replaces(j, i, p)
  BY <1>1 DEF Replaces, SetsStatus, LetsExpire
<1>3. i \in 1..Len(proposals[j]) =>
        /\ p \in Proposal /\ p.st = s
        /\ p.payload = proposals[j][i].payload /\ p.live = proposals[j][i].live
  BY <1>1, ProposalTypes DEF Proposal
<1>4. /\ proposals' \in [Jobs -> Seq(Proposal)]
      /\ \A q \in Jobs : Len(proposals'[q]) = Len(proposals[q])
      /\ \A q \in Jobs : \A k \in 1..Len(proposals[q]) :
           proposals'[q][k] = IF q = j /\ k = i THEN p ELSE proposals[q][k]
  BY <1>2, <1>3, ProposalSet
<1> QED BY <1>3, <1>4

\* expires_at of a proposal passes.
LEMMA LiveSet ==
  ASSUME AuthTypes, NEW j \in Jobs, NEW i, LetsExpire(j, i)
  PROVE  /\ proposals' \in [Jobs -> Seq(Proposal)]
         /\ \A q \in Jobs : Len(proposals'[q]) = Len(proposals[q])
         /\ \A q \in Jobs : \A k \in 1..Len(proposals[q]) :
              /\ proposals'[q][k].payload = proposals[q][k].payload
              /\ proposals'[q][k].st = proposals[q][k].st
              /\ proposals'[q][k].live => proposals[q][k].live
<1>1. PICK p : p = [proposals[j][i] EXCEPT !.live = FALSE]
  OBVIOUS
<1>2. Replaces(j, i, p)
  BY <1>1 DEF Replaces, SetsStatus, LetsExpire
<1>3. i \in 1..Len(proposals[j]) =>
        /\ p \in Proposal /\ p.live = FALSE
        /\ p.payload = proposals[j][i].payload /\ p.st = proposals[j][i].st
  BY <1>1, ProposalTypes DEF Proposal
<1>4. /\ proposals' \in [Jobs -> Seq(Proposal)]
      /\ \A q \in Jobs : Len(proposals'[q]) = Len(proposals[q])
      /\ \A q \in Jobs : \A k \in 1..Len(proposals[q]) :
           proposals'[q][k] = IF q = j /\ k = i THEN p ELSE proposals[q][k]
  BY <1>2, <1>3, ProposalSet
<1> QED BY <1>3, <1>4

\* INSERT INTO authoring_proposals
LEMMA ProposalAdded ==
  ASSUME AuthTypes, NEW j \in Jobs, NEW p \in Proposal,
         proposals' = [proposals EXCEPT ![j] = Append(@, p)]
  PROVE  /\ proposals' \in [Jobs -> Seq(Proposal)]
         /\ Len(proposals'[j]) = Len(proposals[j]) + 1
         /\ proposals'[j][Len(proposals[j]) + 1] = p
         /\ \A k \in 1..Len(proposals[j]) : proposals'[j][k] = proposals[j][k]
         /\ \A q \in Jobs \ {j} : proposals'[q] = proposals[q]
<1>1. PICK old : old = proposals[j] /\ old \in Seq(Proposal)
  BY ProposalTypes
<1>2. PICK new : new = Append(old, p)
  OBVIOUS
<1>3. /\ new \in Seq(Proposal) /\ Len(new) = Len(old) + 1
      /\ new[Len(old) + 1] = p /\ \A k \in 1..Len(old) : new[k] = old[k]
  BY <1>1, <1>2
<1>4. proposals' = [proposals EXCEPT ![j] = new]
  BY <1>1, <1>2
<1> QED BY <1>1, <1>3, <1>4 DEF AuthTypes

-----------------------------------------------------------------------------
\* The handlers and a claim keep the types.
LEMMA HandlersTyped ==
  ASSUME TypeOK, AuthTyped, NEW j \in Jobs,
         \/ CreateJob(j) \/ CancelJob(j) \/ ResumeJob(j) \/ LoseLease(j)
         \/ ApproveProposal(j) \/ ProposalExpires(j)
  PROVE  AuthTyped'
<1>1. /\ UNCHANGED <<kind, definition, artifact, execVars, token, target>>
      /\ checkpoint' = checkpoint \/ checkpoint' = [checkpoint EXCEPT ![j] = NoCheckpoint]
      /\ assigned' = assigned \/ assigned' = [assigned EXCEPT ![j] = -1]
      /\ \/ proposals' = proposals
         \/ \E i : SetsStatus(j, i, "APPROVED") \/ LetsExpire(j, i)
  BY DEF CreateJob, CancelJob, ResumeJob, LoseLease, ApproveProposal,
         ProposalExpires, Create, Cancel, ResumeMaterial, LeaseExpires, Approve,
         authVars, authRows, runVars, vars, SetsStatus, LetsExpire
<1>2. proposals' \in [Jobs -> Seq(Proposal)]
  BY <1>1, StatusSet, LiveSet DEF AuthTyped, AuthTypes
<1>3. checkpoint' \in [Jobs -> Checkpoint] /\ assigned' \in [Jobs -> Evidence]
  <2>1. NoCheckpoint \in Checkpoint /\ -1 \in Evidence
    BY CheckpointTypes, MaxFenceAssumption DEF Evidence
  <2> HIDE DEF NoCheckpoint
  <2> QED BY <1>1, <2>1 DEF AuthTyped, AuthTypes
<1>4. AuthTypes'
  BY <1>1, <1>2, <1>3 DEF AuthTyped, AuthTypes, execVars
<1> QED BY <1>1, <1>4
        DEF AuthTyped, PlacesFitClaims, DraftsFit, DraftFits, Idle, execVars

\* A claim restores a draft that fits.
LEMMA ClaimTyped ==
  ASSUME TypeOK, AuthTyped, NEW r \in Runs, NEW j \in Jobs, ClaimJob(r, j)
  PROVE  AuthTyped'
<1>1. PICK c : c = checkpoint[j] /\ c \in Checkpoint
  BY DEF AuthTyped, AuthTypes
<1>2. PICK d, n :
        /\ d = RestoreDraft(j, c) /\ n = RestoreNodes(j, c)
        /\ d \in Draft /\ n \in 0..5
        /\ \/ d = NoDraft /\ n <= 1
           \/ /\ d.outcome = (IF IsBody(j) THEN "sealed" ELSE "plain")
              /\ d.text # NoPayload
  BY <1>1, Restored DEF AuthTyped
<1>3. PICK place \in {"find", "shadowed", "node"} : at' = [at EXCEPT ![r] = place]
  <2>1. PICK place : place = CASE definition[j] = "enforce"        -> "find"
                   [] c.phase = "shadow_completed"     -> "shadowed"
                   [] OTHER                            -> "node"
    OBVIOUS
  <2>2. place \in {"find", "shadowed", "node"}
    BY <2>1
  <2>3. at' = [at EXCEPT ![r] = place]
    BY <1>1, <2>1 DEF ClaimJob, Goto
  <2> QED BY <2>2, <2>3
<1>4. /\ restored' = [restored EXCEPT ![r] = c]
      /\ completed' = [completed EXCEPT ![r] = n]
      /\ draft' = [draft EXCEPT ![r] = d]
      /\ proposal' = [proposal EXCEPT ![r] = 0]
      /\ UNCHANGED <<kind, definition, checkpoint, assigned, proposals, artifact>>
  BY <1>1, <1>2 DEF ClaimJob, authRows
<1>5. AuthTypes'
  BY <1>1, <1>2, <1>3, <1>4, NodeNumbers DEF AuthTyped, AuthTypes, Places
<1>6. /\ at'[r] = place /\ completed'[r] = n /\ draft'[r] = d
      /\ token'[r] # 0 /\ target'[r] = j
      /\ \A q \in Runs \ {r} :
           /\ at'[q] = at[q] /\ completed'[q] = completed[q] /\ draft'[q] = draft[q]
           /\ token'[q] = token[q] /\ target'[q] = target[q]
  BY <1>3, <1>4, MaxFenceAssumption DEF ClaimJob, Claim, TypeOK, AuthTyped, AuthTypes
<1>7. DraftFits(r, j)'
  BY <1>2, <1>3, <1>4, <1>6 DEF DraftFits, NoDraft
<1>8. PlacesFitClaims' /\ DraftsFit'
  BY <1>3, <1>4, <1>6, <1>7, RunFrame DEF AuthTyped, Idle
<1> QED BY <1>5, <1>8 DEF AuthTyped

\* The transaction behind a yield stores a well-typed checkpoint.
LEMMA YieldTyped ==
  ASSUME TypeOK, AuthTypes, NEW r \in Runs, NEW k, NEW c \in Checkpoint, Yield(r, k, c)
  PROVE  /\ ~Idle(r) /\ target[r] \in Jobs
         /\ token' = token /\ target' = target
         /\ checkpoint' \in [Jobs -> Checkpoint]
         /\ checkpoint' = [checkpoint EXCEPT ![target[r]] = c]
<1>1. /\ ~Idle(r) /\ token' = token /\ target' = target
      /\ checkpoint' = [checkpoint EXCEPT ![target[r]] = c]
  BY DEF Yield, PersistProgress, Fenced, runVars
<1> QED BY <1>1, BusyTarget DEF AuthTypes

\* Find either waits for the newest proposal, commits, or starts on the
\* nodes.
LEMMA FindTyped ==
  ASSUME TypeOK, AuthTyped, OneOpenProposal, NEW r \in Runs, Find(r)
  PROVE  AuthTyped'
<1>p. at[r] = "find" /\ ~Idle(r) /\ target[r] \in Jobs
  <2>1. at[r] = "find"
    BY DEF Find
  <2> QED BY <2>1, BusyTarget DEF AuthTyped, PlacesFitClaims
<1>i. PICK i : i = FindActive(target[r])
  OBVIOUS
<1>r. restored[r] \in Checkpoint /\ restored[r].proposal \in Nat
  BY DEF AuthTyped, AuthTypes, Checkpoint
<1>n. i \in Nat
  <2>1. Len(proposals[target[r]]) \in Nat
    BY <1>p, ProposalTypes DEF AuthTyped
  <2> QED BY <1>i, <1>p, <2>1, FindActiveIs DEF AuthTyped
<1>1. /\ UNCHANGED <<kind, definition, assigned, proposals, artifact, restored,
                     completed, draft>>
      /\ \E k \in Nat : proposal' = [proposal EXCEPT ![r] = k]
  <2>1. PICK k : /\ k = IF i = 0 THEN restored[r].proposal ELSE i
                 /\ proposal' = [proposal EXCEPT ![r] = k]
    BY <1>i DEF Find
  <2>2. k \in Nat
    BY <1>n, <1>r, <2>1
  <2> QED BY <2>1, <2>2 DEF Find
<1>2. /\ token' = token /\ target' = target
      /\ checkpoint' \in [Jobs -> Checkpoint]
      /\ \E place \in Places \ {"idle", "find", "draft", "sealed"} : Goto(r, place)
  <2>1. PICK c : c = ProposalCheckpoint("waiting_approval", i, restored[r])
    OBVIOUS
  <2>2. c \in Checkpoint
    BY <1>n, <1>r, <2>1, CheckpointTypes DEF Phases
  <2>3. CASE Yield(r, "recovered", c) /\ Goto(r, "suspend")
    BY <2>2, <2>3, YieldTyped DEF AuthTyped, Places
  <2>4. CASE UNCHANGED <<vars, checkpoint>> /\ (Goto(r, CommitPlace(r)) \/ Goto(r, "node"))
    BY <2>4 DEF AuthTyped, AuthTypes, Places, vars, runVars, CommitPlace
  <2> QED BY <1>i, <2>1, <2>3, <2>4 DEF Find
<1>3. at' \in [Runs -> Places] /\ PlacesFitClaims' /\ DraftsFit'
  BY <1>p, <1>1, <1>2, Moved
<1> QED BY <1>1, <1>2, <1>3 DEF AuthTyped, AuthTypes

\* Assigning evidence leads to the model call, at the node that asks for it.
LEMMA AssignTyped ==
  ASSUME TypeOK, AuthTyped, NEW r \in Runs, AssignEvidence(r)
  PROVE  AuthTyped'
<1>1. PICK n \in 0..MaxFence :
        /\ at[r] = "node"
        /\ at' = [at EXCEPT ![r] = "draft"]
        /\ assigned' = [assigned EXCEPT ![target[r]] = n]
        /\ UNCHANGED <<kind, definition, checkpoint, proposals, artifact, restored,
                       completed, draft, proposal, token, target>>
        /\ IsBody(target[r]) /\ completed[r] = 1
  <2>1. completed[r] \in 0..5
    BY NodeNumbers DEF AuthTyped, AuthTypes
  <2>2. completed[r] = 1
    BY <2>1, NodeNumbers DEF AssignEvidence, AtNode
  <2>3. 0 \in 0..MaxFence /\ token[r] \in 0..MaxFence
    BY MaxFenceAssumption DEF TypeOK
  <2> QED BY <2>2, <2>3 DEF AssignEvidence, AtNode, Goto, vars, runVars
<1>2. ~Idle(r) /\ target[r] \in Jobs
  BY <1>1, BusyTarget DEF AuthTyped, PlacesFitClaims
<1>3. AuthTypes'
  <2>1. assigned' \in [Jobs -> Evidence]
    <3>1. n \in Evidence
      BY DEF Evidence
    <3> QED BY <1>1, <3>1 DEF AuthTyped, AuthTypes
  <2>2. at' \in [Runs -> Places]
    BY <1>1 DEF AuthTyped, AuthTypes, Places
  <2> QED BY <1>1, <2>1, <2>2 DEF AuthTyped, AuthTypes
<1>4. /\ at'[r] = "draft"
      /\ \A q \in Runs \ {r} : at'[q] = at[q]
  BY <1>1 DEF AuthTyped, AuthTypes
<1>5. DraftFits(r, target[r])'
  BY <1>1, <1>2, <1>4 DEF AuthTyped, DraftsFit, DraftFits
<1>6. PlacesFitClaims' /\ DraftsFit'
  BY <1>1, <1>2, <1>4, <1>5, RunFrame DEF AuthTyped, Idle
<1> QED BY <1>3, <1>6 DEF AuthTyped

\* store keeps a well-typed proposal.
LEMMA StoreTyped ==
  ASSUME TypeOK, AuthTyped, OneOpenProposal, NEW r \in Runs, StoreProposal(r)
  PROVE  AuthTyped'
<1>1. /\ ~Idle(r) /\ completed[r] = 5
      /\ Goto(r, "sealed")
      /\ UNCHANGED <<kind, definition, checkpoint, assigned, artifact, restored,
                     completed, draft, token, target>>
  BY NodeNumbers DEF StoreProposal, AllNodesDone, Fenced, vars, runVars
<1>2. target[r] \in Jobs
  BY <1>1, BusyTarget
<1>3. PICK n : n = Len(proposals[target[r]]) /\ n \in Nat
  BY <1>2, ProposalTypes DEF AuthTyped
<1>4. PICK i : i = SelectActive(target[r])
  OBVIOUS
<1>5. i \in Nat
  BY <1>2, <1>3, <1>4, SelectActiveIs DEF AuthTyped
<1>6. proposals' \in [Jobs -> Seq(Proposal)] /\ proposal' \in [Runs -> Nat]
  <2>1. PICK p : p = [payload |-> draft[r].text, st |-> "ACTIVE", live |-> TRUE]
    OBVIOUS
  <2>2. p \in Proposal
    <3>1. draft[r] \in Draft
      BY DEF AuthTyped, AuthTypes
    <3> QED BY <2>1, <3>1 DEF Draft, Proposal
  <2>3. CASE i # 0
    BY <1>4, <1>5, <2>3 DEF StoreProposal, AuthTyped, AuthTypes
  <2>4. CASE i = 0
    <3>1. /\ proposals' = [proposals EXCEPT ![target[r]] = Append(@, p)]
          /\ proposal' = [proposal EXCEPT ![r] = n + 1]
      BY <1>3, <1>4, <2>1, <2>4 DEF StoreProposal, NextSequence
    <3>2. proposals' \in [Jobs -> Seq(Proposal)]
      BY <1>2, <2>2, <3>1, ProposalAdded DEF AuthTyped
    <3> QED BY <1>3, <3>1, <3>2 DEF AuthTyped, AuthTypes
  <2> QED BY <2>3, <2>4
<1>7. at' \in [Runs -> Places] /\ at'[r] = "sealed" /\ \A q \in Runs \ {r} : at'[q] = at[q]
  BY <1>1 DEF AuthTyped, AuthTypes, Goto, Places
<1>8. AuthTypes'
  BY <1>1, <1>6, <1>7 DEF AuthTyped, AuthTypes
<1>9. DraftFits(r, target[r])'
  BY <1>1, <1>7 DEF AuthTyped, DraftsFit, DraftFits
<1>10. PlacesFitClaims' /\ DraftsFit'
  BY <1>1, <1>7, <1>9, RunFrame DEF AuthTyped, Idle
<1> QED BY <1>8, <1>10 DEF AuthTyped

\* A proposal is only COMMITTED together with its receipt.
CommittedHasReceipt ==
  \A j \in Jobs : receipt[j] = 0 =>
    \A i \in 1..Len(proposals[j]) : proposals[j][i].st # "COMMITTED"

\* Without a receipt, the proposal the commit looks up is the open one.
LEMMA LatestApprovedIs ==
  ASSUME AuthTypes, OneOpenProposal, CommittedHasReceipt, NEW j \in Jobs, receipt[j] = 0
  PROVE  LET n == Len(proposals[j])
             i == Latest(j, {"APPROVED", "COMMITTED"})
         IN  i # 0 => i = n /\ n \in 1..n /\ proposals[j][n].st = "APPROVED"
<1>1. PICK n : n = Len(proposals[j]) /\ n \in Nat
  BY ProposalTypes
<1>2. PICK found : found =
        {i \in 1..Len(proposals[j]) : proposals[j][i].st \in {"APPROVED", "COMMITTED"}}
  OBVIOUS
<1>3. found \in SUBSET (1..n) /\ found \subseteq {n}
  BY <1>1, <1>2 DEF OneOpenProposal, CommittedHasReceipt
<1>4. Latest(j, {"APPROVED", "COMMITTED"})
        = IF found = {} THEN 0 ELSE CHOOSE k \in found : \A m \in found : m <= k
  BY <1>2 DEF Latest
<1>5. PICK i : i = Latest(j, {"APPROVED", "COMMITTED"})
  OBVIOUS
<1>6. i # 0 => i = n /\ n \in found
  BY <1>1, <1>3, <1>4, <1>5, NewestOf
<1> QED BY <1>1, <1>2, <1>5, <1>6 DEF CommittedHasReceipt

\* The reports and the commit store well-typed checkpoints and payloads.
LEMMA LastStepsTyped ==
  ASSUME TypeOK, AuthTyped, OneOpenProposal, CommittedHasReceipt, NEW r \in Runs,
         \/ ShadowCompleted(r) \/ ProposalSealed(r) \/ Report(r)
         \/ RecoverCandidate(r) \/ CommitApproved(r)
  PROVE  AuthTyped'
<1>t. /\ draft[r] \in Draft /\ completed[r] \in 0..5 /\ proposal[r] \in Nat
      /\ restored[r] \in Checkpoint
  BY NodeNumbers DEF AuthTyped, AuthTypes
<1>e. PICK e : e = ExecutionCheckpoint(completed[r], draft[r]) /\ e \in Checkpoint
  BY <1>t, CheckpointTypes
<1> DEFINE Rest == UNCHANGED <<kind, definition, assigned, restored, completed, draft, proposal>>
<1>y. ASSUME NEW k, NEW c \in Checkpoint, Yield(r, k, c), Rest,
             UNCHANGED <<proposals, artifact>>,
             NEW place \in {"shadowed", "suspend", "report", "finish"}, Goto(r, place)
      PROVE  AuthTyped'
  <2>1. /\ ~Idle(r) /\ token' = token /\ target' = target
        /\ checkpoint' \in [Jobs -> Checkpoint]
    BY <1>y, YieldTyped DEF AuthTyped
  <2>2. at' \in [Runs -> Places] /\ PlacesFitClaims' /\ DraftsFit'
    BY <1>y, <2>1, Moved DEF Places
  <2> QED BY <1>y, <2>1, <2>2 DEF AuthTyped, AuthTypes
<1>1. CASE ShadowCompleted(r)
  <2>1. PICK c : c = [e EXCEPT !.phase = "shadow_completed"]
    OBVIOUS
  <2>2. c \in Checkpoint
    BY <1>e, <2>1 DEF Checkpoint, Phases
  <2>3. Yield(r, "shadow", c) /\ Rest /\ UNCHANGED <<proposals, artifact>> /\ Goto(r, "shadowed")
    BY <1>1, <1>e, <2>1 DEF ShadowCompleted
  <2> QED BY <1>y, <2>2, <2>3
<1>2. CASE ProposalSealed(r)
  <2>1. PICK c : c = ProposalCheckpoint("waiting_approval", proposal[r], e) /\ c \in Checkpoint
    BY <1>t, <1>e, CheckpointTypes DEF Phases
  <2>2. Yield(r, "sealed", c) /\ Rest /\ UNCHANGED <<proposals, artifact>> /\ Goto(r, "suspend")
    BY <1>2, <1>e, <2>1 DEF ProposalSealed
  <2> QED BY <1>y, <2>1, <2>2
<1>3. CASE Report(r)
  <2>1. PICK c : c = ProposalCheckpoint("committed", proposal[r], restored[r]) /\ c \in Checkpoint
    BY <1>t, CheckpointTypes DEF Phases
  <2>2. /\ \/ Yield(r, "committed", c) /\ Goto(r, "report")
           \/ Yield(r, "done", c) /\ Goto(r, "finish")
        /\ Rest /\ UNCHANGED <<proposals, artifact>>
    BY <1>3, <2>1 DEF Report
  <2> QED BY <1>y, <2>1, <2>2
<1>4. CASE RecoverCandidate(r)
  <2>1. /\ at[r] = "recover" /\ Goto(r, "commit") /\ Rest
        /\ UNCHANGED <<checkpoint, proposals, artifact, token, target>>
    BY <1>4 DEF RecoverCandidate, vars, runVars, authRows
  <2>2. ~Idle(r)
    BY <2>1 DEF AuthTyped, PlacesFitClaims
  <2>3. at' \in [Runs -> Places] /\ PlacesFitClaims' /\ DraftsFit'
    BY <2>1, <2>2, Moved DEF Places
  <2> QED BY <2>1, <2>3 DEF AuthTyped, AuthTypes
<1>5. CASE CommitApproved(r)
  <2>1. /\ at[r] = "commit" /\ Goto(r, "committed") /\ Rest
        /\ UNCHANGED <<checkpoint, token, target>>
    BY <1>5 DEF CommitApproved, LeaveReceipt, Publish, vars, runVars
  <2>2. ~Idle(r) /\ target[r] \in Jobs
    BY <2>1, BusyTarget DEF AuthTyped, PlacesFitClaims
  <2>3. at' \in [Runs -> Places] /\ PlacesFitClaims' /\ DraftsFit'
    BY <2>1, <2>2, Moved DEF Places
  <2>4. proposals' \in [Jobs -> Seq(Proposal)]
    <3>1. \/ proposals' = proposals
          \/ \E i : SetsStatus(target[r], i, "COMMITTED")
      BY <1>5 DEF CommitApproved, CloseProposal, SetsStatus
    <3> QED BY <2>2, <3>1, StatusSet DEF AuthTyped, AuthTypes
  <2>5. artifact' \in [Jobs -> Payload]
    <3>1. PICK i : i = Latest(target[r], {"APPROVED", "COMMITTED"})
      OBVIOUS
    <3>2. \/ artifact' = artifact
          \/ /\ artifact' = [artifact EXCEPT ![target[r]] = proposals[target[r]][i].payload]
             /\ i # 0 /\ receipt[target[r]] = 0
      BY <1>5, <3>1 DEF CommitApproved, SaveArtifact, ReceiptFound
    <3>3. receipt[target[r]] = 0 /\ i # 0 => i \in 1..Len(proposals[target[r]])
      BY <2>2, <3>1, LatestApprovedIs DEF AuthTyped
    <3>4. receipt[target[r]] = 0 /\ i # 0 => proposals[target[r]][i].payload \in Payload
      BY <2>2, <3>3, ProposalTypes DEF AuthTyped
    <3> QED BY <2>2, <3>2, <3>4 DEF AuthTyped, AuthTypes
  <2> QED BY <2>1, <2>3, <2>4, <2>5 DEF AuthTyped, AuthTypes
<1> QED BY <1>1, <1>2, <1>3, <1>4, <1>5

\* How a run ends keeps the types.
LEMMA EndsTyped ==
  ASSUME TypeOK, AuthTyped, NEW r \in Runs,
         Settled(r) \/ MaterialGap(r) \/ RunFails(r) \/ RunStops(r)
  PROVE  AuthTyped'
<1>1. Over(r) /\ EndRun(r)
  BY DEF Settled, MaterialGap, RunFails, RunStops, SuspendForApproval, Complete,
         PauseForGrounding, Fail, SettleStatus, SettleWithNotice, Settle, Abandon
<1> QED BY <1>1, OverTyped

\* Every step keeps the types.
LEMMA StepTyped ==
  ASSUME TypeOK, AuthTyped, OneOpenProposal, CommittedHasReceipt, [AuthNext]_allVars
  PROVE  AuthTyped'
<1>1. ASSUME UNCHANGED allVars
      PROVE  AuthTyped'
  BY <1>1 DEF allVars, authVars, authRows, execVars, vars, runVars, AuthTyped,
              AuthTypes, PlacesFitClaims, DraftsFit, DraftFits, Idle
<1>2. ASSUME NEW r \in Runs, GraphStep(r)
      PROVE  AuthTyped'
  BY <1>2, FindTyped, NodesTyped, AssignTyped, StoreTyped, LastStepsTyped, EndsTyped
  DEF GraphStep
<1>3. ASSUME NEW r \in Runs, MonitorStep(r)
      PROVE  AuthTyped'
  BY <1>3 DEF MonitorStep, MonitorPoll, authVars, authRows, execVars, AuthTyped,
              AuthTypes, PlacesFitClaims, DraftsFit, DraftFits, Idle
<1>4. ASSUME NEW r \in Runs, MaterialGap(r) \/ RunFails(r) \/ RunStops(r)
      PROVE  AuthTyped'
  BY <1>4, EndsTyped
<1>5. ASSUME NEW r \in Runs, NEW j \in Jobs, ClaimJob(r, j)
      PROVE  AuthTyped'
  BY <1>5, ClaimTyped
<1>6. ASSUME NEW j \in Jobs, CreateJob(j) \/ CancelJob(j) \/ ResumeJob(j) \/ LoseLease(j)
                             \/ ApproveProposal(j) \/ ProposalExpires(j)
      PROVE  AuthTyped'
  BY <1>6, HandlersTyped
<1> QED BY <1>1, <1>2, <1>3, <1>4, <1>5, <1>6 DEF AuthNext

-----------------------------------------------------------------------------
(* The inductive invariant.  What a job that waits for approval can commit *)
(* hangs on a chain: the proposal was stored from a draft, the draft is in *)
(* the checkpoint of the only run that could write one, and its evidence   *)
(* is still the assigned one.  Evidence is assigned outside the fence, so  *)
(* the chain has to bind runs that have lost their lease as well; only a   *)
(* compression may be assigned its evidence again, as it is always the     *)
(* same.                                                                   *)

HasApproved(j) ==
  \E i \in 1..Len(proposals[j]) : proposals[j][i].st = "APPROVED"

\* No proposal can be approved, or be found by findActive as unapproved.
NothingOnOffer(j) ==
  \A i \in 1..Len(proposals[j]) : ~(proposals[j][i].st = "ACTIVE" /\ proposals[j][i].live)

\* Every proposal has a text, and only enforced jobs have any.
ProposalsAreDrafts(j) ==
  \A i \in 1..Len(proposals[j]) :
    proposals[j][i].payload # NoPayload /\ definition[j] = "enforce"

\* The receipt, the artifact and the one COMMITTED proposal go together.
Published(j) ==
  /\ artifact[j] # NoPayload <=> receipt[j] # 0
  /\ receipt[j] = 0 => \A i \in 1..Len(proposals[j]) : proposals[j][i].st # "COMMITTED"
  /\ receipt[j] # 0 => \E i \in 1..Len(proposals[j]) :
       /\ \A k \in 1..Len(proposals[j]) : proposals[j][k].st = "COMMITTED" <=> k = i
       /\ proposals[j][i].payload = artifact[j]

\* The newest proposal can be committed with what the checkpoint holds.
ReadyToCommit(j) ==
  LET i == Len(proposals[j])
  IN  /\ i # 0
      /\ proposals[j][i].st = "ACTIVE"
      /\ checkpoint[j].proposal = i
      /\ IsBody(j) => checkpoint[j].sealed = proposals[j][i].payload

\* A body's checkpoint: its sealed candidate is the draft, was rendered from
\* the assigned evidence, and is the text of a proposal on offer.
CandidateKept(j) ==
  LET c == checkpoint[j]
  IN  /\ c.draft # NoPayload => c.sealed = c.draft
      /\ c.sealed # NoPayload => assigned[j] = c.sealed.evidence /\ assigned[j] # -1
      /\ \A i \in 1..Len(proposals[j]) :
           proposals[j][i].st = "ACTIVE" /\ proposals[j][i].live =>
             c.sealed = proposals[j][i].payload
      /\ assigned[j] = -1 => c.proposal = 0
      /\ kind[j] = "body" /\ ~HasApproved(j) /\ status[j] = "WAITING_MATERIAL" =>
           assigned[j] # -1
      /\ kind[j] = "compress" => assigned[j] \in {-1, 0}

JobInv(j) ==
  /\ \A i \in 1..Len(proposals[j]) :
       proposals[j][i].st \in {"ACTIVE", "APPROVED"} => i = Len(proposals[j])
  /\ ProposalsAreDrafts(j)
  /\ Published(j)
  /\ IsBody(j) => CandidateKept(j)
  /\ status[j] = "WAITING_MATERIAL" => NothingOnOffer(j)
  /\ status[j] = "WAITING_APPROVAL" => ReadyToCommit(j)
  /\ checkpoint[j].proposal <= Len(proposals[j])

\* The run has assigned evidence that no sealed candidate stands for yet.
HasAssigned(r) ==
  \/ at[r] = "draft"
  \/ at[r] = "node" /\ draft[r].outcome = "revision"

\* Until a proposal is approved, at most one run has assigned the evidence it
\* retrieved, fenced or not, and nothing is proposed or waits for material
\* meanwhile.
AssignInv(j) ==
  kind[j] = "body" => \A r \in Runs : target[r] = j /\ HasAssigned(r) =>
    /\ checkpoint[j].sealed = NoPayload
    /\ ~HasApproved(j) =>
         /\ assigned[j] # -1
         /\ checkpoint[j].proposal = 0
         /\ status[j] # "WAITING_MATERIAL"
         /\ \A q \in Runs : target[q] = j /\ HasAssigned(q) => q = r

\* The proposals a run knows by number exist.
NumbersExist(r, j) ==
  /\ proposal[r] <= Len(proposals[j])
  /\ restored[r].proposal <= Len(proposals[j])

\* What a run knows of its job while it is fenced.
FencedInv(r, j) ==
  LET c == checkpoint[j]
      n == Len(proposals[j])
  IN  /\ at[r] \in {"find", "recover", "commit", "committed"} => c = restored[r]
      /\ at[r] \in {"commit", "committed", "report"} /\ IsBody(j) =>
           c.sealed # NoPayload /\ c.sealed = restored[r].sealed
      /\ at[r] \in {"node", "draft"} => ~HasApproved(j) /\ NothingOnOffer(j)
      /\ at[r] = "recover" => NothingOnOffer(j) /\ (HasApproved(j) \/ c.proposal # 0)
      /\ at[r] \in {"find", "node", "draft", "sealed"}
           /\ draft[r].outcome = "sealed" => c.sealed = draft[r].text
      /\ at[r] = "sealed" =>
           /\ proposal[r] = n /\ n # 0
           /\ proposals[j][n].st = "ACTIVE"
           /\ proposals[j][n].payload = draft[r].text
      /\ at[r] = "suspend" => ReadyToCommit(j)

AuthInv ==
  /\ \A j \in Jobs : JobInv(j) /\ AssignInv(j)
  /\ \A r \in Runs : ~Idle(r) => NumbersExist(r, target[r])
  /\ \A r \in Runs : Fenced(r) => FencedInv(r, target[r])
  /\ \A r \in Runs : Idle(r) => proposal[r] = 0

\* What a step starts from, and what is known of the state it leads to.
Known ==
  /\ TypeOK /\ TypeOK' /\ TokensIdentifyRuns
  /\ AuthTyped /\ AuthTyped' /\ AuthInv
  /\ kind' = kind /\ definition' = definition

-----------------------------------------------------------------------------
(* Jobs and runs that a step does not concern.                             *)

JobKept(j) ==
  /\ status'[j] = status[j] /\ receipt'[j] = receipt[j]
  /\ checkpoint'[j] = checkpoint[j] /\ assigned'[j] = assigned[j]
  /\ proposals'[j] = proposals[j] /\ artifact'[j] = artifact[j]

RunKept(r) ==
  /\ at'[r] = at[r] /\ restored'[r] = restored[r] /\ completed'[r] = completed[r]
  /\ draft'[r] = draft[r] /\ proposal'[r] = proposal[r]
  /\ target'[r] = target[r] /\ token'[r] = token[r]

\* A job that is kept stays sound.
LEMMA JobFrame ==
  ASSUME NEW j \in Jobs, kind' = kind, definition' = definition,
         JobKept(j), JobInv(j)
  PROVE  JobInv(j)'
  BY DEF JobInv, JobKept, ProposalsAreDrafts, Published, CandidateKept,
         NothingOnOffer, ReadyToCommit, HasApproved

\* The evidence of a job that is kept is as it was, if no other run came.
LEMMA AssignFrame ==
  ASSUME NEW j \in Jobs, kind' = kind, JobKept(j), AssignInv(j),
         \A q \in Runs : target'[q] = j => RunKept(q)
  PROVE  AssignInv(j)'
  BY DEF AssignInv, JobKept, RunKept, HasAssigned, HasApproved

\* A run that is kept knows what it knew of a checkpoint and proposals that
\* are kept.
LEMMA FencedFrame ==
  ASSUME NEW r \in Runs, NEW j \in Jobs, kind' = kind, RunKept(r),
         checkpoint'[j] = checkpoint[j], proposals'[j] = proposals[j],
         FencedInv(r, j)
  PROVE  FencedInv(r, j)'
  BY DEF FencedInv, RunKept, HasApproved, NothingOnOffer, ReadyToCommit

\* A step about job j and, if it is a step of a run, by run r.
LEMMA Frame ==
  ASSUME Known, NEW r, NEW j \in Jobs,
         \A q \in Jobs \ {j} : JobKept(q),
         \A q \in Runs \ {r} : RunKept(q) /\ (Fenced(q)' => Fenced(q)),
         r \in Runs => target'[r] \in {j, NoJob},
         Len(proposals[j]) <= Len(proposals'[j]),
         JobInv(j)', AssignInv(j)',
         r \in Runs /\ ~Idle(r)' => NumbersExist(r, j)',
         r \in Runs /\ Idle(r)' => proposal'[r] = 0,
         r \in Runs /\ Fenced(r)' => FencedInv(r, j)',
         \A q \in Runs \ {r} : Fenced(q)' /\ target[q] = j => FencedInv(q, j)'
  PROVE  AuthInv'
<1> USE DEF Known
<1>n. NoJob \notin Jobs
  BY NoJobAssumption
<1>b. \A q \in Runs : ~Idle(q)' => target'[q] \in Jobs
  BY DEF TypeOK, Idle
<1>1. ASSUME NEW q \in Jobs
      PROVE  JobInv(q)' /\ AssignInv(q)'
  <2>1. CASE q = j
    BY <2>1
  <2>2. CASE q # j
    <3>1. JobKept(q) /\ JobInv(q) /\ AssignInv(q)
      BY <2>2 DEF AuthInv
    <3>2. \A s \in Runs : target'[s] = q => RunKept(s)
      BY <1>n, <2>2
    <3> QED BY <3>1, <3>2, JobFrame, AssignFrame
  <2> QED BY <2>1, <2>2
<1>2. ASSUME NEW q \in Runs, ~Idle(q)'
      PROVE  NumbersExist(q, target[q])'
  <2>1. CASE q = r
    BY <1>b, <1>n, <1>2, <2>1
  <2>2. CASE q # r
    <3>1. /\ ~Idle(q) /\ RunKept(q) /\ target[q] \in Jobs
      BY <1>b, <1>2, <2>2 DEF RunKept, Idle
    <3>2. PICK i : i = target[q] /\ i \in Jobs
      BY <3>1
    <3>3. NumbersExist(q, i) /\ Len(proposals[i]) \in Nat /\ Len(proposals'[i]) \in Nat
          /\ proposal[q] \in Nat /\ restored[q].proposal \in Nat
      <4>1. Len(proposals[i]) \in Nat /\ Len(proposals'[i]) \in Nat
        BY <3>2 DEF AuthTyped, AuthTypes
      <4>2. proposal[q] \in Nat /\ restored[q].proposal \in Nat
        BY DEF AuthTyped, AuthTypes, Checkpoint
      <4> QED BY <3>1, <3>2, <4>1, <4>2 DEF AuthInv
    <3>4. Len(proposals[i]) <= Len(proposals'[i])
      <4>1. CASE i = j
        BY <4>1
      <4>2. CASE i # j
        <5>1. proposals'[i] = proposals[i]
          BY <3>2, <4>2 DEF JobKept
        <5> QED BY <3>3, <5>1
      <4> QED BY <4>1, <4>2
    <3>5. target'[q] = i
      BY <3>1, <3>2 DEF RunKept
    <3> QED BY <3>1, <3>3, <3>4, <3>5 DEF NumbersExist, RunKept
  <2> QED BY <2>1, <2>2
<1>3. ASSUME NEW q \in Runs, Fenced(q)'
      PROVE  FencedInv(q, target[q])'
  <2>0. ~Idle(q)' /\ target'[q] \in Jobs
    BY <1>3, <1>b DEF Fenced
  <2>1. CASE q = r
    BY <1>n, <1>3, <2>0, <2>1
  <2>2. CASE q # r
    <3>1. /\ Fenced(q) /\ RunKept(q) /\ target'[q] = target[q]
      BY <1>3, <2>2 DEF RunKept
    <3>2. CASE target[q] = j
      BY <1>3, <2>2, <3>1, <3>2
    <3>3. CASE target[q] # j
      <4>1. JobKept(target[q]) /\ FencedInv(q, target[q])
        BY <2>0, <3>1, <3>3 DEF AuthInv
      <4>2. FencedInv(q, target[q])'
        <5>1. PICK i : i = target[q] /\ i \in Jobs
          BY <2>0, <3>1
        <5>2. FencedInv(q, i)'
          BY <3>1, <4>1, <5>1, FencedFrame DEF JobKept
        <5> QED BY <3>1, <5>1, <5>2
      <4> QED BY <4>2
    <3> QED BY <3>2, <3>3
  <2> QED BY <2>1, <2>2
<1>4. ASSUME NEW q \in Runs, Idle(q)'
      PROVE  proposal'[q] = 0
  BY <1>4 DEF AuthInv, RunKept, Idle
<1> QED BY <1>1, <1>2, <1>3, <1>4 DEF AuthInv

\* A step that is not a step of a run.
LEMMA HandlerFrame ==
  ASSUME Known, NEW j \in Jobs,
         \A q \in Jobs \ {j} : JobKept(q),
         \A q \in Runs : RunKept(q) /\ (Fenced(q)' => Fenced(q)),
         Len(proposals[j]) <= Len(proposals'[j]),
         JobInv(j)', AssignInv(j)',
         \A q \in Runs : Fenced(q)' /\ target[q] = j => FencedInv(q, j)'
  PROVE  AuthInv'
<1>1. PICK r : r \notin Runs
  BY NoSetContainsEverything
<1> QED BY <1>1, Frame

-----------------------------------------------------------------------------
(* The invariant is kept by every kind of step.                            *)

\* What is known of the job a step is about.
LEMMA JobFacts ==
  ASSUME Known, NEW j \in Jobs
  PROVE  /\ JobInv(j) /\ AssignInv(j)
         /\ proposals[j] \in Seq(Proposal)
         /\ Len(proposals[j]) \in Nat
         /\ checkpoint[j] \in Checkpoint
         /\ checkpoint[j].proposal \in Nat
         /\ assigned[j] \in Evidence
         /\ kind[j] \in Kind
<1>1. checkpoint[j] \in Checkpoint /\ kind[j] \in Kind
  BY DEF Known, AuthTyped, AuthTypes
<1>2. proposals[j] \in Seq(Proposal) /\ Len(proposals[j]) \in Nat
  BY ProposalTypes DEF Known, AuthTyped
<1>3. assigned[j] \in Evidence
  BY DEF Known, AuthTyped, AuthTypes
<1> QED BY <1>1, <1>2, <1>3 DEF Known, AuthInv, Checkpoint

\* Handlers that touch nothing but the workflow row.
LEMMA RowOnlyKeeps ==
  ASSUME Known, NEW j \in Jobs, CreateJob(j) \/ CancelJob(j) \/ LoseLease(j)
  PROVE  AuthInv'
<1> USE DEF Known
<1>1. /\ RowStep(j) /\ UNCHANGED <<authVars, runVars, receipt>>
      /\ \/ status' = status
         \/ \E s \in {"QUEUED", "STOPPED"} : status' = [status EXCEPT ![j] = s]
  BY DEF CreateJob, CancelJob, LoseLease, Create, Cancel, LeaseExpires, RowStep
<1>2. \A q \in Jobs \ {j} : JobKept(q)
  BY <1>1 DEF JobKept, authVars, authRows, TypeOK
<1>3. \A q \in Runs : RunKept(q)
  BY <1>1 DEF RunKept, authVars, execVars, runVars
<1>4. \A q \in Runs : Fenced(q)' => Fenced(q) /\ target[q] # j
  BY <1>1, RowFence
<1>5. JobInv(j) /\ AssignInv(j) /\ Len(proposals[j]) \in Nat
  BY JobFacts
<1>6. /\ status'[j] \in {status[j], "QUEUED", "STOPPED"}
      /\ UNCHANGED <<receipt, checkpoint, assigned, proposals, artifact>>
  BY <1>1 DEF TypeOK, authVars, authRows
<1>7. JobInv(j)'
  BY <1>5, <1>6 DEF JobInv, ProposalsAreDrafts, Published, CandidateKept,
                    NothingOnOffer, ReadyToCommit, HasApproved
<1>8. AssignInv(j)'
  BY <1>3, <1>5, <1>6 DEF AssignInv, RunKept, HasAssigned, HasApproved
<1>9. Len(proposals[j]) <= Len(proposals'[j])
  BY <1>5, <1>6
<1> QED BY <1>2, <1>3, <1>4, <1>7, <1>8, <1>9, HandlerFrame

\* resumeMaterial only meets jobs whose evidence no run holds any more, or
\* whose approved proposal is stranded.
LEMMA ResumeKeeps ==
  ASSUME Known, NEW j \in Jobs, ResumeJob(j)
  PROVE  AuthInv'
<1> USE DEF Known
<1>1. /\ RowStep(j) /\ status[j] = "WAITING_MATERIAL" /\ status'[j] = "QUEUED"
      /\ UNCHANGED <<kind, definition, proposals, artifact, execVars, receipt, runVars>>
      /\ checkpoint'[j] = NoCheckpoint /\ assigned'[j] = -1
      /\ \A q \in Jobs \ {j} : /\ status'[q] = status[q]
                               /\ checkpoint'[q] = checkpoint[q]
                               /\ assigned'[q] = assigned[q]
  BY DEF ResumeJob, ResumeMaterial, RowStep, TypeOK, AuthTyped, AuthTypes
<1>2. \A q \in Jobs \ {j} : JobKept(q)
  BY <1>1 DEF JobKept
<1>3. \A q \in Runs : RunKept(q)
  BY <1>1 DEF RunKept, execVars, runVars
<1>4. \A q \in Runs : Fenced(q)' => Fenced(q) /\ target[q] # j
  BY <1>1, RowFence
<1>5. JobInv(j) /\ AssignInv(j) /\ Len(proposals[j]) \in Nat
  BY JobFacts
<1>6. PICK c : c = NoCheckpoint
  OBVIOUS
<1>7. /\ checkpoint'[j] = c
      /\ c.draft = NoPayload /\ c.sealed = NoPayload /\ c.proposal = 0
  BY <1>1, <1>6 DEF NoCheckpoint
<1>8. JobInv(j)'
  BY <1>1, <1>5, <1>6, <1>7
  DEF JobInv, ProposalsAreDrafts, Published, CandidateKept, NothingOnOffer
<1>9. AssignInv(j)'
  BY <1>1, <1>3, <1>5, <1>6, <1>7 DEF AssignInv, RunKept, HasAssigned, HasApproved
<1>10. Len(proposals[j]) <= Len(proposals'[j])
  BY <1>1, <1>5
<1> QED BY <1>2, <1>3, <1>4, <1>8, <1>9, <1>10, HandlerFrame

\* approve takes the proposal from offer; the rest of the job stays as it is.
LEMMA ApproveKeeps ==
  ASSUME Known, NEW j \in Jobs, ApproveProposal(j)
  PROVE  AuthInv'
<1> USE DEF Known
<1>1. PICK n : n = Len(proposals[j]) /\ n \in Nat
  BY JobFacts
<1>2. /\ RowStep(j) /\ status'[j] = "QUEUED"
      /\ UNCHANGED <<kind, definition, checkpoint, assigned, artifact, execVars, receipt,
                     runVars>>
      /\ SelectActive(j) # 0 /\ SetsStatus(j, SelectActive(j), "APPROVED")
      /\ \A q \in Jobs \ {j} : status'[q] = status[q]
  BY DEF ApproveProposal, Approve, RowStep, TypeOK, SetsStatus
<1>3. /\ n \in 1..n /\ SelectActive(j) = n
      /\ proposals[j][n].st \in {"ACTIVE", "APPROVED"}
  BY <1>1, <1>2, SelectActiveIs DEF AuthTyped, AuthInv, JobInv, OneOpenProposal
<1>4. /\ Len(proposals'[j]) = n
      /\ \A k \in 1..n :
           /\ proposals'[j][k].payload = proposals[j][k].payload
           /\ proposals'[j][k].live = proposals[j][k].live
           /\ proposals'[j][k].st = IF k = n THEN "APPROVED" ELSE proposals[j][k].st
  BY <1>1, <1>2, <1>3, StatusSet DEF AuthTyped
<1>5. \A q \in Jobs \ {j} : JobKept(q)
  BY <1>2, <1>3 DEF JobKept, SetsStatus, AuthTyped, AuthTypes
<1>6. \A q \in Runs : RunKept(q)
  BY <1>2 DEF RunKept, execVars, runVars
<1>7. \A q \in Runs : Fenced(q)' => Fenced(q) /\ target[q] # j
  BY <1>2, RowFence
<1>8. JobInv(j) /\ AssignInv(j)
  BY JobFacts
<1>9. JobInv(j)'
  <2>1. HasApproved(j)'
    BY <1>3, <1>4 DEF HasApproved
  <2>2. ProposalsAreDrafts(j)' /\ Published(j)'
    <3>1. ProposalsAreDrafts(j) /\ Published(j)
      BY <1>8 DEF JobInv
    <3>2. UNCHANGED <<definition, artifact, receipt>>
      BY <1>2
    <3>3. \A k \in 1..n :
            /\ proposals'[j][k].payload = proposals[j][k].payload
            /\ proposals'[j][k].st = "COMMITTED" <=> proposals[j][k].st = "COMMITTED"
      BY <1>3, <1>4
    <3>4. ProposalsAreDrafts(j)'
      BY <1>1, <1>4, <3>1, <3>2, <3>3 DEF ProposalsAreDrafts
    <3>5. Published(j)'
      <4>1. Len(proposals'[j]) = n /\ Len(proposals[j]) = n
        BY <1>1, <1>4
      <4>2. CASE receipt[j] = 0
        BY <3>1, <3>2, <3>3, <4>1, <4>2 DEF Published
      <4>3. CASE receipt[j] # 0
        <5>1. PICK i \in 1..n :
                /\ \A k \in 1..n : proposals[j][k].st = "COMMITTED" <=> k = i
                /\ proposals[j][i].payload = artifact[j]
          BY <3>1, <4>1, <4>3 DEF Published
        <5>2. /\ \A k \in 1..n : proposals'[j][k].st = "COMMITTED" <=> k = i
              /\ proposals'[j][i].payload = artifact'[j]
          BY <3>2, <3>3, <5>1
        <5> QED BY <3>1, <3>2, <4>1, <4>3, <5>2 DEF Published
      <4> QED BY <4>2, <4>3
    <3> QED BY <3>4, <3>5
  <2>3. IsBody(j) => CandidateKept(j)'
    <3> SUFFICES ASSUME IsBody(j) PROVE CandidateKept(j)'
      OBVIOUS
    <3>1. CandidateKept(j)
      BY <1>8 DEF JobInv
    <3>2. UNCHANGED <<kind, checkpoint, assigned>> /\ status'[j] # "WAITING_MATERIAL"
      BY <1>2
    <3>3. ASSUME NEW k \in 1..n, proposals'[j][k].st = "ACTIVE" /\ proposals'[j][k].live
          PROVE  checkpoint[j].sealed = proposals'[j][k].payload
      BY <1>1, <1>4, <3>1, <3>3 DEF CandidateKept
    <3> QED BY <1>4, <3>1, <3>2, <3>3 DEF CandidateKept
  <2>4. \A k \in 1..n : proposals'[j][k].st \in {"ACTIVE", "APPROVED"} => k = n
    BY <1>1, <1>4, <1>8 DEF JobInv
  <2> QED BY <1>1, <1>2, <1>4, <1>8, <2>2, <2>3, <2>4 DEF JobInv
<1>10. AssignInv(j)'
  <2>1. HasApproved(j)'
    BY <1>3, <1>4 DEF HasApproved
  <2> QED BY <1>2, <1>6, <1>8, <2>1 DEF AssignInv, RunKept, HasAssigned
<1>11. Len(proposals[j]) <= Len(proposals'[j])
  BY <1>1, <1>4
<1> QED BY <1>5, <1>6, <1>7, <1>9, <1>10, <1>11, HandlerFrame

\* The expiry of a proposal takes it from offer, too.
LEMMA ExpiryKeeps ==
  ASSUME Known, NEW j \in Jobs, ProposalExpires(j)
  PROVE  AuthInv'
<1> USE DEF Known
<1>1. PICK n : n = Len(proposals[j]) /\ n \in Nat
  BY JobFacts
<1>2. PICK i \in 1..n : LetsExpire(j, i)
  BY <1>1 DEF ProposalExpires, LetsExpire
<1>3. UNCHANGED <<vars, kind, definition, checkpoint, assigned, artifact, execVars>>
  BY DEF ProposalExpires
<1>4. /\ Len(proposals'[j]) = n
      /\ \A k \in 1..n :
           /\ proposals'[j][k].payload = proposals[j][k].payload
           /\ proposals'[j][k].st = proposals[j][k].st
           /\ proposals'[j][k].live => proposals[j][k].live
  BY <1>1, <1>2, LiveSet DEF AuthTyped
<1>5. \A q \in Jobs \ {j} : JobKept(q)
  BY <1>2, <1>3 DEF JobKept, LetsExpire, AuthTyped, AuthTypes, vars, rowVars
<1>6. \A q \in Runs : RunKept(q) /\ (Fenced(q)' => Fenced(q))
  BY <1>3, QuietFence DEF RunKept, execVars, vars, rowVars, runVars
<1>7. JobInv(j) /\ AssignInv(j)
  BY JobFacts
<1>8. UNCHANGED <<status, receipt, checkpoint, assigned, artifact>>
  BY <1>3 DEF vars, rowVars
<1>9. HasApproved(j)' <=> HasApproved(j)
  BY <1>1, <1>4 DEF HasApproved
<1>10. NothingOnOffer(j) => NothingOnOffer(j)'
  BY <1>1, <1>4 DEF NothingOnOffer
<1>11. ReadyToCommit(j) => ReadyToCommit(j)'
  BY <1>1, <1>3, <1>4, <1>8 DEF ReadyToCommit
<1>12. JobInv(j)'
  <2>1. ProposalsAreDrafts(j)' /\ Published(j)'
    BY <1>1, <1>3, <1>4, <1>7, <1>8 DEF JobInv, ProposalsAreDrafts, Published
  <2>2. IsBody(j) => CandidateKept(j)'
    BY <1>1, <1>4, <1>7, <1>8, <1>9 DEF JobInv, CandidateKept
  <2>3. \A k \in 1..n : proposals'[j][k].st \in {"ACTIVE", "APPROVED"} => k = n
    BY <1>1, <1>4, <1>7 DEF JobInv
  <2> QED BY <1>1, <1>4, <1>7, <1>8, <1>10, <1>11, <2>1, <2>2, <2>3 DEF JobInv
<1>13. AssignInv(j)'
  BY <1>6, <1>7, <1>8, <1>9 DEF AssignInv, RunKept, HasAssigned
<1>14. Len(proposals[j]) <= Len(proposals'[j])
  BY <1>1, <1>4
<1>15. ASSUME NEW q \in Runs, Fenced(q)', target[q] = j
       PROVE  FencedInv(q, j)'
  <2>1. FencedInv(q, j) /\ RunKept(q)
    BY <1>6, <1>15 DEF AuthInv
  <2>2. at[q] = "sealed" => /\ n # 0 /\ n \in 1..n
                            /\ proposals[j][n].st = "ACTIVE"
                            /\ proposals[j][n].payload = draft[q].text
                            /\ proposal[q] = n
    BY <1>1, <2>1 DEF FencedInv
  <2> QED BY <1>1, <1>4, <1>8, <1>9, <1>10, <1>11, <2>1, <2>2 DEF FencedInv, RunKept
<1> QED BY <1>5, <1>6, <1>12, <1>13, <1>14, <1>15, HandlerFrame

\* A claim starts from what the checkpoint holds, and finds the job as any
\* other run left it.
LEMMA ClaimKeeps ==
  ASSUME Known, NEW r \in Runs, NEW j \in Jobs, ClaimJob(r, j)
  PROVE  AuthInv'
<1> USE DEF Known
<1>1. PICK c : c = checkpoint[j] /\ c \in Checkpoint /\ c.proposal \in Nat
  BY JobFacts
<1>2. PICK d :
        /\ d = RestoreDraft(j, c)
        /\ \/ d.outcome = "none" /\ d.text = NoPayload
           \/ /\ d.outcome = (IF IsBody(j) THEN "sealed" ELSE "plain")
              /\ d.text = c.draft /\ c.draft # NoPayload
  BY <1>1, Restored DEF AuthTyped, NoDraft
<1>3. /\ Claim(r, j) /\ at'[r] \in {"find", "shadowed", "node"}
      /\ at'[r] = "node" => definition[j] # "enforce"
  <2>1. PICK place : place = CASE definition[j] = "enforce"        -> "find"
                   [] c.phase = "shadow_completed"     -> "shadowed"
                   [] OTHER                            -> "node"
    OBVIOUS
  <2>2. place \in {"find", "shadowed", "node"} /\ (place = "node" => definition[j] # "enforce")
    BY <2>1
  <2>3. at' = [at EXCEPT ![r] = place] /\ Claim(r, j)
    BY <1>1, <2>1 DEF ClaimJob, Goto
  <2> QED BY <2>2, <2>3 DEF AuthTyped, AuthTypes
<1>4. /\ restored'[r] = c /\ draft'[r] = d /\ proposal'[r] = 0
      /\ target'[r] = j /\ ~Idle(r)'
      /\ \A q \in Runs \ {r} : RunKept(q)
  BY <1>1, <1>2, MaxFenceAssumption
  DEF ClaimJob, Claim, Goto, RunKept, Idle, AuthTyped, AuthTypes, TypeOK
<1>5. /\ UNCHANGED <<kind, definition, checkpoint, assigned, proposals, artifact, receipt>>
      /\ status' = [status EXCEPT ![j] = "RUNNING"]
  BY DEF ClaimJob, Claim, authRows
<1>6. status'[j] = "RUNNING" /\ \A q \in Jobs \ {j} : JobKept(q)
  BY <1>5 DEF JobKept, TypeOK
<1>7. \A q \in Runs \ {r} : Fenced(q)' => Fenced(q) /\ target[q] # j
  BY <1>3, ClaimFence
<1>8. JobInv(j) /\ AssignInv(j) /\ Len(proposals[j]) \in Nat
  BY JobFacts
<1>9. JobInv(j)'
  BY <1>5, <1>6, <1>8 DEF JobInv, ProposalsAreDrafts, Published, CandidateKept,
                          NothingOnOffer, ReadyToCommit, HasApproved
<1>10. ~HasAssigned(r)'
  BY <1>2, <1>3, <1>4 DEF HasAssigned
<1>11. AssignInv(j)'
  BY <1>4, <1>5, <1>6, <1>8, <1>10 DEF AssignInv, RunKept, HasAssigned, HasApproved
<1>12. NumbersExist(r, j)'
  BY <1>1, <1>4, <1>5, <1>8 DEF NumbersExist, JobInv
<1>13. FencedInv(r, j)'
  <2>1. checkpoint'[j] = restored'[r]
    BY <1>1, <1>4, <1>5
  <2>2. at'[r] = "node" => ~HasApproved(j)' /\ NothingOnOffer(j)'
    BY <1>3, <1>5, <1>8 DEF JobInv, ProposalsAreDrafts, HasApproved, NothingOnOffer
  <2>3. draft'[r].outcome = "sealed" => c.sealed = draft'[r].text
    BY <1>1, <1>2, <1>4, <1>8 DEF JobInv, CandidateKept
  <2> QED BY <1>1, <1>3, <1>5, <2>1, <2>2, <2>3 DEF FencedInv
<1>14. Len(proposals[j]) <= Len(proposals'[j])
  BY <1>5, <1>8
<1> QED BY <1>4, <1>6, <1>7, <1>9, <1>11, <1>12, <1>13, <1>14, Frame

\* A step of r that changes no row: r moves on, or is over.
LEMMA LocalKeeps ==
  ASSUME Known, NEW r \in Runs, NEW j \in Jobs, target[r] = j,
         UNCHANGED <<status, cancelRequested, leaseVars, receipt, authRows>>,
         \A q \in Runs \ {r} : RunKept(q),
         target'[r] \in {j, NoJob},
         ~HasAssigned(r)',
         ~Idle(r)' => NumbersExist(r, j)',
         Idle(r)' => proposal'[r] = 0,
         Fenced(r)' => FencedInv(r, j)'
  PROVE  AuthInv'
<1> USE DEF Known
<1>1. \A q \in Jobs : JobKept(q)
  BY DEF JobKept, authRows
<1>2. \A q \in Runs \ {r} : Fenced(q)' => Fenced(q)
  BY DEF RunKept, Fenced, Idle, leaseVars
<1>3. JobInv(j) /\ AssignInv(j) /\ Len(proposals[j]) \in Nat
  BY JobFacts
<1>4. JobInv(j)'
  BY <1>1, <1>3, JobFrame
<1>5. AssignInv(j)'
  BY <1>1, <1>3 DEF AssignInv, RunKept, JobKept, HasAssigned, HasApproved
<1>6. ASSUME NEW q \in Runs \ {r}, Fenced(q)', target[q] = j
      PROVE  FencedInv(q, j)'
  <2>1. FencedInv(q, j)
    BY <1>2, <1>6 DEF AuthInv
  <2> QED BY <1>1, <1>6, <2>1, FencedFrame DEF JobKept
<1>7. Len(proposals[j]) <= Len(proposals'[j])
  BY <1>3 DEF authRows
<1> QED BY <1>1, <1>2, <1>4, <1>5, <1>6, <1>7, Frame

\* A fenced run reports an event with a checkpoint that keeps the chain.
LEMMA YieldKeeps ==
  ASSUME Known, NEW r \in Runs, NEW j \in Jobs, target[r] = j, NEW k, NEW c \in Checkpoint,
         Yield(r, k, c),
         UNCHANGED <<kind, definition, assigned, proposals, artifact>>,
         \A q \in Runs \ {r} : RunKept(q),
         IsBody(j) =>
           /\ c.draft # NoPayload => c.sealed = c.draft
           /\ c.sealed # NoPayload => assigned[j] = c.sealed.evidence /\ assigned[j] # -1
           /\ ~NothingOnOffer(j) => c.sealed = checkpoint[j].sealed
           /\ assigned[j] = -1 => c.proposal = 0,
         kind[j] = "body" => \A q \in Runs : target[q] = j /\ HasAssigned(q)' =>
           /\ HasAssigned(q)
           /\ c.sealed = NoPayload
           /\ ~HasApproved(j) => c.proposal = 0,
         c.proposal <= Len(proposals[j]),
         NumbersExist(r, j)',
         FencedInv(r, j)'
  PROVE  AuthInv'
<1> USE DEF Known
<1>1. /\ Fenced(r)
      /\ checkpoint' = [checkpoint EXCEPT ![j] = c]
      /\ UNCHANGED <<status, cancelRequested, completedAt, leaseVars, receipt, runVars>>
  BY DEF Yield, PersistProgress
<1>2. checkpoint'[j] = c /\ \A q \in Jobs \ {j} : JobKept(q)
  BY <1>1 DEF JobKept, AuthTyped, AuthTypes
<1>3. \A q \in Runs : Fenced(q)' => Fenced(q)
  BY <1>1, QuietFence
<1>4. \A q \in Runs \ {r} : Fenced(q)' => target[q] # j
  BY <1>1, <1>3, FencedApart
<1>5. /\ JobInv(j) /\ AssignInv(j) /\ Len(proposals[j]) \in Nat /\ status[j] = "RUNNING"
      /\ target'[r] = j /\ ~Idle(r)'
  BY <1>1, JobFacts, FencedTarget DEF runVars, Idle
<1>6. JobInv(j)'
  <2>1. ProposalsAreDrafts(j)' /\ Published(j)'
    BY <1>1, <1>5 DEF JobInv, ProposalsAreDrafts, Published
  <2>2. IsBody(j) => CandidateKept(j)'
    <3> SUFFICES ASSUME IsBody(j) PROVE CandidateKept(j)'
      OBVIOUS
    <3>1. CandidateKept(j)
      BY <1>5 DEF JobInv
    <3>2. ASSUME NEW i \in 1..Len(proposals[j]),
                 proposals[j][i].st = "ACTIVE" /\ proposals[j][i].live
          PROVE  c.sealed = proposals[j][i].payload
      BY <3>1, <3>2 DEF CandidateKept, NothingOnOffer
    <3>3. status'[j] = "RUNNING" /\ assigned'[j] = assigned[j] /\ proposals' = proposals
      BY <1>1, <1>5
    <3> QED BY <1>2, <3>1, <3>2, <3>3 DEF CandidateKept, NothingOnOffer
  <2> QED BY <1>1, <1>2, <1>5, <2>1, <2>2 DEF JobInv
<1>7. AssignInv(j)'
  <2>1. \A q \in Runs : target'[q] = j => target[q] = j
    BY <1>1 DEF runVars
  <2>2. HasApproved(j)' <=> HasApproved(j)
    BY DEF HasApproved
  <2> QED BY <1>1, <1>2, <1>5, <2>1, <2>2 DEF AssignInv
<1>8. Len(proposals[j]) <= Len(proposals'[j])
  BY <1>5
<1> QED BY <1>2, <1>3, <1>4, <1>5, <1>6, <1>7, <1>8, Frame

\* What a checkpoint carries of the draft or of the checkpoint before it.
LEMMA CheckpointFields ==
  /\ \A n, d : /\ ExecutionCheckpoint(n, d).draft = d.text
               /\ ExecutionCheckpoint(n, d).proposal = 0
               /\ ExecutionCheckpoint(n, d).sealed =
                    IF d.outcome = "sealed" THEN d.text ELSE NoPayload
  /\ \A phase, i, c : /\ ProposalCheckpoint(phase, i, c).draft = NoPayload
                      /\ ProposalCheckpoint(phase, i, c).proposal = i
                      /\ ProposalCheckpoint(phase, i, c).sealed = c.sealed
  BY DEF ExecutionCheckpoint, ProposalCheckpoint

\* A node that is done keeps the chain: a sealed text was rendered from the
\* assigned evidence, and no other run has assigned any.
LEMMA NodeDoneKeeps ==
  ASSUME Known, NEW r \in Runs, NEW j \in Jobs, target[r] = j, NEW d \in Draft,
         NodeDone(r, d), at[r] \in {"node", "draft"},
         d.outcome = "sealed" => /\ d.text # NoPayload /\ assigned[j] # -1
                                 /\ assigned[j] = d.text.evidence,
         IsBody(j) /\ d.outcome # "sealed" => d.text = NoPayload,
         d.outcome = "revision" => HasAssigned(r),
         kind[j] = "body" /\ d.outcome = "sealed" =>
           \A q \in Runs \ {r} : target[q] = j => ~HasAssigned(q)
  PROVE  AuthInv'
<1> USE DEF Known
<1>0. PICK c : c = ExecutionCheckpoint(completed[r] + 1, d)
  OBVIOUS
<1>1. /\ c = ExecutionCheckpoint(completed[r] + 1, d)
      /\ c.draft = d.text /\ c.proposal = 0
      /\ c.sealed = IF d.outcome = "sealed" THEN d.text ELSE NoPayload
  BY <1>0, CheckpointFields
<1>2. /\ Yield(r, "node", c)
      /\ UNCHANGED <<kind, definition, assigned, proposals, artifact>>
      /\ at'[r] = "node" /\ draft'[r] = d
      /\ UNCHANGED <<restored, proposal>>
      /\ \A q \in Runs \ {r} : RunKept(q)
  BY <1>1 DEF NodeDone, Goto, RunKept, Yield, PersistProgress, runVars, AuthTyped, AuthTypes
<1>3. c \in Checkpoint /\ Fenced(r)
  <2>1. /\ Fenced(r)
        /\ checkpoint' = [checkpoint EXCEPT ![j] = c]
    BY <1>2 DEF Yield, PersistProgress
  <2>2. checkpoint'[j] \in Checkpoint /\ checkpoint'[j] = c
    BY <2>1 DEF AuthTyped, AuthTypes
  <2> QED BY <2>1, <2>2
<1>4. ~HasApproved(j) /\ NothingOnOffer(j)
  BY <1>3 DEF AuthInv, FencedInv
<1>5. ~Idle(r) /\ NumbersExist(r, j) /\ Len(proposals[j]) \in Nat
  BY <1>3, JobFacts DEF Fenced, AuthInv
<1>6. checkpoint'[j] = c /\ target' = target
  BY <1>2 DEF Yield, PersistProgress, runVars, AuthTyped, AuthTypes
<1>7. FencedInv(r, j)'
  <2>1. ~HasApproved(j)' /\ NothingOnOffer(j)'
    BY <1>2, <1>4 DEF HasApproved, NothingOnOffer
  <2> QED BY <1>1, <1>2, <1>6, <2>1 DEF FencedInv
<1>8. ASSUME kind[j] = "body", NEW q \in Runs, target[q] = j, HasAssigned(q)'
      PROVE  HasAssigned(q) /\ c.sealed = NoPayload /\ c.proposal = 0
  <2>1. CASE q = r
    <3>1. d.outcome = "revision"
      BY <1>2, <1>8, <2>1 DEF HasAssigned
    <3> QED BY <1>1, <2>1, <3>1
  <2>2. CASE q # r
    <3>1. HasAssigned(q)
      BY <1>2, <1>8, <2>2 DEF HasAssigned, RunKept
    <3> QED BY <1>1, <1>8, <2>2, <3>1
  <2> QED BY <2>1, <2>2
<1>9. IsBody(j) =>
        /\ c.draft # NoPayload => c.sealed = c.draft
        /\ c.sealed # NoPayload => assigned[j] = c.sealed.evidence /\ assigned[j] # -1
        /\ ~NothingOnOffer(j) => c.sealed = checkpoint[j].sealed
        /\ assigned[j] = -1 => c.proposal = 0
  BY <1>1, <1>4
<1>10. c.proposal <= Len(proposals[j]) /\ NumbersExist(r, j)'
  BY <1>1, <1>2, <1>5 DEF NumbersExist
<1> QED BY <1>2, <1>3, <1>7, <1>8, <1>9, <1>10, YieldKeeps

\* What is known of a run at work and of its job.
LEMMA RunFacts ==
  ASSUME Known, NEW r \in Runs, ~Idle(r)
  PROVE  /\ target[r] \in Jobs /\ token[r] \in 1..MaxFence
         /\ DraftFits(r, target[r]) /\ NumbersExist(r, target[r])
         /\ Fenced(r) => FencedInv(r, target[r])
         /\ draft[r] \in Draft /\ completed[r] \in 0..5
         /\ proposal[r] \in Nat
         /\ restored[r] \in Checkpoint /\ restored[r].proposal \in Nat
<1>1. target[r] \in Jobs /\ token[r] \in 1..MaxFence
  BY BusyTarget DEF Known
<1>2. DraftFits(r, target[r])
  BY DEF Known, AuthTyped, DraftsFit
<1>3. NumbersExist(r, target[r]) /\ (Fenced(r) => FencedInv(r, target[r]))
  BY DEF Known, AuthInv
<1>4. /\ draft[r] \in Draft /\ completed[r] \in 0..5
      /\ restored[r] \in Checkpoint /\ restored[r].proposal \in Nat
      /\ proposal[r] \in Nat
  BY NodeNumbers DEF Known, AuthTyped, AuthTypes, Checkpoint
<1> QED BY <1>1, <1>2, <1>3, <1>4

\* The nodes keep the chain.
LEMMA NodesKeep ==
  ASSUME Known, NEW r \in Runs,
         CheckingNode(r) \/ DraftStructured(r) \/ GenerateBody(r)
  PROVE  AuthInv'
<1>1. ~Idle(r) /\ Fenced(r)
  BY DEF CheckingNode, DraftStructured, GenerateBody, NodeDone, Yield,
         PersistProgress, Fenced
<1>2. PICK j : j = target[r]
  OBVIOUS
<1>3. /\ j \in Jobs /\ JobInv(j) /\ AssignInv(j) /\ DraftFits(r, j) /\ FencedInv(r, j)
      /\ draft[r] \in Draft /\ completed[r] \in 0..5 /\ token[r] \in 1..MaxFence
      /\ kind[j] \in Kind
  BY <1>1, <1>2, RunFacts, JobFacts
<1>b. \A e \in Evidence : /\ [by |-> token[r], evidence |-> e] \in Payload
                          /\ [by |-> token[r], evidence |-> e] # NoPayload
  BY <1>3, MaxFenceAssumption DEF Payload, NoPayload
<1>e. -1 \in Evidence /\ assigned[j] \in Evidence
  BY <1>3, JobFacts, MaxFenceAssumption DEF Evidence
<1>4. CASE CheckingNode(r)
  <2>1. NodeDone(r, draft[r]) /\ at[r] = "node"
    BY <1>4 DEF CheckingNode, AtNode
  <2>2. ASSUME draft[r].outcome = "sealed"
        PROVE  /\ draft[r].text # NoPayload /\ assigned[j] # -1
               /\ assigned[j] = draft[r].text.evidence
               /\ kind[j] = "body" =>
                    \A q \in Runs : target[q] = j => ~HasAssigned(q)
    <3>1. draft[r].text # NoPayload /\ IsBody(j)
      BY <1>3, <2>2 DEF DraftFits
    <3>2. checkpoint[j].sealed = draft[r].text
      BY <1>3, <2>1, <2>2 DEF FencedInv
    <3>3. assigned[j] = draft[r].text.evidence /\ assigned[j] # -1
      BY <1>3, <3>1, <3>2 DEF JobInv, CandidateKept
    <3> QED BY <1>3, <3>1, <3>2, <3>3 DEF AssignInv
  <2>3. IsBody(j) /\ draft[r].outcome # "sealed" => draft[r].text = NoPayload
    BY <1>3 DEF DraftFits
  <2>4. draft[r].outcome = "revision" => HasAssigned(r)
    BY <2>1 DEF HasAssigned
  <2> QED BY <1>2, <1>3, <2>1, <2>2, <2>3, <2>4, NodeDoneKeeps
<1>5. CASE DraftStructured(r)
  <2>1. PICK d : d = [text |-> [by |-> token[r], evidence |-> -1], outcome |-> "plain"]
    OBVIOUS
  <2>2. d \in Draft /\ d.outcome = "plain"
    BY <1>b, <1>e, <2>1 DEF Draft
  <2>3. NodeDone(r, d) /\ at[r] = "node" /\ kind[j] = "structured"
    BY <1>2, <1>5, <2>1 DEF DraftStructured, AtNode
  <2> QED BY <1>2, <1>3, <2>2, <2>3, NodeDoneKeeps
<1>6. ASSUME at[r] = "draft"
      PROVE  /\ HasAssigned(r)
             /\ kind[j] = "body" =>
                  \A q \in Runs \ {r} : target[q] = j => ~HasAssigned(q)
  <2>1. HasAssigned(r)
    BY <1>6 DEF HasAssigned
  <2>2. ~HasApproved(j)
    BY <1>3, <1>6 DEF FencedInv
  <2> QED BY <1>2, <1>3, <2>1, <2>2 DEF AssignInv
<1>7. CASE GenerateBody(r)
  <2>1. PICK d : d = [text |-> [by |-> token[r], evidence |-> assigned[j]],
                      outcome |-> "sealed"]
    OBVIOUS
  <2>2. PICK e : e = [text |-> NoPayload, outcome |-> "revision"]
    OBVIOUS
  <2>3. /\ d \in Draft /\ d.outcome = "sealed" /\ d.text # NoPayload
        /\ d.text.evidence = assigned[j]
        /\ e \in Draft /\ e.outcome = "revision" /\ e.text = NoPayload
    BY <1>b, <1>e, <2>1, <2>2, CheckpointTypes DEF Draft
  <2>4. at[r] = "draft" /\ assigned[j] # -1 /\ (NodeDone(r, d) \/ NodeDone(r, e))
    BY <1>2, <1>7, <2>1, <2>2 DEF GenerateBody
  <2>5. CASE NodeDone(r, d)
    BY <1>2, <1>3, <1>6, <2>3, <2>4, <2>5, NodeDoneKeeps
  <2>6. CASE NodeDone(r, e)
    BY <1>2, <1>3, <1>6, <2>3, <2>4, <2>6, NodeDoneKeeps
  <2> QED BY <2>4, <2>5, <2>6
<1> QED BY <1>4, <1>5, <1>7

\* find takes the job as the checkpoint and the newest proposal show it.
LEMMA FindKeeps ==
  ASSUME Known, NEW r \in Runs, Find(r)
  PROVE  AuthInv'
<1> USE DEF Known
<1>1. at[r] = "find" /\ ~Idle(r)
  BY DEF Find, AuthTyped, PlacesFitClaims
<1>2. PICK j \in Jobs : j = target[r]
  BY <1>1, RunFacts
<1>3. /\ JobInv(j) /\ AssignInv(j) /\ DraftFits(r, j) /\ NumbersExist(r, j)
      /\ Fenced(r) => FencedInv(r, j)
      /\ restored[r] \in Checkpoint /\ restored[r].proposal \in Nat
      /\ Len(proposals[j]) \in Nat /\ kind[j] \in Kind
  BY <1>1, <1>2, RunFacts, JobFacts
<1>4. PICK i, n, known :
        /\ i = FindActive(j) /\ n = Len(proposals[j])
        /\ known = IF i = 0 THEN restored[r].proposal ELSE i
  OBVIOUS
<1>5. /\ i = 0 => ~HasApproved(j) /\ NothingOnOffer(j)
      /\ i # 0 => /\ i = n /\ n \in 1..n
                  /\ \/ proposals[j][n].st = "APPROVED"
                     \/ proposals[j][n].st = "ACTIVE" /\ proposals[j][n].live
  <2>1. OneOpenProposal
    BY DEF AuthInv, JobInv, OneOpenProposal
  <2> QED BY <1>4, <2>1, FindActiveIs DEF AuthTyped, HasApproved, NothingOnOffer
<1>6. /\ proposal'[r] = known
      /\ UNCHANGED <<kind, definition, assigned, proposals, artifact, restored,
                     completed, draft>>
      /\ \A q \in Runs \ {r} : proposal'[q] = proposal[q]
  BY <1>2, <1>4 DEF Find, AuthTyped, AuthTypes
<1>7. known \in 0..n
  BY <1>3, <1>4, <1>5 DEF NumbersExist
<1>8. CASE /\ i # 0 /\ proposals[j][i].st # "APPROVED"
           /\ Yield(r, "recovered", ProposalCheckpoint("waiting_approval", i, restored[r]))
           /\ Goto(r, "suspend")
  <2>1. PICK c : c = ProposalCheckpoint("waiting_approval", i, restored[r])
    OBVIOUS
  <2>2. c.draft = NoPayload /\ c.proposal = n /\ c.sealed = restored[r].sealed
    BY <1>5, <1>8, <2>1, CheckpointFields
  <2>3. /\ Yield(r, "recovered", c) /\ Fenced(r) /\ checkpoint' = [checkpoint EXCEPT ![j] = c]
        /\ target' = target /\ token' = token
    BY <1>2, <1>8, <2>1 DEF Yield, PersistProgress, runVars
  <2>4. at'[r] = "suspend" /\ \A q \in Runs \ {r} : RunKept(q)
    BY <1>6, <1>8, <2>3 DEF Goto, RunKept, AuthTyped, AuthTypes
  <2>5. checkpoint'[j] = c /\ c \in Checkpoint
    BY <2>3 DEF AuthTyped, AuthTypes
  <2>6. checkpoint[j] = restored[r]
    BY <1>1, <1>3, <2>3 DEF FencedInv
  <2>7. IsBody(j) =>
          /\ c.sealed = proposals[j][n].payload /\ c.sealed # NoPayload
          /\ assigned[j] = c.sealed.evidence /\ assigned[j] # -1
    <3>1. n \in 1..n /\ proposals[j][n].st = "ACTIVE" /\ proposals[j][n].live
      BY <1>5, <1>8
    <3>3. c.sealed = checkpoint[j].sealed
      BY <2>2, <2>6
    <3>4. proposals[j][n].payload # NoPayload
      BY <1>3, <1>4, <3>1 DEF JobInv, ProposalsAreDrafts
    <3> QED BY <1>3, <1>4, <3>1, <3>3, <3>4 DEF JobInv, CandidateKept
  <2>8. assigned[j] = -1 => ~IsBody(j)
    BY <2>7
  <2>9. kind[j] = "body" => \A q \in Runs : target[q] = j => ~HasAssigned(q)
    BY <1>3, <2>2, <2>6, <2>7 DEF AssignInv
  <2>10. kind[j] = "body" => \A q \in Runs : target[q] = j => ~HasAssigned(q)'
    BY <2>4, <2>9 DEF HasAssigned, RunKept
  <2>11. FencedInv(r, j)'
    BY <1>3, <1>4, <1>5, <1>6, <1>8, <2>2, <2>4, <2>5, <2>7 DEF FencedInv, ReadyToCommit
  <2>12. NumbersExist(r, j)'
    BY <1>3, <1>4, <1>6, <1>7 DEF NumbersExist
  <2>13. c.proposal <= Len(proposals[j])
    BY <1>3, <1>4, <2>2
  <2>14. IsBody(j) =>
           /\ c.draft # NoPayload => c.sealed = c.draft
           /\ c.sealed # NoPayload => assigned[j] = c.sealed.evidence /\ assigned[j] # -1
           /\ ~NothingOnOffer(j) => c.sealed = checkpoint[j].sealed
           /\ assigned[j] = -1 => c.proposal = 0
    BY <2>2, <2>6, <2>7, <2>8
  <2> QED BY <1>2, <1>6, <2>3, <2>4, <2>5, <2>10, <2>11, <2>12, <2>13, <2>14, YieldKeeps
<1>9. ASSUME UNCHANGED <<vars, checkpoint>>,
             \/ /\ (proposals[j][i].st = "APPROVED" /\ i # 0) \/ (i = 0 /\ known # 0)
                /\ Goto(r, CommitPlace(r))
             \/ known = 0 /\ Goto(r, "node")
      PROVE  AuthInv'
  <2>1. /\ at'[r] \in {"recover", "commit", "node"}
        /\ IsBody(j) => at'[r] # "commit"
        /\ at'[r] = "node" <=> known = 0
        /\ known # 0 => \/ proposals[j][i].st = "APPROVED" /\ i # 0
                        \/ i = 0
        /\ \A q \in Runs \ {r} : RunKept(q)
    BY <1>2, <1>3, <1>6, <1>9, <1>4, <1>5
    DEF Goto, CommitPlace, RunKept, AuthTyped, AuthTypes, vars, runVars
  <2>2. UNCHANGED <<status, cancelRequested, leaseVars, receipt, authRows, target, token>>
    BY <1>6, <1>9 DEF vars, rowVars, runVars, authRows
  <2>3. ~HasAssigned(r)'
    BY <1>1, <1>3, <1>6, <2>1 DEF HasAssigned, DraftFits
  <2>4. NumbersExist(r, j)'
    BY <1>3, <1>4, <1>6, <1>7 DEF NumbersExist
  <2>5. ASSUME Fenced(r)
        PROVE  FencedInv(r, j)'
    <3>1. FencedInv(r, j) /\ checkpoint[j] = restored[r]
      BY <1>1, <1>3, <2>5 DEF FencedInv
    <3>2. known = 0 => ~HasApproved(j) /\ NothingOnOffer(j)
      BY <1>4, <1>5
    <3>3. known # 0 /\ i = 0 => NothingOnOffer(j) /\ checkpoint[j].proposal # 0
      BY <1>4, <1>5, <3>1
    <3>4. known # 0 /\ i # 0 => NothingOnOffer(j) /\ HasApproved(j)
      <4>1. ASSUME known # 0, i # 0, NEW k \in 1..n, proposals[j][k].st = "ACTIVE"
            PROVE  FALSE
        BY <1>3, <1>4, <1>5, <2>1, <4>1 DEF JobInv
      <4> QED BY <1>4, <1>5, <2>1, <4>1 DEF NothingOnOffer, HasApproved
    <3>5. HasApproved(j)' <=> HasApproved(j)
      BY <1>6 DEF HasApproved
    <3>6. NothingOnOffer(j)' <=> NothingOnOffer(j)
      BY <1>6 DEF NothingOnOffer
    <3>7. draft[r].outcome = "sealed" => checkpoint[j].sealed = draft[r].text
      BY <1>1, <3>1 DEF FencedInv
    <3> QED BY <1>6, <2>1, <2>2, <3>1, <3>2, <3>3, <3>4, <3>5, <3>6, <3>7
            DEF FencedInv, authRows
  <2>6. Fenced(r)' => Fenced(r)
    BY <2>2 DEF Fenced, Idle, leaseVars
  <2>7. ~Idle(r)' /\ target'[r] = j
    BY <1>1, <1>2, <2>2 DEF Idle
  <2> QED BY <1>2, <2>1, <2>2, <2>3, <2>4, <2>5, <2>6, <2>7, LocalKeeps
<1> QED BY <1>2, <1>4, <1>8, <1>9 DEF Find

\* What a run retrieved is only assigned while no candidate is sealed; as long
\* as nothing is approved, no other run has assigned any.  What is inherited is
\* what was inherited before.
LEMMA AssignKeeps ==
  ASSUME Known, NEW r \in Runs, AssignEvidence(r)
  PROVE  AuthInv'
<1> USE DEF Known
<1>1. /\ at[r] = "node" /\ at'[r] = "draft"
      /\ UNCHANGED <<vars, checkpoint, proposals, artifact, restored, completed, draft,
                     proposal>>
      /\ \A q \in Runs \ {r} : RunKept(q)
  BY DEF AssignEvidence, AtNode, Goto, RunKept, vars, runVars, AuthTyped,
         AuthTypes
<1>2. ~Idle(r)
  BY <1>1 DEF AuthTyped, PlacesFitClaims
<1>3. PICK j \in Jobs : j = target[r]
  BY <1>2, RunFacts
<1>4. /\ JobInv(j) /\ AssignInv(j) /\ NumbersExist(r, j)
      /\ Fenced(r) => FencedInv(r, j)
      /\ Len(proposals[j]) \in Nat /\ checkpoint[j].sealed \in Payload
  BY <1>2, <1>3, RunFacts, JobFacts DEF Checkpoint
<1>5. /\ IsBody(j) /\ assigned'[j] \in Nat
      /\ kind[j] = "body" => assigned[j] = -1
      /\ kind[j] = "compress" => assigned'[j] = 0
      /\ \A q \in Jobs \ {j} : assigned'[q] = assigned[q]
  <2>1. token[r] \in 1..MaxFence
    BY <1>2, RunFacts
  <2> QED BY <1>3, <2>1, MaxFenceAssumption
          DEF AssignEvidence, MayAssign, AuthTyped, AuthTypes, Kind
<1>6. kind[j] = "body" =>
        /\ checkpoint[j].sealed = NoPayload
        /\ ~HasApproved(j) =>
             /\ checkpoint[j].proposal = 0
             /\ status[j] # "WAITING_MATERIAL"
             /\ \A q \in Runs : target[q] = j => ~HasAssigned(q)
  BY <1>4, <1>5 DEF JobInv, CandidateKept, AssignInv
<1>7. UNCHANGED <<status, cancelRequested, leaseVars, receipt, runVars>>
  BY <1>1 DEF vars, rowVars
<1>8. \A q \in Jobs \ {j} : JobKept(q)
  BY <1>1, <1>5, <1>7 DEF JobKept
<1>9. \A q \in Runs : Fenced(q)' <=> Fenced(q)
  BY <1>7, QuietFence
<1>10. /\ HasApproved(j)' <=> HasApproved(j)
       /\ NothingOnOffer(j)' <=> NothingOnOffer(j)
  BY <1>1 DEF HasApproved, NothingOnOffer
<1>11. JobInv(j)'
  <2>1. ProposalsAreDrafts(j)' /\ Published(j)'
    BY <1>1, <1>4, <1>7 DEF JobInv, ProposalsAreDrafts, Published
  <2>2. CandidateKept(j)'
    <3>1. checkpoint[j].sealed # NoPayload =>
            assigned'[j] = checkpoint[j].sealed.evidence
      <4>1. kind[j] \in {"body", "compress"} /\ CandidateKept(j)
        BY <1>4, <1>5, JobFacts DEF JobInv, Kind
      <4> QED BY <1>5, <1>6, <4>1 DEF CandidateKept
    <3> QED BY <1>1, <1>4, <1>5, <1>6, <1>7, <1>10, <3>1 DEF JobInv, CandidateKept
  <2>3. ReadyToCommit(j)' <=> ReadyToCommit(j)
    BY <1>1 DEF ReadyToCommit
  <2> QED BY <1>1, <1>4, <1>7, <1>10, <2>1, <2>2, <2>3 DEF JobInv
<1>12. AssignInv(j)'
  <2>1. \A q \in Runs \ {r} : HasAssigned(q)' => HasAssigned(q)
    BY <1>1 DEF HasAssigned, RunKept
  <2>2. target' = target
    BY <1>7 DEF runVars
  <2>3. assigned'[j] # -1
    BY <1>5
  <2> QED BY <1>1, <1>6, <1>7, <1>10, <2>1, <2>2, <2>3 DEF AssignInv
<1>13. NumbersExist(r, j)'
  BY <1>1, <1>4 DEF NumbersExist
<1>14. Fenced(r)' => FencedInv(r, j)'
  BY <1>1, <1>4, <1>9, <1>10 DEF FencedInv
<1>15. ASSUME NEW q \in Runs \ {r}, Fenced(q)', target[q] = j
       PROVE  FencedInv(q, j)'
  <2>1. FencedInv(q, j)
    BY <1>9, <1>15 DEF AuthInv
  <2> QED BY <1>1, <1>15, <2>1, FencedFrame
<1>16. target'[r] = j /\ ~Idle(r)' /\ Len(proposals[j]) <= Len(proposals'[j])
  BY <1>1, <1>2, <1>3, <1>4, <1>7 DEF runVars, Idle
<1> QED BY <1>1, <1>8, <1>9, <1>11, <1>12, <1>13, <1>14, <1>15, <1>16, Frame

\* A shadow run has nothing to propose; its checkpoint holds the draft.
LEMMA ShadowKeeps ==
  ASSUME Known, NEW r \in Runs, ShadowCompleted(r)
  PROVE  AuthInv'
<1> USE DEF Known
<1>1. PICK e, c : /\ e = ExecutionCheckpoint(completed[r], draft[r])
                  /\ c = [e EXCEPT !.phase = "shadow_completed"]
  OBVIOUS
<1>2. PICK j : j = target[r]
  OBVIOUS
<1>3. /\ Fenced(r) /\ Yield(r, "shadow", c) /\ at[r] = "node" /\ completed[r] = 5
      /\ checkpoint' = [checkpoint EXCEPT ![j] = c]
      /\ UNCHANGED <<kind, definition, assigned, proposals, artifact, restored, completed,
                     draft, proposal, target, token>>
      /\ at'[r] = "shadowed" /\ \A q \in Runs \ {r} : RunKept(q)
  BY <1>1, <1>2, NodeNumbers
  DEF ShadowCompleted, AllNodesDone, Yield, PersistProgress, Goto, RunKept, runVars,
      AuthTyped, AuthTypes
<1>4. ~Idle(r) /\ j \in Jobs
  BY <1>2, <1>3, FencedTarget
<1>5. /\ JobInv(j) /\ AssignInv(j) /\ NumbersExist(r, j) /\ DraftFits(r, j)
      /\ FencedInv(r, j) /\ draft[r] \in Draft
      /\ Len(proposals[j]) \in Nat /\ kind[j] \in Kind
  BY <1>2, <1>3, <1>4, RunFacts, JobFacts
<1>6. /\ c.draft = draft[r].text /\ c.proposal = 0
      /\ c.sealed = IF draft[r].outcome = "sealed" THEN draft[r].text ELSE NoPayload
      /\ c \in Checkpoint
  <2>1. /\ e.draft = draft[r].text /\ e.proposal = 0
        /\ e.sealed = IF draft[r].outcome = "sealed" THEN draft[r].text ELSE NoPayload
        /\ e \in Checkpoint
    BY <1>1, <1>3, <1>5, CheckpointFields, CheckpointTypes
  <2> QED BY <1>1, <2>1 DEF Checkpoint, Phases
<1>7. NothingOnOffer(j) /\ draft[r].outcome # "none" /\ draft[r].outcome # "revision"
  BY <1>3, <1>5 DEF FencedInv, DraftFits
<1>8. IsBody(j) =>
        /\ c.sealed = draft[r].text /\ c.sealed # NoPayload
        /\ assigned[j] = c.sealed.evidence /\ assigned[j] # -1
        /\ checkpoint[j].sealed # NoPayload
  BY <1>3, <1>5, <1>6, <1>7 DEF DraftFits, FencedInv, JobInv, CandidateKept
<1>9. kind[j] = "body" => \A q \in Runs : target[q] = j => ~HasAssigned(q)
  BY <1>5, <1>8 DEF AssignInv
<1>10. kind[j] = "body" => \A q \in Runs : target[q] = j => ~HasAssigned(q)'
  BY <1>3, <1>9 DEF HasAssigned, RunKept
<1>11. FencedInv(r, j)' /\ NumbersExist(r, j)'
  BY <1>3, <1>5 DEF FencedInv, NumbersExist
<1>12. c.proposal <= Len(proposals[j])
  BY <1>5, <1>6
<1> QED BY <1>2, <1>3, <1>4, <1>6, <1>7, <1>8, <1>10, <1>11, <1>12, YieldKeeps

\* What store proposes is what the checkpoint has sealed.
LEMMA StoreKeeps ==
  ASSUME Known, NEW r \in Runs, StoreProposal(r)
  PROVE  AuthInv'
<1> USE DEF Known
<1>1. PICK j : j = target[r]
  OBVIOUS
<1>2. PICK i : i = SelectActive(j)
  OBVIOUS
<1>3. /\ at[r] = "node" /\ completed[r] = 5 /\ definition[j] = "enforce" /\ Fenced(r)
      /\ i # 0 => proposals[j][i].payload = draft[r].text
      /\ at'[r] = "sealed"
      /\ UNCHANGED <<vars, kind, definition, checkpoint, assigned, artifact, restored,
                     completed, draft>>
      /\ \A q \in Runs \ {r} : RunKept(q)
  BY <1>1, <1>2, NodeNumbers
  DEF StoreProposal, AllNodesDone, Goto, RunKept, vars, runVars, AuthTyped, AuthTypes
<1>4. ~Idle(r) /\ j \in Jobs /\ status[j] = "RUNNING"
  BY <1>1, <1>3, FencedTarget
<1>5. PICK n : n = Len(proposals[j]) /\ n \in Nat
  BY <1>4, JobFacts
<1>6. /\ JobInv(j) /\ AssignInv(j) /\ NumbersExist(r, j) /\ DraftFits(r, j)
      /\ FencedInv(r, j) /\ draft[r] \in Draft
      /\ proposal[r] \in Nat /\ restored[r].proposal \in Nat
      /\ kind[j] \in Kind /\ checkpoint[j].proposal \in Nat
  BY <1>1, <1>3, <1>4, RunFacts, JobFacts
<1>7. /\ ~HasApproved(j) /\ NothingOnOffer(j)
      /\ draft[r].text # NoPayload
      /\ draft[r].outcome = "sealed" => checkpoint[j].sealed = draft[r].text
      /\ IsBody(j) => draft[r].outcome = "sealed"
  BY <1>3, <1>6 DEF FencedInv, DraftFits
<1>8. UNCHANGED <<status, cancelRequested, leaseVars, receipt, runVars, target, token>>
  BY <1>3 DEF vars, rowVars, runVars
<1>9. /\ i = 0 => \A k \in 1..n : proposals[j][k].st = "COMMITTED"
      /\ i # 0 => i = n /\ n \in 1..n /\ proposals[j][n].st \in {"ACTIVE", "APPROVED"}
  <2>1. OneOpenProposal
    BY DEF AuthInv, JobInv, OneOpenProposal
  <2> QED BY <1>2, <1>4, <1>5, <2>1, SelectActiveIs DEF AuthTyped
<1>10. /\ ~HasAssigned(r)' /\ ~Idle(r)'
       /\ \A q \in Runs \ {r} : HasAssigned(q)' => HasAssigned(q)
  BY <1>3, <1>4, <1>8 DEF HasAssigned, RunKept, Idle
<1>11. CASE i # 0
  <2>1. proposals' = proposals /\ proposal'[r] = n
    BY <1>1, <1>2, <1>9, <1>11 DEF StoreProposal, AuthTyped, AuthTypes
  <2>2. proposals[j][n].st = "ACTIVE" /\ proposals[j][n].payload = draft[r].text
    BY <1>3, <1>5, <1>7, <1>9, <1>11 DEF HasApproved
  <2>3. NumbersExist(r, j)'
    BY <1>3, <1>5, <1>6, <2>1 DEF NumbersExist
  <2>4. FencedInv(r, j)'
    BY <1>3, <1>5, <1>7, <1>9, <1>11, <2>1, <2>2 DEF FencedInv
  <2>5. UNCHANGED authRows /\ target'[r] \in {j, NoJob}
    BY <1>1, <1>3, <1>8, <2>1 DEF authRows
  <2> QED BY <1>1, <1>3, <1>4, <1>8, <1>10, <2>3, <2>4, <2>5, LocalKeeps
<1>12. CASE i = 0
  <2>1. PICK p : p = [payload |-> draft[r].text, st |-> "ACTIVE", live |-> TRUE]
    OBVIOUS
  <2>2. /\ p \in Proposal /\ p.payload = draft[r].text /\ p.st = "ACTIVE"
    BY <1>6, <2>1 DEF Draft, Proposal
  <2>3. proposals' = [proposals EXCEPT ![j] = Append(@, p)] /\ proposal'[r] = n + 1
    BY <1>1, <1>2, <1>5, <1>12, <2>1 DEF StoreProposal, NextSequence, AuthTyped, AuthTypes
  <2>4. /\ Len(proposals'[j]) = n + 1 /\ proposals'[j][n + 1] = p
        /\ \A k \in 1..n : proposals'[j][k] = proposals[j][k]
        /\ \A q \in Jobs \ {j} : proposals'[q] = proposals[q]
    BY <1>4, <1>5, <2>2, <2>3, ProposalAdded DEF AuthTyped
  <2>5. \A k \in 1..(n + 1) : \/ k = n + 1 /\ proposals'[j][k].st = "ACTIVE"
                                         /\ proposals'[j][k].payload = draft[r].text
                              \/ k \in 1..n /\ proposals'[j][k] = proposals[j][k]
                                         /\ proposals'[j][k].st = "COMMITTED"
    BY <1>5, <1>9, <1>12, <2>2, <2>4
  <2>6. \A q \in Jobs \ {j} : JobKept(q)
    BY <1>3, <1>8, <2>4 DEF JobKept
  <2>7. ~HasApproved(j)'
    BY <2>4, <2>5 DEF HasApproved
  <2>8. JobInv(j)'
    <3>1. ProposalsAreDrafts(j)'
      <4>1. \A k \in 1..n : proposals[j][k].payload # NoPayload
        BY <1>5, <1>6 DEF JobInv, ProposalsAreDrafts
      <4>2. \A k \in 1..(n + 1) : proposals'[j][k].payload # NoPayload
        BY <1>7, <2>5, <4>1
      <4>3. definition'[j] = "enforce"
        BY <1>3
      <4> QED BY <2>4, <4>2, <4>3 DEF ProposalsAreDrafts
    <3>2. Published(j)'
      <4>1. Published(j)
        BY <1>6 DEF JobInv
      <4>2. receipt[j] = 0 => n = 0
        BY <1>5, <1>9, <1>12, <4>1 DEF Published
      <4>3. receipt'[j] = 0 => \A k \in 1..(n + 1) : proposals'[j][k].st # "COMMITTED"
        BY <1>5, <1>8, <2>5, <4>2
      <4>4. ASSUME receipt'[j] # 0
            PROVE  \E k \in 1..(n + 1) :
                     /\ \A m \in 1..(n + 1) : proposals'[j][m].st = "COMMITTED" <=> m = k
                     /\ proposals'[j][k].payload = artifact'[j]
        <5>1. PICK k \in 1..n :
                /\ \A m \in 1..n : proposals[j][m].st = "COMMITTED" <=> m = k
                /\ proposals[j][k].payload = artifact[j]
          BY <1>5, <1>8, <4>1, <4>4 DEF Published
        <5>2. \A m \in 1..(n + 1) : proposals'[j][m].st = "COMMITTED" <=> m = k
          BY <1>5, <2>4, <2>5, <5>1
        <5> QED BY <1>3, <1>5, <2>4, <5>1, <5>2
      <4> QED BY <1>3, <1>8, <2>4, <4>1, <4>3, <4>4 DEF Published
    <3>3. IsBody(j) => CandidateKept(j)'
      BY <1>3, <1>4, <1>6, <1>7, <1>8, <2>4, <2>5 DEF JobInv, CandidateKept
    <3>4. checkpoint'[j].proposal <= n + 1
      BY <1>3, <1>5, <1>6 DEF JobInv
    <3> QED BY <1>3, <1>4, <1>8, <2>4, <2>5, <3>1, <3>2, <3>3, <3>4 DEF JobInv
  <2>9. AssignInv(j)'
    BY <1>3, <1>6, <1>7, <1>8, <1>10, <2>7 DEF AssignInv
  <2>10. NumbersExist(r, j)'
    BY <1>3, <1>5, <1>6, <2>3, <2>4 DEF NumbersExist
  <2>11. FencedInv(r, j)'
    BY <1>3, <1>5, <1>7, <2>2, <2>3, <2>4 DEF FencedInv
  <2>12. \A q \in Runs \ {r} : Fenced(q)' => Fenced(q) /\ target[q] # j
    BY <1>1, <1>3, <1>8, QuietFence, FencedApart
  <2>13. target'[r] = j /\ Len(proposals[j]) <= Len(proposals'[j])
    BY <1>1, <1>5, <1>8, <2>4
  <2> QED BY <1>3, <1>4, <1>10, <2>6, <2>8, <2>9, <2>10, <2>11, <2>12, <2>13, Frame
<1> QED BY <1>11, <1>12

\* The event of a sealed proposal leaves the job ready for its approval.
LEMMA SealedKeeps ==
  ASSUME Known, NEW r \in Runs, ProposalSealed(r)
  PROVE  AuthInv'
<1> USE DEF Known
<1>1. PICK e, c : /\ e = ExecutionCheckpoint(completed[r], draft[r])
                  /\ c = ProposalCheckpoint("waiting_approval", proposal[r], e)
  OBVIOUS
<1>2. PICK j : j = target[r]
  OBVIOUS
<1>3. /\ Fenced(r) /\ Yield(r, "sealed", c) /\ at[r] = "sealed"
      /\ checkpoint' = [checkpoint EXCEPT ![j] = c]
      /\ UNCHANGED <<kind, definition, assigned, proposals, artifact, restored, completed,
                     draft, proposal, target, token>>
      /\ at'[r] = "suspend" /\ \A q \in Runs \ {r} : RunKept(q)
  BY <1>1, <1>2
  DEF ProposalSealed, Yield, PersistProgress, Goto, RunKept, runVars, AuthTyped, AuthTypes
<1>4. ~Idle(r) /\ j \in Jobs
  BY <1>2, <1>3, FencedTarget
<1>5. PICK n : n = Len(proposals[j]) /\ n \in Nat
  BY <1>4, JobFacts
<1>6. /\ JobInv(j) /\ AssignInv(j) /\ NumbersExist(r, j) /\ DraftFits(r, j)
      /\ FencedInv(r, j) /\ draft[r] \in Draft
      /\ kind[j] \in Kind
  BY <1>2, <1>3, <1>4, RunFacts, JobFacts
<1>7. /\ proposal[r] = n /\ n # 0 /\ proposals[j][n].st = "ACTIVE"
      /\ proposals[j][n].payload = draft[r].text
      /\ draft[r].outcome = "sealed" => checkpoint[j].sealed = draft[r].text
      /\ draft[r].outcome = (IF IsBody(j) THEN "sealed" ELSE "plain")
      /\ draft[r].text # NoPayload
  BY <1>3, <1>5, <1>6 DEF FencedInv, DraftFits
<1>8. checkpoint'[j] = c /\ c \in Checkpoint
  BY <1>3, <1>4 DEF AuthTyped, AuthTypes
<1>9. /\ c.draft = NoPayload /\ c.proposal = n
      /\ c.sealed = IF draft[r].outcome = "sealed" THEN draft[r].text ELSE NoPayload
  BY <1>1, <1>7, CheckpointFields
<1>10. IsBody(j) =>
         /\ c.sealed = draft[r].text /\ c.sealed = checkpoint[j].sealed
         /\ c.sealed # NoPayload
         /\ assigned[j] = c.sealed.evidence /\ assigned[j] # -1
  BY <1>6, <1>7, <1>9 DEF JobInv, CandidateKept
<1>11. kind[j] = "body" => \A q \in Runs : target[q] = j => ~HasAssigned(q)
  BY <1>6, <1>10 DEF AssignInv
<1>12. kind[j] = "body" => \A q \in Runs : target[q] = j => ~HasAssigned(q)'
  BY <1>3, <1>11 DEF HasAssigned, RunKept
<1>13. ReadyToCommit(j)'
  BY <1>3, <1>5, <1>7, <1>8, <1>9, <1>10 DEF ReadyToCommit
<1>14. FencedInv(r, j)' /\ NumbersExist(r, j)'
  BY <1>3, <1>6, <1>13 DEF FencedInv, NumbersExist
<1>15. c.proposal <= Len(proposals[j])
  BY <1>5, <1>9
<1> QED BY <1>2, <1>3, <1>4, <1>8, <1>9, <1>10, <1>12, <1>14, <1>15, YieldKeeps

\* The last two events carry the candidate that was committed.
LEMMA ReportKeeps ==
  ASSUME Known, NEW r \in Runs, Report(r)
  PROVE  AuthInv'
<1> USE DEF Known
<1>1. PICK c : c = ProposalCheckpoint("committed", proposal[r], restored[r])
  OBVIOUS
<1>2. PICK j : j = target[r]
  OBVIOUS
<1>3. PICK k : Yield(r, k, c)
  BY <1>1 DEF Report
<1>4. /\ Fenced(r) /\ at[r] \in {"committed", "report"}
      /\ checkpoint' = [checkpoint EXCEPT ![j] = c]
      /\ UNCHANGED <<kind, definition, assigned, proposals, artifact, restored, completed,
                     draft, proposal, target, token>>
      /\ at'[r] \in {"report", "finish"} /\ \A q \in Runs \ {r} : RunKept(q)
  BY <1>2, <1>3
  DEF Report, Yield, PersistProgress, Goto, RunKept, runVars, AuthTyped, AuthTypes
<1>5. ~Idle(r) /\ j \in Jobs
  BY <1>2, <1>4, FencedTarget
<1>6. /\ JobInv(j) /\ AssignInv(j) /\ NumbersExist(r, j) /\ FencedInv(r, j)
      /\ kind[j] \in Kind
  BY <1>2, <1>4, <1>5, RunFacts, JobFacts
<1>7. checkpoint'[j] = c /\ c \in Checkpoint
  BY <1>4, <1>5 DEF AuthTyped, AuthTypes
<1>8. c.draft = NoPayload /\ c.proposal = proposal[r] /\ c.sealed = restored[r].sealed
  BY <1>1, CheckpointFields
<1>9. IsBody(j) =>
        /\ c.sealed = checkpoint[j].sealed /\ c.sealed # NoPayload
        /\ assigned[j] = c.sealed.evidence /\ assigned[j] # -1
  BY <1>4, <1>6, <1>8 DEF FencedInv, JobInv, CandidateKept
<1>10. kind[j] = "body" => \A q \in Runs : target[q] = j => ~HasAssigned(q)
  BY <1>6, <1>9 DEF AssignInv
<1>11. kind[j] = "body" => \A q \in Runs : target[q] = j => ~HasAssigned(q)'
  BY <1>4, <1>10 DEF HasAssigned, RunKept
<1>12. FencedInv(r, j)' /\ NumbersExist(r, j)'
  BY <1>4, <1>6, <1>7, <1>8, <1>9 DEF FencedInv, NumbersExist
<1>13. c.proposal <= Len(proposals[j])
  BY <1>6, <1>8 DEF NumbersExist
<1> QED BY <1>2, <1>3, <1>4, <1>5, <1>7, <1>8, <1>9, <1>11, <1>12, <1>13, YieldKeeps

\* A recovered candidate is the one in the checkpoint.
LEMMA RecoverKeeps ==
  ASSUME Known, NEW r \in Runs, RecoverCandidate(r)
  PROVE  AuthInv'
<1> USE DEF Known
<1>1. PICK j : j = target[r]
  OBVIOUS
<1>2. /\ at[r] = "recover" /\ at'[r] = "commit" /\ restored[r].sealed # NoPayload
      /\ UNCHANGED <<vars, authRows, restored, completed, draft, proposal>>
      /\ \A q \in Runs \ {r} : RunKept(q)
  BY DEF RecoverCandidate, Goto, RunKept, vars, runVars, AuthTyped, AuthTypes
<1>3. ~Idle(r)
  BY <1>2 DEF AuthTyped, PlacesFitClaims
<1>4. /\ j \in Jobs /\ NumbersExist(r, j)
      /\ Fenced(r) => FencedInv(r, j)
  BY <1>1, <1>3, RunFacts
<1>5. UNCHANGED <<status, cancelRequested, leaseVars, receipt, authRows, runVars, target>>
  BY <1>2 DEF vars, rowVars, runVars
<1>6. ~HasAssigned(r)' /\ ~Idle(r)' /\ NumbersExist(r, j)'
  BY <1>2, <1>3, <1>4 DEF HasAssigned, Idle, NumbersExist, vars, runVars, authRows
<1>7. Fenced(r)' => Fenced(r)
  BY <1>5, QuietFence
<1>8. ASSUME Fenced(r)
      PROVE  FencedInv(r, j)'
  <2>1. checkpoint[j] = restored[r]
    BY <1>2, <1>4, <1>8 DEF FencedInv
  <2> QED BY <1>2, <2>1 DEF FencedInv, authRows
<1> QED BY <1>1, <1>2, <1>4, <1>5, <1>6, <1>7, <1>8, LocalKeeps

\* The commit publishes the approved proposal, of whose body the checkpoint
\* still has the candidate.
LEMMA CommitKeeps ==
  ASSUME Known, NEW r \in Runs, CommitApproved(r)
  PROVE  AuthInv'
<1> USE DEF Known
<1>1. PICK j : j = target[r]
  OBVIOUS
<1>2. PICK i : i = Latest(j, {"APPROVED", "COMMITTED"})
  OBVIOUS
<1>3. /\ at[r] = "commit" /\ at'[r] = "committed" /\ i # 0
      /\ UNCHANGED <<kind, definition, checkpoint, assigned, restored, completed, draft,
                     proposal>>
  BY <1>2, <1>1 DEF CommitApproved, Goto, AuthTyped, AuthTypes
<1>4. ~Idle(r) /\ ~HasAssigned(r)'
  BY <1>3 DEF AuthTyped, PlacesFitClaims, HasAssigned
<1>5. /\ j \in Jobs /\ NumbersExist(r, j)
      /\ Fenced(r) => FencedInv(r, j)
      /\ restored[r].proposal \in Nat /\ proposal[r] \in Nat
  BY <1>1, <1>4, RunFacts
<1>6. ASSUME Fenced(r)
      PROVE  /\ checkpoint[j] = restored[r]
             /\ IsBody(j) => checkpoint[j].sealed # NoPayload
             /\ FencedInv(r, j)'
  <2>1. FencedInv(r, j)
    BY <1>5, <1>6
  <2> QED BY <1>3, <2>1 DEF FencedInv
<1>7. CASE receipt[j] # 0
  <2>1. UNCHANGED <<vars, proposals, artifact>>
    BY <1>1, <1>7 DEF CommitApproved, ReceiptFound
  <2>2. UNCHANGED <<status, cancelRequested, leaseVars, receipt, authRows, runVars, target, token>>
    BY <1>3, <2>1 DEF vars, rowVars, runVars, authRows
  <2>3. \A q \in Runs \ {r} : RunKept(q)
    BY <1>3, <2>2 DEF CommitApproved, Goto, RunKept, AuthTyped, AuthTypes
  <2>4. NumbersExist(r, j)' /\ (Fenced(r)' => Fenced(r)) /\ ~Idle(r)'
    BY <1>3, <1>4, <1>5, <2>1, <2>2, QuietFence DEF NumbersExist, Idle
  <2> QED BY <1>1, <1>4, <1>5, <1>6, <2>2, <2>3, <2>4, LocalKeeps
<1>8. CASE receipt[j] = 0
  <2>1. /\ Publish(r)
        /\ artifact' = [artifact EXCEPT ![j] = proposals[j][i].payload]
        /\ SetsStatus(j, i, "COMMITTED")
    BY <1>1, <1>2, <1>8
    DEF CommitApproved, LeaveReceipt, SaveArtifact, CloseProposal, SetsStatus
  <2>2. /\ Fenced(r) /\ receipt' = [receipt EXCEPT ![j] = token[r]] /\ token[r] # 0
        /\ UNCHANGED <<status, cancelRequested, leaseVars, runVars, target, token>>
    BY <1>1, <1>4, <2>1 DEF Publish, runVars, Idle
  <2>3. status[j] = "RUNNING"
    BY <1>1, <2>2, FencedTarget
  <2>4. PICK n : n = Len(proposals[j]) /\ n \in Nat
    BY <1>5, JobFacts
  <2>5. i = n /\ n \in 1..n /\ proposals[j][n].st = "APPROVED"
    <3>1. OneOpenProposal /\ CommittedHasReceipt
      BY DEF AuthInv, JobInv, OneOpenProposal, CommittedHasReceipt, Published
    <3> QED BY <1>2, <1>3, <1>5, <1>8, <2>4, <3>1, LatestApprovedIs DEF AuthTyped
  <2>6. /\ Len(proposals'[j]) = n
        /\ \A k \in 1..n :
             /\ proposals'[j][k].payload = proposals[j][k].payload
             /\ proposals'[j][k].live = proposals[j][k].live
             /\ proposals'[j][k].st = IF k = n THEN "COMMITTED" ELSE proposals[j][k].st
    BY <1>5, <2>1, <2>4, <2>5, StatusSet DEF AuthTyped
  <2>7. \A q \in Jobs \ {j} : JobKept(q)
    <3>1. \A q \in Jobs \ {j} : proposals'[q] = proposals[q]
      BY <2>1 DEF SetsStatus, AuthTyped, AuthTypes
    <3>2. \A q \in Jobs \ {j} : artifact'[q] = artifact[q] /\ receipt'[q] = receipt[q]
      BY <2>1, <2>2 DEF AuthTyped, AuthTypes, TypeOK
    <3> QED BY <1>3, <2>2, <3>1, <3>2 DEF JobKept
  <2>8. \A q \in Runs \ {r} : RunKept(q)
    BY <1>3, <2>2 DEF CommitApproved, Goto, RunKept, AuthTyped, AuthTypes
  <2>9. /\ JobInv(j) /\ AssignInv(j) /\ kind[j] \in Kind
    BY <1>5, JobFacts
  <2>10. /\ receipt'[j] # 0 /\ artifact'[j] = proposals[j][n].payload
         /\ artifact'[j] # NoPayload
    <3>1. receipt'[j] # 0
      BY <1>5, <2>2 DEF TypeOK
    <3>2. artifact'[j] = proposals[j][n].payload
      BY <1>5, <2>1, <2>5 DEF AuthTyped, AuthTypes
    <3>3. proposals[j][n].payload # NoPayload
      BY <2>4, <2>5, <2>9 DEF JobInv, ProposalsAreDrafts
    <3> QED BY <3>1, <3>2, <3>3
  <2>11. JobInv(j)'
    <3>1. ProposalsAreDrafts(j)'
      BY <1>3, <2>4, <2>6, <2>9 DEF JobInv, ProposalsAreDrafts
    <3>2. Published(j)'
      <4>1. \A k \in 1..n : proposals'[j][k].st = "COMMITTED" <=> k = n
        BY <1>8, <2>4, <2>6, <2>9 DEF JobInv, Published
      <4> QED BY <2>5, <2>6, <2>10, <4>1 DEF Published
    <3>3. IsBody(j) => CandidateKept(j)'
      BY <1>3, <2>2, <2>3, <2>4, <2>6, <2>9 DEF JobInv, CandidateKept
    <3> QED BY <1>3, <2>2, <2>3, <2>4, <2>6, <2>9, <3>1, <3>2, <3>3 DEF JobInv
  <2>12. kind[j] = "body" => \A q \in Runs : target[q] = j => ~HasAssigned(q)
    BY <1>6, <2>2, <2>9 DEF AssignInv
  <2>13. AssignInv(j)'
    <3>1. kind[j] = "body" => \A q \in Runs : target'[q] = j => ~HasAssigned(q)'
      BY <1>4, <2>2, <2>8, <2>12 DEF HasAssigned, RunKept
    <3> QED BY <3>1 DEF AssignInv
  <2>14. NumbersExist(r, j)'
    BY <1>3, <1>5, <2>4, <2>6 DEF NumbersExist
  <2>15. \A q \in Runs : Fenced(q)' => Fenced(q)
    BY <2>2, QuietFence
  <2>16. \A q \in Runs \ {r} : Fenced(q)' => target[q] # j
    BY <1>1, <2>2, <2>15, FencedApart
  <2>17. ~Idle(r)' /\ target'[r] = j /\ Len(proposals[j]) <= Len(proposals'[j])
    BY <1>1, <1>4, <2>2, <2>4, <2>6 DEF Idle
  <2> QED BY <1>5, <1>6, <2>2, <2>7, <2>8, <2>11, <2>13, <2>14, <2>15, <2>16, <2>17, Frame
<1> QED BY <1>7, <1>8

\* A fenced run hands the job back: for approval only when it can be
\* committed, for material only when nothing is on offer and no evidence that
\* resumeMaterial would drop is in use.
LEMMA EndKeeps ==
  ASSUME Known, NEW r \in Runs, NEW j \in Jobs, j = target[r], NEW s, NEW ev,
         Settle(r, s, ev), Over(r),
         s = "WAITING_APPROVAL" => ReadyToCommit(j),
         s = "WAITING_MATERIAL" =>
           /\ NothingOnOffer(j)
           /\ kind[j] = "body" /\ ~HasApproved(j) =>
                /\ assigned[j] # -1
                /\ \A q \in Runs \ {r} : target[q] = j => ~HasAssigned(q)
  PROVE  AuthInv'
<1> USE DEF Known
<1>1. /\ Fenced(r) /\ status' = [status EXCEPT ![j] = s]
      /\ target' = [target EXCEPT ![r] = NoJob] /\ token' = [token EXCEPT ![r] = 0]
      /\ receipt' = receipt
      /\ UNCHANGED <<kind, definition, checkpoint, assigned, proposals, artifact>>
  BY DEF Settle, EndRun, Over, authRows
<1>2. status'[j] = s /\ \A q \in Jobs \ {j} : JobKept(q)
  BY <1>1 DEF JobKept, TypeOK
<1>3. \A q \in Runs \ {r} : RunKept(q)
  BY <1>1 DEF Over, Goto, RunKept, TypeOK, AuthTyped, AuthTypes
<1>4. /\ target'[r] = NoJob /\ Idle(r)' /\ proposal'[r] = 0 /\ ~HasAssigned(r)'
  BY <1>1 DEF Over, Goto, HasAssigned, Idle, TypeOK, AuthTyped, AuthTypes
<1>5. \A q \in Runs \ {r} : Fenced(q)' => Fenced(q) /\ target[q] # j
  BY SettleFence
<1>6. JobInv(j) /\ AssignInv(j) /\ Len(proposals[j]) \in Nat
  BY JobFacts
<1>7. /\ HasApproved(j)' <=> HasApproved(j)
      /\ NothingOnOffer(j)' <=> NothingOnOffer(j)
      /\ ReadyToCommit(j)' <=> ReadyToCommit(j)
  BY <1>1 DEF HasApproved, NothingOnOffer, ReadyToCommit
<1>8. JobInv(j)'
  <2>1. ProposalsAreDrafts(j)' /\ Published(j)'
    BY <1>1, <1>6 DEF JobInv, ProposalsAreDrafts, Published
  <2>2. IsBody(j) => CandidateKept(j)'
    BY <1>1, <1>2, <1>6, <1>7 DEF JobInv, CandidateKept
  <2> QED BY <1>1, <1>2, <1>6, <1>7, <2>1, <2>2 DEF JobInv
<1>9. AssignInv(j)'
  <2>1. ASSUME NEW q \in Runs, target'[q] = j, HasAssigned(q)'
        PROVE  q # r /\ target[q] = j /\ HasAssigned(q)
    BY <1>3, <1>4, <2>1 DEF HasAssigned, RunKept
  <2>2. ASSUME kind[j] = "body", NEW q \in Runs, target'[q] = j, HasAssigned(q)',
               ~HasApproved(j)
        PROVE  s # "WAITING_MATERIAL"
    BY <2>1, <2>2
  <2> QED BY <1>1, <1>2, <1>6, <1>7, <2>1, <2>2 DEF AssignInv
<1>10. Len(proposals[j]) <= Len(proposals'[j]) /\ ~Fenced(r)'
  BY <1>1, <1>4, <1>6 DEF Fenced
<1> QED BY <1>2, <1>3, <1>4, <1>5, <1>8, <1>9, <1>10, Frame

\* So does every way a run ends.
LEMMA EndsKeep ==
  ASSUME Known, NEW r \in Runs,
         Settled(r) \/ MaterialGap(r) \/ RunFails(r) \/ RunStops(r)
  PROVE  AuthInv'
<1> USE DEF Known
<1>1. PICK j : j = target[r]
  OBVIOUS
<1>2. CASE Settled(r) /\ at[r] = "suspend" /\ SuspendForApproval(r)
  <2>1. PICK ev : Settle(r, "WAITING_APPROVAL", ev)
    BY <1>2 DEF SuspendForApproval, SettleStatus
  <2>2. Fenced(r)
    BY <2>1 DEF Settle
  <2>3. j \in Jobs /\ FencedInv(r, j)
    BY <1>1, <2>2, FencedTarget, RunFacts
  <2>4. ReadyToCommit(j) /\ Over(r)
    BY <1>2, <2>3 DEF FencedInv, Settled
  <2> QED BY <1>1, <2>1, <2>3, <2>4, EndKeeps
<1>3. ASSUME NEW s \in {"SUCCEEDED", "FAILED"}, NEW ev, Settle(r, s, ev), Over(r)
      PROVE  AuthInv'
  <2>1. j \in Jobs
    BY <1>1, <1>3, FencedTarget DEF Settle
  <2> QED BY <1>1, <1>3, <2>1, EndKeeps
<1>4. CASE Settled(r) /\ Complete(r)
  BY <1>3, <1>4 DEF Settled, Complete, SettleStatus
<1>5. CASE RunFails(r)
  BY <1>3, <1>5 DEF RunFails, Fail, SettleWithNotice
<1>6. CASE MaterialGap(r)
  <2>1. PICK ev : Settle(r, "WAITING_MATERIAL", ev)
    BY <1>6 DEF MaterialGap, PauseForGrounding, SettleWithNotice
  <2>2. /\ Fenced(r) /\ Over(r) /\ at[r] \in {"node", "draft", "recover"}
        /\ at[r] = "node" => \/ kind[j] = "compress"
                             \/ draft[r].outcome = "revision"
    BY <1>1, <1>6, <2>1 DEF Settle, MaterialGap, AtNode
  <2>3. /\ j \in Jobs /\ FencedInv(r, j) /\ JobInv(j) /\ AssignInv(j)
        /\ checkpoint[j].proposal \in Nat
    BY <1>1, <2>2, FencedTarget, RunFacts, JobFacts
  <2>4. NothingOnOffer(j)
    BY <2>2, <2>3 DEF FencedInv
  <2>5. ASSUME kind[j] = "body", ~HasApproved(j)
        PROVE  /\ assigned[j] # -1
               /\ \A q \in Runs \ {r} : target[q] = j => ~HasAssigned(q)
    <3>1. CASE at[r] = "recover"
      <4>1. checkpoint[j].proposal # 0
        BY <2>3, <2>5, <3>1 DEF FencedInv
      <4> QED BY <2>3, <2>5, <4>1 DEF JobInv, CandidateKept, AssignInv
    <3>2. CASE at[r] # "recover"
      <4>1. HasAssigned(r)
        BY <2>2, <2>5, <3>2 DEF HasAssigned
      <4> QED BY <1>1, <2>3, <2>5, <4>1 DEF AssignInv
    <3> QED BY <3>1, <3>2
  <2> QED BY <1>1, <2>1, <2>2, <2>3, <2>4, <2>5, EndKeeps
<1>7. CASE RunStops(r)
  <2>1. ~Idle(r) /\ Over(r) /\ EndRun(r) /\ UNCHANGED rowVars
    BY <1>7 DEF RunStops, Abandon
  <2>2. j \in Jobs
    BY <1>1, <2>1, RunFacts
  <2>3. /\ target'[r] = NoJob /\ Idle(r)' /\ proposal'[r] = 0 /\ ~HasAssigned(r)'
        /\ ~Fenced(r)'
        /\ \A q \in Runs \ {r} : RunKept(q)
    BY <2>1 DEF Over, EndRun, Goto, HasAssigned, Idle, Fenced, RunKept, TypeOK, AuthTyped,
                AuthTypes
  <2>4. UNCHANGED <<status, cancelRequested, leaseVars, receipt, authRows>>
    BY <2>1 DEF rowVars, Over
  <2> QED BY <1>1, <2>2, <2>3, <2>4, LocalKeeps
<1> QED BY <1>2, <1>4, <1>5, <1>6, <1>7 DEF Settled

\* The control monitor touches nothing that the invariant speaks of.
LEMMA MonitorKeeps ==
  ASSUME Known, NEW r \in Runs, MonitorStep(r)
  PROVE  AuthInv'
<1> USE DEF Known
<1>1. /\ ~Idle(r)
      /\ UNCHANGED <<status, cancelRequested, leaseVars, receipt, authRows, target, token,
                     execVars>>
  BY DEF MonitorStep, MonitorPoll, rowVars, authVars
<1>2. PICK j : j = target[r] /\ j \in Jobs
  BY <1>1, RunFacts
<1>3. \A q \in Jobs : JobKept(q)
  BY <1>1 DEF JobKept, authRows
<1>4. \A q \in Runs : RunKept(q) /\ (Fenced(q)' => Fenced(q))
  BY <1>1 DEF RunKept, execVars, Fenced, Idle, leaseVars
<1>5. JobInv(j) /\ AssignInv(j) /\ Len(proposals[j]) \in Nat
  BY <1>2, JobFacts
<1>6. JobInv(j)' /\ AssignInv(j)'
  BY <1>2, <1>3, <1>4, <1>5, JobFrame, AssignFrame
<1>7. ASSUME NEW q \in Runs, Fenced(q)', target[q] = j
      PROVE  FencedInv(q, j)'
  <2>1. FencedInv(q, j) /\ checkpoint'[j] = checkpoint[j] /\ proposals'[j] = proposals[j]
    BY <1>2, <1>3, <1>4, <1>7 DEF AuthInv, JobKept
  <2> QED BY <1>2, <1>4, <2>1, FencedFrame
<1>8. Len(proposals[j]) <= Len(proposals'[j])
  BY <1>1, <1>5 DEF authRows
<1> QED BY <1>2, <1>3, <1>4, <1>6, <1>7, <1>8, HandlerFrame

\* No step changes what a job is.
LEMMA KindsStay ==
  ASSUME AuthNext
  PROVE  kind' = kind /\ definition' = definition
<1>1. ASSUME NEW r \in Runs, NEW d, NodeDone(r, d)
      PROVE  kind' = kind /\ definition' = definition
  BY <1>1 DEF NodeDone
<1>2. ASSUME NEW r \in Runs, GraphStep(r)
      PROVE  kind' = kind /\ definition' = definition
  <2>1. CASE CheckingNode(r) \/ DraftStructured(r) \/ GenerateBody(r)
    BY <1>1, <2>1 DEF CheckingNode, DraftStructured, GenerateBody
  <2>2. CASE Find(r) \/ AssignEvidence(r) \/ ShadowCompleted(r)
             \/ StoreProposal(r) \/ ProposalSealed(r)
    BY <2>2 DEF Find, AssignEvidence, ShadowCompleted, StoreProposal,
                ProposalSealed
  <2>3. CASE RecoverCandidate(r) \/ CommitApproved(r) \/ Report(r) \/ Settled(r)
    BY <2>3 DEF RecoverCandidate, CommitApproved, Report, Settled, Over, authRows
  <2> QED BY <1>2, <2>1, <2>2, <2>3 DEF GraphStep
<1>3. ASSUME NEW r \in Runs, MonitorStep(r) \/ MaterialGap(r) \/ RunFails(r) \/ RunStops(r)
      PROVE  kind' = kind /\ definition' = definition
  BY <1>3 DEF MonitorStep, MaterialGap, RunFails, RunStops, Over, authVars, authRows
<1>4. ASSUME NEW r \in Runs, NEW j \in Jobs, ClaimJob(r, j)
      PROVE  kind' = kind /\ definition' = definition
  BY <1>4 DEF ClaimJob, authRows
<1>5. ASSUME NEW j \in Jobs, \/ CreateJob(j) \/ CancelJob(j) \/ ResumeJob(j) \/ LoseLease(j)
                             \/ ApproveProposal(j) \/ ProposalExpires(j)
      PROVE  kind' = kind /\ definition' = definition
  BY <1>5 DEF CreateJob, CancelJob, ResumeJob, LoseLease, ApproveProposal, ProposalExpires,
              authVars, authRows
<1> QED BY <1>2, <1>3, <1>4, <1>5 DEF AuthNext

\* Every step keeps the invariant.
LEMMA StepKeeps ==
  ASSUME TypeOK, TypeOK', TokensIdentifyRuns, AuthTyped, AuthInv, [AuthNext]_allVars
  PROVE  (AuthTyped /\ AuthInv)'
<1>1. OneOpenProposal /\ CommittedHasReceipt
  BY DEF AuthInv, JobInv, OneOpenProposal, CommittedHasReceipt, Published
<1>2. AuthTyped'
  BY <1>1, StepTyped
<1>3. CASE UNCHANGED allVars
  <2>1. UNCHANGED <<status, cancelRequested, leaseVars, receipt, authRows, execVars, target,
                    token>>
    BY <1>3 DEF allVars, authVars, vars, rowVars, runVars
  <2>2. AuthInv'
    BY <2>1 DEF AuthInv, JobInv, AssignInv, NumbersExist, FencedInv, Fenced, Idle,
                HasAssigned, ProposalsAreDrafts, Published, CandidateKept, NothingOnOffer,
                ReadyToCommit, HasApproved, authRows, execVars, leaseVars
  <2> QED BY <1>2, <2>2
<1>4. CASE AuthNext
  <2>1. Known
    BY <1>2, <1>4, KindsStay DEF Known
  <2>2. ASSUME NEW r \in Runs, GraphStep(r)
        PROVE  AuthInv'
    BY <2>1, <2>2, FindKeeps, NodesKeep, AssignKeeps, ShadowKeeps, StoreKeeps, SealedKeeps,
       RecoverKeeps, CommitKeeps, ReportKeeps, EndsKeep
    DEF GraphStep
  <2>3. ASSUME NEW r \in Runs, NEW j \in Jobs, ClaimJob(r, j)
        PROVE  AuthInv'
    BY <2>1, <2>3, ClaimKeeps
  <2>4. ASSUME NEW r \in Runs, MonitorStep(r) \/ MaterialGap(r) \/ RunFails(r) \/ RunStops(r)
        PROVE  AuthInv'
    BY <2>1, <2>4, MonitorKeeps, EndsKeep
  <2>5. ASSUME NEW j \in Jobs, \/ CreateJob(j) \/ CancelJob(j) \/ ResumeJob(j) \/ LoseLease(j)
                               \/ ApproveProposal(j) \/ ProposalExpires(j)
        PROVE  AuthInv'
    BY <2>1, <2>5, RowOnlyKeeps, ResumeKeeps, ApproveKeeps, ExpiryKeeps
  <2> QED BY <1>2, <1>4, <2>2, <2>3, <2>4, <2>5 DEF AuthNext
<1> QED BY <1>3, <1>4

-----------------------------------------------------------------------------
(* The theorems.                                                           *)

\* The inductive invariant holds of every behaviour.
THEOREM AuthoringInvariance == AuthSpec => [](AuthTyped /\ AuthInv)
<1>1. AuthInit => AuthTyped /\ AuthInv
  <2> SUFFICES ASSUME AuthInit
               PROVE  AuthTyped /\ AuthInv
    OBVIOUS
  <2>1. PICK c, d : c = NoCheckpoint /\ d = NoDraft
    OBVIOUS
  <2>2. /\ c \in Checkpoint /\ c.draft = NoPayload /\ c.sealed = NoPayload /\ c.proposal = 0
        /\ d \in Draft /\ NoPayload \in Payload
    BY <2>1, CheckpointTypes DEF NoCheckpoint
  <2>3. /\ \A r \in Runs : Idle(r) /\ at[r] = "idle" /\ target[r] = NoJob /\ proposal[r] = 0
        /\ \A j \in Jobs : /\ receipt[j] = 0 /\ checkpoint[j] = c /\ artifact[j] = NoPayload
                           /\ proposals[j] = <<>> /\ status[j] = "ABSENT"
                           /\ assigned[j] = -1
    BY <2>1 DEF AuthInit, Init, Idle
  <2>4. AuthTypes
    <3>1. 0 \in 0..Len(Nodes) /\ "idle" \in Places
      BY NodeNumbers DEF Places
    <3>2. <<>> \in Seq(Proposal)
      OBVIOUS
    <3>3. -1 \in Evidence
      BY MaxFenceAssumption DEF Evidence
    <3> QED BY <2>1, <2>2, <3>1, <3>2, <3>3 DEF AuthInit, AuthTypes
  <2>5. AuthTyped
    BY <2>3, <2>4 DEF AuthTyped, PlacesFitClaims, DraftsFit
  <2>6. ASSUME NEW j \in Jobs
        PROVE  JobInv(j) /\ AssignInv(j)
    <3>1. AssignInv(j)
      BY <2>3 DEF AssignInv, HasAssigned
    <3>2. Len(proposals[j]) = 0
      BY <2>3
    <3> QED BY <2>2, <2>3, <3>1, <3>2
            DEF JobInv, ProposalsAreDrafts, Published, CandidateKept, NothingOnOffer
  <2> QED BY <2>3, <2>5, <2>6 DEF AuthInv, Fenced
<1>2. IInv /\ IInv' /\ AuthTyped /\ AuthInv /\ [AuthNext]_allVars => (AuthTyped /\ AuthInv)'
  BY StepKeeps DEF IInv
<1>3. AuthSpec => []IInv
  BY AuthoringImplementsStore, Invariance, PTL
<1> QED BY <1>1, <1>2, <1>3, PTL DEF AuthSpec

\* Rows and locals are well typed, and a run never names a proposal that does
\* not exist.
THEOREM AuthTypeCorrect == AuthSpec => []AuthTypeOK
<1>1. TypeOK /\ AuthTyped /\ AuthInv => AuthTypeOK
  <2> SUFFICES ASSUME TypeOK, AuthTyped, AuthInv
               PROVE  AuthTypeOK
    OBVIOUS
  <2>1. \A r \in Runs : proposal[r] # 0 => proposal[r] <= Len(proposals[target[r]])
    BY DEF AuthInv, NumbersExist
  <2> QED BY <2>1 DEF AuthTyped, AuthTypes, PlacesFitClaims, AuthTypeOK
<1>2. AuthSpec => []TypeOK
  BY AuthoringImplementsStore, TypeCorrect, PTL
<1> QED BY <1>1, <1>2, AuthoringInvariance, PTL

\* At most one proposal of a job is open, and it is the newest.
THEOREM OneOpen == AuthSpec => []OneOpenProposal
<1>1. AuthInv => OneOpenProposal
  BY DEF AuthInv, JobInv, OneOpenProposal
<1> QED BY <1>1, AuthoringInvariance, PTL

\* What is published is the one proposal that was approved and committed.
THEOREM ApprovedIsPublished == AuthSpec => []PublishedIsApproved
<1>1. AuthInv => PublishedIsApproved
  <2> SUFFICES ASSUME AuthInv, NEW j \in Jobs,
                      NEW done, done = {i \in 1..Len(proposals[j]) :
                                          proposals[j][i].st = "COMMITTED"}
               PROVE  /\ artifact[j] # NoPayload <=> receipt[j] # 0
                      /\ receipt[j] # 0 => Cardinality(done) = 1 /\ definition[j] = "enforce"
                      /\ \A i \in done : proposals[j][i].payload = artifact[j]
    BY DEF PublishedIsApproved
  <2>1. Published(j) /\ ProposalsAreDrafts(j)
    BY DEF AuthInv, JobInv
  <2>2. ASSUME receipt[j] # 0
        PROVE  /\ Cardinality(done) = 1 /\ definition[j] = "enforce"
               /\ \A i \in done : proposals[j][i].payload = artifact[j]
    <3>1. PICK i \in 1..Len(proposals[j]) :
            /\ \A k \in 1..Len(proposals[j]) : proposals[j][k].st = "COMMITTED" <=> k = i
            /\ proposals[j][i].payload = artifact[j]
      BY <2>1, <2>2 DEF Published
    <3>2. done = {i}
      BY <3>1
    <3>3. Cardinality(done) = 1
      BY <3>2, FS_Singleton
    <3> QED BY <2>1, <3>1, <3>2, <3>3 DEF ProposalsAreDrafts
  <2>3. receipt[j] = 0 => done = {}
    BY <2>1 DEF Published
  <2> QED BY <2>1, <2>2, <2>3 DEF Published
<1> QED BY <1>1, AuthoringInvariance, PTL

\* A job that waits for approval has all that its commit will need: of a body,
\* the candidate that was sealed from the evidence still assigned to the job.
THEOREM WaitingCommittable == AuthSpec => []WaitingIsCommittable
<1>1. AuthInv => WaitingIsCommittable
  <2> SUFFICES ASSUME AuthInv, NEW j \in Jobs, status[j] = "WAITING_APPROVAL",
                      NEW i, i = Len(proposals[j])
               PROVE  /\ i # 0
                      /\ proposals[j][i].st = "ACTIVE"
                      /\ checkpoint[j].proposal = i
                      /\ IsBody(j) =>
                           /\ checkpoint[j].sealed = proposals[j][i].payload
                           /\ checkpoint[j].sealed.evidence # -1
                           /\ assigned[j] = checkpoint[j].sealed.evidence
    BY DEF WaitingIsCommittable
  <2>1. ReadyToCommit(j) /\ ProposalsAreDrafts(j) /\ (IsBody(j) => CandidateKept(j))
    BY DEF AuthInv, JobInv
  <2> QED BY <2>1 DEF ReadyToCommit, ProposalsAreDrafts, CandidateKept
<1> QED BY <1>1, AuthoringInvariance, PTL

\* Nothing is published for a job whose approval has run into a dead end.
THEOREM DeadEndsStay == AuthSpec => DeadEndPublishesNothing
<1>1. TypeOK /\ TypeOK' /\ AuthTyped /\ AuthInv /\ [AuthNext]_allVars =>
        [\A j \in Jobs : DeadEnd(j) => artifact'[j] = artifact[j]]_allVars
  <2> SUFFICES ASSUME TypeOK, AuthTyped, AuthInv, AuthNext, NEW j \in Jobs,
                      DeadEnd(j), artifact'[j] # artifact[j]
               PROVE  FALSE
    OBVIOUS
  <2>1. PICK r \in Runs : CommitApproved(r) /\ artifact' # artifact
    <3>1. ASSUME NEW r \in Runs, NEW d, NodeDone(r, d)
          PROVE  artifact' = artifact
      BY <3>1 DEF NodeDone
    <3>2. ASSUME NEW r \in Runs, GraphStep(r), ~CommitApproved(r)
          PROVE  artifact' = artifact
      <4>1. CASE CheckingNode(r) \/ DraftStructured(r) \/ GenerateBody(r)
        BY <3>1, <4>1 DEF CheckingNode, DraftStructured, GenerateBody
      <4>2. CASE Find(r) \/ AssignEvidence(r) \/ ShadowCompleted(r)
                 \/ StoreProposal(r) \/ ProposalSealed(r)
        BY <4>2 DEF Find, AssignEvidence, ShadowCompleted, StoreProposal,
                    ProposalSealed
      <4>3. CASE RecoverCandidate(r) \/ Report(r) \/ Settled(r)
        BY <4>3 DEF RecoverCandidate, Report, Settled, Over, authRows
      <4> QED BY <3>2, <4>1, <4>2, <4>3 DEF GraphStep
    <3>3. ASSUME NEW r \in Runs,
                 \/ MonitorStep(r) \/ MaterialGap(r) \/ RunFails(r) \/ RunStops(r)
                 \/ \E q \in Jobs : ClaimJob(r, q)
          PROVE  artifact' = artifact
      BY <3>3 DEF MonitorStep, MaterialGap, RunFails, RunStops, ClaimJob, Over, authVars,
                  authRows
    <3>4. ASSUME NEW q \in Jobs,
                 \/ CreateJob(q) \/ CancelJob(q) \/ ResumeJob(q) \/ LoseLease(q)
                 \/ ApproveProposal(q) \/ ProposalExpires(q)
          PROVE  artifact' = artifact
      BY <3>4 DEF CreateJob, CancelJob, ResumeJob, LoseLease, ApproveProposal,
                  ProposalExpires, authVars, authRows
    <3> QED BY <3>2, <3>3, <3>4 DEF AuthNext
  <2>2. PICK t, i : t = target[r] /\ i = Latest(t, {"APPROVED", "COMMITTED"})
    OBVIOUS
  <2>3. /\ at[r] = "commit" /\ i # 0 /\ receipt[t] = 0
        /\ Committable(r, proposals[t][i]) /\ Publish(r)
        /\ artifact' = [artifact EXCEPT ![t] = proposals[t][i].payload]
    BY <2>1, <2>2 DEF CommitApproved, ReceiptFound, LeaveReceipt, SaveArtifact
  <2>4. t = j
    BY <2>3 DEF AuthTyped, AuthTypes
  <2>5. Fenced(r) /\ FencedInv(r, j) /\ JobInv(j)
    BY <2>2, <2>3, <2>4 DEF Publish, AuthInv
  <2>6. i = Len(proposals[j])
    <3>1. OneOpenProposal /\ CommittedHasReceipt
      BY DEF AuthInv, JobInv, OneOpenProposal, CommittedHasReceipt, Published
    <3> QED BY <2>2, <2>3, <2>4, <3>1, LatestApprovedIs DEF AuthTyped
  <2>7. proposals[j][i].live /\ (IsBody(j) => checkpoint[j].sealed # NoPayload)
    BY <2>2, <2>3, <2>4, <2>5 DEF Committable, FencedInv
  <2>8. PICK k \in 1..Len(proposals[j]) :
          /\ proposals[j][k].st # "COMMITTED"
          /\ \/ ~proposals[j][k].live
             \/ IsBody(j) /\ checkpoint[j].sealed = NoPayload
    BY DEF DeadEnd
  <2>9. k = i
    <3>1. proposals[j][k].st \in {"ACTIVE", "APPROVED", "COMMITTED"}
      BY ProposalTypes DEF AuthTyped
    <3> QED BY <2>5, <2>6, <2>8, <3>1 DEF JobInv
  <2> QED BY <2>7, <2>8, <2>9
<1>2. AuthSpec => []TypeOK
  BY AuthoringImplementsStore, TypeCorrect, PTL
<1> QED BY <1>1, <1>2, AuthoringInvariance, PTL DEF AuthSpec, DeadEndPublishesNothing
=============================================================================
