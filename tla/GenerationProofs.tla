-------------------------- MODULE GenerationProofs --------------------------
(***************************************************************************)
(* Proofs about Generation, for any number of jobs, engine runs, claims,   *)
(* attempts and tokens.                                                    *)
(***************************************************************************)
EXTENDS Generation, WorkflowStoreProofs, FiniteSetTheorems

-----------------------------------------------------------------------------
(* Generation implements WorkflowStore.                                    *)

\* The events the executor yields are progress events of the store.
LEMMA YieldStep ==
  ASSUME NEW r \in Runs, NEW kind \in GenKinds, NEW phase, NEW n, NEW out,
         Yield(r, kind, phase, n, out)
  PROVE  RunStep(r)
<1>1. PersistProgress(r, kind, 0)
  BY DEF Yield
<1> QED BY <1>1, KindsAssumption, PayloadsAssumption DEF RunStep

\* Every step of execute is a step of the store or leaves its rows alone.
LEMMA ProceedStep ==
  ASSUME NEW r \in Runs, Proceed(r)
  PROVE  RunStep(r) \/ UNCHANGED vars
<1>1. CASE Open(r)
  <2>1. PICK kind \in GenKinds : Yield(r, kind, "model_started", attempt[r] + 1, <<>>)
    BY <1>1 DEF Open, GenKinds
  <2> QED BY <2>1, YieldStep
<1>2. CASE RetrieveNothing(r) \/ AssignEvidence(r) \/ FindCommitted(r) \/ Verify(r)
  BY <1>2 DEF RetrieveNothing, AssignEvidence, FindCommitted, Verify
<1>3. CASE Token(r) \/ ModelCompleted(r) \/ BusinessCommitted(r) \/ ReportDone(r)
  BY <1>3, YieldStep
  DEF Token, ModelCompleted, BusinessCommitted, ReportDone, GenKinds
<1>4. CASE PublishDraft(r)
  BY <1>4 DEF PublishDraft, RunStep
<1>5. CASE CompleteJob(r) \/ PauseJob(r) \/ FailOnReassignment(r)
  BY <1>5 DEF CompleteJob, PauseJob, FailOnReassignment, RunStep
<1> QED BY <1>1, <1>2, <1>3, <1>4, <1>5 DEF Proceed

\* So is every other step of a behaviour of Generation.
LEMMA GenStep ==
  ASSUME GenNext
  PROVE  Next \/ UNCHANGED vars
<1>1. ASSUME NEW j \in Jobs, HandlerStep(j)
      PROVE  Next
  BY <1>1 DEF HandlerStep, CreateJob, CancelJob, ResumeJob, LoseLease, RowStep,
              Next
<1>2. ASSUME NEW r \in Runs, NEW j \in Jobs, ClaimJob(r, j)
      PROVE  Next
  BY <1>2 DEF ClaimJob, RunStep, Next
<1>3. ASSUME NEW r \in Runs, AbandonJob(r) \/ Monitor(r) \/ FailOnError(r)
      PROVE  Next
  BY <1>3 DEF AbandonJob, Monitor, FailOnError, RunStep, Next
<1> QED BY <1>1, <1>2, <1>3, ProceedStep DEF GenNext, CalmNext, Next

\* The executor only does to the rows what WorkflowStore allows any run: its
\* transactions are fenced, and it writes nothing outside them.
THEOREM ImplementsStore == GenSpec => Spec
<1>1. GenInit => Init
  BY DEF GenInit
<1>2. [GenNext]_allVars => [Next]_vars
  BY GenStep DEF allVars
<1> QED BY <1>1, <1>2, PTL DEF GenSpec, Spec

-----------------------------------------------------------------------------
(* Type correctness.                                                       *)

\* Math.max of two attempt numbers is one of them and no smaller than
\* either.
LEMMA RestoredAttemptIsMax ==
  ASSUME NEW j \in Jobs, generationAttempt[j] \in Nat, checkpoint[j].attempt \in Nat
  PROVE  /\ RestoredAttempt(j) \in {generationAttempt[j], checkpoint[j].attempt}
         /\ RestoredAttempt(j) >= generationAttempt[j]
         /\ RestoredAttempt(j) >= checkpoint[j].attempt
<1> DEFINE S == {generationAttempt[j], checkpoint[j].attempt}
<1>1. \E x \in S : \A y \in S : x >= y
  <2>1. CASE generationAttempt[j] >= checkpoint[j].attempt
    BY <2>1
  <2>2. CASE ~(generationAttempt[j] >= checkpoint[j].attempt)
    BY <2>2
  <2> QED BY <2>1, <2>2
<1>2. Max(S) \in S /\ \A y \in S : Max(S) >= y
  BY <1>1 DEF Max
<1> QED BY <1>2 DEF RestoredAttempt

\* The executor's own columns and locals.
GenTypes ==
  /\ workflowType \in [Jobs -> WorkflowType]
  /\ checkpoint \in [Jobs -> [phase : Phases \cup {"none"}, attempt : Nat,
                              out : Seq(1..MaxFence)]]
  /\ generationAttempt \in [Jobs -> Nat]
  /\ assigned \in [Jobs -> BOOLEAN]
  /\ artifact \in [Jobs -> Seq(1..MaxFence)]
  /\ at \in [Runs -> Places]
  /\ restored \in [Runs -> Phases \cup {"none"}]
  /\ attempt \in [Runs -> Nat]
  /\ output \in [Runs -> Seq(1..MaxFence)]

\* A place is left exactly when a claim is.
PlacesFitClaims == \A r \in Runs : at[r] = "idle" <=> Idle(r)

\* A well-typed checkpoint.
LEMMA CheckpointType ==
  ASSUME NEW phase \in Phases \cup {"none"}, NEW n \in Nat,
         NEW out \in Seq(1..MaxFence)
  PROVE  Checkpoint(phase, n, out) \in
           [phase : Phases \cup {"none"}, attempt : Nat, out : Seq(1..MaxFence)]
  BY DEF Checkpoint

\* The transaction behind a yield: only a fenced run passes it, and it keeps
\* the types.
LEMMA YieldTypes ==
  ASSUME TypeOK, GenTypes, NEW r \in Runs, NEW kind, NEW phase \in Phases,
         NEW n \in Nat, NEW out \in Seq(1..MaxFence),
         Yield(r, kind, phase, n, out)
  PROVE  /\ target[r] \in Jobs
         /\ token[r] \in 1..MaxFence
         /\ token' = token
         /\ workflowType' \in [Jobs -> WorkflowType]
         /\ checkpoint' \in [Jobs -> [phase : Phases \cup {"none"}, attempt : Nat,
                                      out : Seq(1..MaxFence)]]
         /\ generationAttempt' \in [Jobs -> Nat]
         /\ assigned' \in [Jobs -> BOOLEAN]
         /\ artifact' \in [Jobs -> Seq(1..MaxFence)]
<1>1. /\ Fenced(r) /\ token' = token
      /\ checkpoint' = [checkpoint EXCEPT ![target[r]] = Checkpoint(phase, n, out)]
      /\ generationAttempt' = [generationAttempt EXCEPT ![target[r]] = n]
      /\ UNCHANGED <<workflowType, assigned, artifact>>
  BY DEF Yield, PersistProgress, runVars
<1>2. target[r] \in Jobs /\ token[r] \in 1..MaxFence
  BY <1>1, MaxFenceAssumption DEF TypeOK, Fenced, Idle
<1>3. Checkpoint(phase, n, out) \in
        [phase : Phases \cup {"none"}, attempt : Nat, out : Seq(1..MaxFence)]
  BY CheckpointType
<1> HIDE DEF Checkpoint
<1> QED BY <1>1, <1>2, <1>3 DEF GenTypes

\* Every step of execute keeps the types, and stays at a place.
LEMMA ProceedTypes ==
  ASSUME TypeOK, GenTypes, PlacesFitClaims, NEW r \in Runs, Proceed(r)
  PROVE  GenTypes' /\ PlacesFitClaims'
<1> USE DEF Places, Goto
<1>e. <<>> \in Seq(1..MaxFence)
  OBVIOUS
<1>l. ASSUME Leave(r), EndRun(r)
      PROVE  GenTypes' /\ PlacesFitClaims'
  <2>1. GenTypes'
    BY <1>l, <1>e DEF Leave, GenTypes, jobVars, Phases
  <2>2. PlacesFitClaims'
    BY <1>l DEF Leave, EndRun, GenTypes, TypeOK, PlacesFitClaims, Idle
  <2> QED BY <2>1, <2>2
<1>1. CASE Open(r)
  <2>1. PICK kind : Yield(r, kind, "model_started", attempt[r] + 1, <<>>)
    BY <1>1 DEF Open
  <2>2. attempt[r] + 1 \in Nat
    BY DEF GenTypes
  <2>3. /\ token' = token
        /\ workflowType' \in [Jobs -> WorkflowType]
        /\ checkpoint' \in [Jobs -> [phase : Phases \cup {"none"}, attempt : Nat,
                                     out : Seq(1..MaxFence)]]
        /\ generationAttempt' \in [Jobs -> Nat]
        /\ assigned' \in [Jobs -> BOOLEAN]
        /\ artifact' \in [Jobs -> Seq(1..MaxFence)]
    BY <1>e, <2>1, <2>2, YieldTypes DEF Phases
  <2> QED BY <1>1, <1>e, <2>2, <2>3 DEF Open, GenTypes, PlacesFitClaims, Idle
<1>2. CASE RetrieveNothing(r) \/ AssignEvidence(r) \/ FindCommitted(r) \/ Verify(r)
  <2>1. CASE RetrieveNothing(r)
    BY <2>1 DEF RetrieveNothing, GenTypes, PlacesFitClaims, Idle, vars, runVars, jobVars
  <2>4. CASE AssignEvidence(r)
    BY <2>4 DEF AssignEvidence, GenTypes, PlacesFitClaims, Idle, vars, runVars, jobVars
  <2>2. CASE FindCommitted(r)
    BY <2>2 DEF FindCommitted, GenTypes, PlacesFitClaims, Idle, vars, runVars, jobVars
  <2>3. CASE Verify(r)
    BY <2>3 DEF Verify, GenTypes, PlacesFitClaims, Idle, vars, runVars, jobVars
  <2> QED BY <1>2, <2>1, <2>2, <2>3, <2>4
<1>3. CASE Token(r)
  <2>1. attempt[r] \in Nat
    BY DEF GenTypes
  <2>2. /\ token[r] \in 1..MaxFence
        /\ token' = token
        /\ workflowType' \in [Jobs -> WorkflowType]
        /\ checkpoint' \in [Jobs -> [phase : Phases \cup {"none"}, attempt : Nat,
                                     out : Seq(1..MaxFence)]]
        /\ generationAttempt' \in [Jobs -> Nat]
        /\ assigned' \in [Jobs -> BOOLEAN]
        /\ artifact' \in [Jobs -> Seq(1..MaxFence)]
    BY <1>3, <1>e, <2>1, YieldTypes DEF Token, Phases
  <2>3. output' \in [Runs -> Seq(1..MaxFence)]
    BY <1>3, <2>2 DEF Token, GenTypes
  <2> QED BY <1>3, <2>2, <2>3 DEF Token, GenTypes, PlacesFitClaims, Idle
<1>4. CASE ModelCompleted(r) \/ BusinessCommitted(r) \/ ReportDone(r)
  <2>1. attempt[r] \in Nat /\ output[r] \in Seq(1..MaxFence)
    BY DEF GenTypes
  <2>2. /\ token' = token
        /\ workflowType' \in [Jobs -> WorkflowType]
        /\ checkpoint' \in [Jobs -> [phase : Phases \cup {"none"}, attempt : Nat,
                                     out : Seq(1..MaxFence)]]
        /\ generationAttempt' \in [Jobs -> Nat]
        /\ assigned' \in [Jobs -> BOOLEAN]
        /\ artifact' \in [Jobs -> Seq(1..MaxFence)]
    BY <1>4, <1>e, <2>1, YieldTypes
    DEF ModelCompleted, BusinessCommitted, ReportDone, Phases
  <2> QED BY <1>4, <2>2 DEF ModelCompleted, BusinessCommitted, ReportDone,
                            GenTypes, PlacesFitClaims, Idle
<1>5. CASE PublishDraft(r)
  <2>1. output[r] \in Seq(1..MaxFence) /\ token' = token
    BY <1>5 DEF PublishDraft, Publish, runVars, GenTypes
  <2> QED BY <1>5, <2>1 DEF PublishDraft, GenTypes, PlacesFitClaims, Idle
<1>6. CASE CompleteJob(r) \/ PauseJob(r) \/ FailOnReassignment(r)
  BY <1>6, <1>l DEF CompleteJob, PauseJob, FailOnReassignment, Complete,
      PauseForGrounding, Fail, SettleStatus, SettleWithNotice, Settle
<1> QED BY <1>1, <1>2, <1>3, <1>4, <1>5, <1>6 DEF Proceed

\* So do the handlers, a claim and the ways a run ends.
LEMMA OtherTypes ==
  ASSUME TypeOK, GenTypes, PlacesFitClaims,
         \/ \E j \in Jobs : HandlerStep(j)
         \/ \E r \in Runs, j \in Jobs : ClaimJob(r, j)
         \/ \E r \in Runs : AbandonJob(r) \/ Monitor(r) \/ FailOnError(r)
  PROVE  GenTypes' /\ PlacesFitClaims'
<1>e. <<>> \in Seq(1..MaxFence)
  OBVIOUS
<1>1. ASSUME NEW j \in Jobs, HandlerStep(j)
      PROVE  GenTypes' /\ PlacesFitClaims'
  <2>1. CASE CreateJob(j) \/ CancelJob(j) \/ LoseLease(j)
    BY <2>1 DEF CreateJob, CancelJob, LoseLease, Create, Cancel, LeaseExpires,
                GenTypes, PlacesFitClaims, Idle, genVars, jobVars, execVars, runVars
  <2>2. CASE ResumeJob(j)
    <3>1. NoCheckpoint \in [phase : Phases \cup {"none"}, attempt : Nat,
                            out : Seq(1..MaxFence)]
      BY <1>e, CheckpointType DEF NoCheckpoint
    <3> HIDE DEF NoCheckpoint
    <3> QED BY <2>2, <3>1 DEF ResumeJob, ResumeMaterial, GenTypes,
                              PlacesFitClaims, Idle, execVars, runVars
  <2> QED BY <1>1, <2>1, <2>2 DEF HandlerStep
<1>2. ASSUME NEW r \in Runs, NEW j \in Jobs, ClaimJob(r, j)
      PROVE  GenTypes' /\ PlacesFitClaims'
  <2>1. /\ checkpoint[j].phase \in Phases \cup {"none"}
        /\ checkpoint[j].attempt \in Nat
        /\ checkpoint[j].out \in Seq(1..MaxFence)
        /\ generationAttempt[j] \in Nat
    BY DEF GenTypes
  <2>2. RestoredAttempt(j) \in Nat
    BY <2>1, RestoredAttemptIsMax
  <2>3. Entry(checkpoint[j].phase) \in Places \ {"idle"}
    BY <2>1 DEF Entry, Phases, Places
  <2>4. fencingToken[j] + 1 # 0 /\ token' = [token EXCEPT ![r] = fencingToken[j] + 1]
    BY <1>2, MaxFenceAssumption DEF ClaimJob, Claim, TypeOK
  <2>5. GenTypes'
    BY <1>2, <2>1, <2>2, <2>3 DEF ClaimJob, GenTypes, jobVars
  <2>6. PlacesFitClaims'
    BY <1>2, <2>3, <2>4 DEF ClaimJob, PlacesFitClaims, Idle, GenTypes, TypeOK
  <2> QED BY <2>5, <2>6
<1>3. ASSUME NEW r \in Runs, AbandonJob(r) \/ FailOnError(r)
      PROVE  GenTypes' /\ PlacesFitClaims'
  <2>1. Leave(r) /\ EndRun(r)
    BY <1>3 DEF AbandonJob, FailOnError, Abandon, Fail, SettleWithNotice, Settle
  <2>2. GenTypes'
    BY <2>1, <1>e DEF Leave, GenTypes, jobVars, Phases, Places
  <2>3. PlacesFitClaims'
    BY <2>1 DEF Leave, EndRun, GenTypes, TypeOK, PlacesFitClaims, Idle
  <2> QED BY <2>2, <2>3
<1>4. ASSUME NEW r \in Runs, Monitor(r)
      PROVE  GenTypes' /\ PlacesFitClaims'
  BY <1>4 DEF Monitor, MonitorPoll, GenTypes, PlacesFitClaims, Idle, genVars,
              jobVars, execVars
<1> QED BY <1>1, <1>2, <1>3, <1>4

\* A run always stands at a place of execute exactly while it holds a claim,
\* and checkpoints, attempts and drafts keep their types.
THEOREM GenTypeCorrect == GenSpec => []GenTypeOK
<1>1. GenInit => GenTypeOK
  <2> SUFFICES ASSUME GenInit PROVE GenTypeOK
    OBVIOUS
  <2>1. TypeOK
    BY TypeInit DEF GenInit
  <2>2. <<>> \in Seq(1..MaxFence)
    OBVIOUS
  <2>3. NoCheckpoint \in
          [phase : Phases \cup {"none"}, attempt : Nat, out : Seq(1..MaxFence)]
    BY <2>2, CheckpointType DEF NoCheckpoint
  <2> HIDE DEF NoCheckpoint
  <2> QED BY <2>1, <2>2, <2>3 DEF GenInit, Init, GenTypeOK, Places, Idle
<1>2. GenTypeOK /\ TypeOK' /\ [GenNext]_allVars => GenTypeOK'
  <2> SUFFICES ASSUME GenTypeOK, TypeOK', [GenNext]_allVars
               PROVE  GenTypeOK'
    OBVIOUS
  <2>1. TypeOK /\ GenTypes /\ PlacesFitClaims
    BY DEF GenTypeOK, GenTypes, PlacesFitClaims
  <2>2. GenTypes' /\ PlacesFitClaims'
    <3>1. CASE UNCHANGED allVars
      BY <2>1, <3>1 DEF allVars, genVars, jobVars, execVars, vars, runVars,
                        GenTypes, PlacesFitClaims, Idle
    <3>2. CASE GenNext
      BY <2>1, <3>2, ProceedTypes, OtherTypes DEF GenNext, CalmNext
    <3> QED BY <3>1, <3>2
  <2> QED BY <2>2 DEF GenTypeOK, GenTypes, PlacesFitClaims
<1>3. GenSpec => []TypeOK
  BY ImplementsStore, TypeCorrect, PTL
<1> QED BY <1>1, <1>2, <1>3, PTL DEF GenSpec

-----------------------------------------------------------------------------
(* How a log grows, and what its growth keeps.                             *)

\* new is old with more events behind it, none of them of the given kinds.
ExtendsWithout(old, new, kinds) ==
  /\ Len(old) <= Len(new)
  /\ \A i \in 1..Len(old) : new[i] = old[i]
  /\ \A i \in (Len(old) + 1)..Len(new) : new[i].kind \notin kinds

\* The text of the newest attempt, wherever that attempt was opened.
IsNewestDraft(log, text) == \E o \in 1..Len(log) : IsDraftOf(log, o, text)

\* Every finished model call was followed by a pause for material.
Retired(log) ==
  \A i \in Positions(log, {"model_completed"}) :
    \E m \in i..Len(log) : log[m].st = "WAITING_MATERIAL"

\* No attempt was opened behind a finished one without such a pause.
NeverRepeats(log) ==
  \A i \in Positions(log, {"model_completed"}) :
  \A k \in Positions(log, Openings) :
    i < k => \E m \in i..k : log[m].st = "WAITING_MATERIAL"

\* appendEvent extends a log by one event of a known kind.
LEMMA AppendExtends ==
  ASSUME NEW old \in Seq(Event), NEW e \in Event, NEW kinds, e.kind \notin kinds
  PROVE  ExtendsWithout(old, Append(old, e), kinds)
  BY DEF ExtendsWithout

\* Two extensions make one.
LEMMA ExtendsTwice ==
  ASSUME NEW a \in Seq(Event), NEW b \in Seq(Event), NEW c \in Seq(Event),
         NEW kinds, ExtendsWithout(a, b, kinds), ExtendsWithout(b, c, kinds)
  PROVE  ExtendsWithout(a, c, kinds)
<1>1. Len(a) \in Nat /\ Len(b) \in Nat /\ Len(c) \in Nat
  OBVIOUS
<1>2. ASSUME NEW i \in (Len(a) + 1)..Len(c)
      PROVE  c[i].kind \notin kinds
  <2>1. CASE i \in (Len(a) + 1)..Len(b)
    <3>1. c[i] = b[i]
      BY <1>1, <2>1 DEF ExtendsWithout
    <3> QED BY <2>1, <3>1 DEF ExtendsWithout
  <2>2. CASE i \in (Len(b) + 1)..Len(c)
    BY <2>2 DEF ExtendsWithout
  <2> QED BY <1>1, <2>1, <2>2
<1>3. ASSUME NEW i \in 1..Len(a)
      PROVE  c[i] = a[i]
  BY <1>1 DEF ExtendsWithout
<1> QED BY <1>1, <1>2, <1>3 DEF ExtendsWithout

\* Fewer kinds are excluded as well.
LEMMA ExtendsWeaken ==
  ASSUME NEW old, NEW new, NEW kinds, NEW fewer \in SUBSET kinds,
         ExtendsWithout(old, new, kinds)
  PROVE  ExtendsWithout(old, new, fewer)
  BY DEF ExtendsWithout

\* Events of other kinds leave the positions of a kind alone.
LEMMA PositionsKept ==
  ASSUME NEW old \in Seq(Event), NEW new \in Seq(Event), NEW kinds,
         ExtendsWithout(old, new, kinds)
  PROVE  Positions(new, kinds) = Positions(old, kinds)
<1>1. Len(old) \in Nat /\ Len(new) \in Nat
  OBVIOUS
<1> QED BY <1>1 DEF ExtendsWithout, Positions

\* An event of one of the kinds adds the last position.
LEMMA PositionAdded ==
  ASSUME NEW old \in Seq(Event), NEW e \in Event, NEW kinds, e.kind \in kinds
  PROVE  Positions(Append(old, e), kinds) = Positions(old, kinds) \cup {Len(old) + 1}
  BY DEF Positions

\* A draft stays the newest one while no attempt is opened and no token
\* appended.
LEMMA DraftKept ==
  ASSUME NEW old \in Seq(Event), NEW new \in Seq(Event), NEW text,
         NEW o \in 1..Len(old), Len(text) \in Nat,
         ExtendsWithout(old, new, Openings \cup {"token"}),
         IsDraftOf(old, o, text)
  PROVE  IsDraftOf(new, o, text) /\ o \in 1..Len(new)
<1>1. Len(old) \in Nat /\ Len(new) \in Nat
  OBVIOUS
<1>2. /\ Positions(new, Openings) = Positions(old, Openings)
      /\ Positions(new, {"token"}) = Positions(old, {"token"})
  BY PositionsKept, ExtendsWeaken
<1>3. ASSUME NEW n \in 1..Len(text)
      PROVE  new[o + n] = old[o + n]
  <2>1. o + n \in (o + 1)..(o + Len(text))
    BY <1>1
  <2>2. o + n \in Positions(old, {"token"})
    BY <2>1 DEF IsDraftOf
  <2> QED BY <2>2 DEF Positions, ExtendsWithout
<1> QED BY <1>1, <1>2, <1>3 DEF IsDraftOf, ExtendsWithout

\* In particular the newest draft of a log stays its newest draft.
LEMMA NewestDraftKept ==
  ASSUME NEW old \in Seq(Event), NEW new \in Seq(Event), NEW text \in Seq(1..MaxFence),
         ExtendsWithout(old, new, Openings \cup {"token"}), IsNewestDraft(old, text)
  PROVE  IsNewestDraft(new, text)
<1>1. PICK o \in 1..Len(old) : IsDraftOf(old, o, text)
  BY DEF IsNewestDraft
<1>2. Len(text) \in Nat
  OBVIOUS
<1>3. IsDraftOf(new, o, text) /\ o \in 1..Len(new)
  BY <1>1, <1>2, DraftKept
<1> QED BY <1>3 DEF IsNewestDraft

\* Finished calls stay retired while no further one finishes.
LEMMA RetiredKept ==
  ASSUME NEW old \in Seq(Event), NEW new \in Seq(Event),
         ExtendsWithout(old, new, {"model_completed"}), Retired(old)
  PROVE  Retired(new)
<1>1. Len(old) \in Nat /\ Len(new) \in Nat
  OBVIOUS
<1>2. Positions(new, {"model_completed"}) = Positions(old, {"model_completed"})
  BY PositionsKept
<1> SUFFICES ASSUME NEW i \in Positions(old, {"model_completed"})
             PROVE  \E m \in i..Len(new) : new[m].st = "WAITING_MATERIAL"
  BY <1>2 DEF Retired
<1>3. i \in 1..Len(old)
  BY DEF Positions
<1>4. PICK m \in i..Len(old) : old[m].st = "WAITING_MATERIAL"
  BY DEF Retired
<1>5. m \in 1..Len(old) /\ m \in i..Len(new) /\ new[m] = old[m]
  BY <1>1, <1>3 DEF ExtendsWithout
<1> QED BY <1>4, <1>5

\* A pause retires every finished call before it.
LEMMA PauseRetires ==
  ASSUME NEW log \in Seq(Event), Len(log) > 0,
         log[Len(log)].st = "WAITING_MATERIAL"
  PROVE  Retired(log)
<1>1. Len(log) \in Nat
  OBVIOUS
<1> QED BY <1>1 DEF Retired, Positions

\* Nothing is repeated while no attempt is opened.
LEMMA NeverRepeatsKept ==
  ASSUME NEW old \in Seq(Event), NEW new \in Seq(Event),
         ExtendsWithout(old, new, Openings), NeverRepeats(old)
  PROVE  NeverRepeats(new)
<1>1. Len(old) \in Nat /\ Len(new) \in Nat
  OBVIOUS
<1> SUFFICES ASSUME NEW i \in Positions(new, {"model_completed"}),
                    NEW k \in Positions(old, Openings), i < k
             PROVE  \E m \in i..k : new[m].st = "WAITING_MATERIAL"
  BY PositionsKept DEF NeverRepeats
<1>2. i \in 1..Len(old) /\ k \in 1..Len(old)
  BY <1>1 DEF Positions
<1>3. i \in Positions(old, {"model_completed"})
  BY <1>2 DEF Positions, ExtendsWithout
<1>4. PICK m \in i..k : old[m].st = "WAITING_MATERIAL"
  BY <1>3 DEF NeverRepeats
<1>5. m \in 1..Len(old) /\ new[m] = old[m]
  BY <1>1, <1>2 DEF ExtendsWithout
<1> QED BY <1>4, <1>5

\* An attempt opened when every finished call is retired repeats nothing.
LEMMA OpeningRepeatsNothing ==
  ASSUME NEW old \in Seq(Event), NEW e \in Event, e.kind \in Openings,
         NeverRepeats(old), Retired(old)
  PROVE  NeverRepeats(Append(old, e))
<1> DEFINE new == Append(old, e)
<1>1. /\ Len(old) \in Nat /\ Len(new) = Len(old) + 1
      /\ \A i \in 1..Len(old) : new[i] = old[i]
      /\ new \in Seq(Event)
  OBVIOUS
<1>2. Positions(new, Openings) = Positions(old, Openings) \cup {Len(old) + 1}
  BY PositionAdded
<1>3. Positions(new, {"model_completed"}) = Positions(old, {"model_completed"})
  BY <1>1, AppendExtends, PositionsKept DEF Openings
<1> HIDE DEF new
<1> SUFFICES ASSUME NEW i \in Positions(old, {"model_completed"}),
                    NEW k \in Positions(new, Openings), i < k
             PROVE  \E m \in i..k : new[m].st = "WAITING_MATERIAL"
  BY <1>3 DEF NeverRepeats, new
<1>4. i \in 1..Len(old)
  BY DEF Positions
<1>5. CASE k \in Positions(old, Openings)
  <2>1. PICK m \in i..k : old[m].st = "WAITING_MATERIAL"
    BY <1>5 DEF NeverRepeats
  <2>2. k \in 1..Len(old)
    BY <1>5 DEF Positions
  <2>3. m \in 1..Len(old)
    BY <1>4, <2>2
  <2> QED BY <1>1, <2>1, <2>3
<1>6. CASE k = Len(old) + 1
  <2>1. PICK m \in i..Len(old) : old[m].st = "WAITING_MATERIAL"
    BY DEF Retired
  <2>2. m \in 1..Len(old) /\ m \in i..k
    BY <1>1, <1>4, <1>6
  <2> QED BY <1>1, <2>1, <2>2
<1> QED BY <1>2, <1>5, <1>6

\* Positions in a log can be counted.
LEMMA PositionsFinite ==
  ASSUME NEW log \in Seq(Event), NEW kinds
  PROVE  IsFiniteSet(Positions(log, kinds)) /\ Cardinality(Positions(log, kinds)) \in Nat
<1>1. Len(log) \in Nat
  OBVIOUS
<1>2. IsFiniteSet(1..Len(log))
  BY <1>1, FS_Interval
<1>3. Positions(log, kinds) \in SUBSET (1..Len(log))
  BY DEF Positions
<1> QED BY <1>2, <1>3, FS_Subset, FS_CardinalityType

\* An event of one of the kinds counts once.
LEMMA PositionCounted ==
  ASSUME NEW old \in Seq(Event), NEW e \in Event, NEW kinds, e.kind \in kinds
  PROVE  Cardinality(Positions(Append(old, e), kinds))
           = Cardinality(Positions(old, kinds)) + 1
<1>1. Len(old) + 1 \notin Positions(old, kinds)
  BY DEF Positions
<1> QED BY <1>1, PositionAdded, PositionsFinite, FS_AddElement

-----------------------------------------------------------------------------
(* The inductive invariant.  What the log promises is only kept because    *)
(* the checkpoint of a job tells truly how far its log has come, and       *)
(* because the one run that passes the fence stands where that checkpoint  *)
(* says.  Nothing is known of a run that has lost its fence: it may stand  *)
(* anywhere, with any output.                                              *)

\* A checkpoint tells how far the job has come.
CheckpointIsTrue(j) ==
  LET phase == checkpoint[j].phase
  IN  /\ checkpoint[j].attempt <= generationAttempt[j]
      /\ phase \in {"none", "model_started"} =>
           receipt[j] = 0 /\ Retired(events[j])
      /\ phase = "model_completed" => IsNewestDraft(events[j], checkpoint[j].out)
      /\ phase \in {"business_committed", "done"} => receipt[j] # 0
      /\ phase = "done" <=> Positions(events[j], {"done"}) # {}

\* What the properties say of one job, and of the ends they need.
LogIsSound(j) ==
  /\ generationAttempt[j] = Cardinality(Positions(events[j], Openings))
  /\ NeverRepeats(events[j])
  /\ \A i, k \in Positions(events[j], {"done"}) : i = k
  /\ receipt[j] # 0 => IsNewestDraft(events[j], artifact[j])
  /\ status[j] = "WAITING_MATERIAL" => receipt[j] = 0 /\ Retired(events[j])
  /\ status[j] = "SUCCEEDED" => checkpoint[j].phase = "done"

JobInv(j) == CheckpointIsTrue(j) /\ LogIsSound(j)

\* A run that passes the fence stands where the checkpoint says.
RunInv(r) ==
  LET j == target[r]
      phase == checkpoint[j].phase
      log == events[j]
  IN  /\ attempt[r] = generationAttempt[j]
      /\ at[r] = "open" => phase \in {"none", "model_started"}
      /\ at[r] \in {"retrieve", "stream"} =>
           /\ phase = "model_started"
           /\ \E o \in 1..Len(log) :
                IsDraftOf(log, o, output[r]) /\ Len(log) = o + Len(output[r])
      /\ at[r] \in {"commit", "verify", "publish"} =>
           phase = "model_completed" /\ checkpoint[j].out = output[r]
      /\ at[r] \in {"verify", "publish"} => receipt[j] = 0
      /\ at[r] = "committed" => phase = "model_completed" /\ receipt[j] # 0
      /\ at[r] = "report" => phase = "business_committed"
      /\ at[r] = "finish" => phase = "done"

ResultInv == /\ \A j \in Jobs : JobInv(j)
             /\ \A r \in Runs : Fenced(r) => RunInv(r)

\* What the step lemmas assume of the state before a step.
Known == /\ TypeOK /\ TokensIdentifyRuns
         /\ GenTypes /\ PlacesFitClaims /\ ResultInv

-----------------------------------------------------------------------------
(* Jobs and runs that a step does not concern.                             *)

JobKept(j) ==
  /\ status'[j] = status[j] /\ events'[j] = events[j] /\ receipt'[j] = receipt[j]
  /\ checkpoint'[j] = checkpoint[j] /\ artifact'[j] = artifact[j]
  /\ generationAttempt'[j] = generationAttempt[j]

RunKept(r) ==
  /\ at'[r] = at[r] /\ attempt'[r] = attempt[r] /\ output'[r] = output[r]
  /\ target'[r] = target[r]

\* What is still fenced after a step was fenced before, at the same job.
StillFenced(r) ==
  Fenced(r)' => Fenced(r) /\ RunKept(r) /\ target[r] \in Jobs

\* A job whose columns and log are kept stays sound.
LEMMA JobFrame ==
  ASSUME NEW j \in Jobs, JobInv(j), JobKept(j)
  PROVE  JobInv(j)'
  BY DEF JobInv, CheckpointIsTrue, LogIsSound, JobKept

\* A run that is kept, at a job that is kept, stands where it stood.
LEMMA RunFrame ==
  ASSUME NEW r \in Runs, RunInv(r), RunKept(r), JobKept(target[r])
  PROVE  RunInv(r)'
  BY DEF RunInv, RunKept, JobKept

\* Jobs other than j are kept, and runs other than r work on such a job.
LEMMA Frame ==
  ASSUME ResultInv, NEW r, NEW j,
         \A q \in Jobs \ {j} : JobKept(q),
         j \in Jobs => JobInv(j)',
         \A q \in Runs \ {r} : StillFenced(q) /\ (Fenced(q)' => target[q] # j),
         r \in Runs /\ Fenced(r)' => RunInv(r)'
  PROVE  ResultInv'
<1>1. ASSUME NEW q \in Jobs
      PROVE  JobInv(q)'
  <2>1. CASE q # j
    BY <2>1, JobFrame DEF ResultInv
  <2> QED BY <2>1
<1>2. ASSUME NEW q \in Runs, Fenced(q)'
      PROVE  RunInv(q)'
  <2>1. CASE q # r
    <3>1. /\ Fenced(q) /\ RunKept(q) /\ JobKept(target[q])
      BY <1>2, <2>1 DEF StillFenced
    <3>2. RunInv(q)
      BY <3>1 DEF ResultInv
    <3> QED BY <3>1, <3>2, RunFrame
  <2> QED BY <1>2, <2>1
<1> QED BY <1>1, <1>2 DEF ResultInv

\* A step of the executor only appends events of other kinds: the job's
\* checkpoint stays true of its log.
LEMMA QuietJob ==
  ASSUME NEW j \in Jobs, JobInv(j),
         events[j] \in Seq(Event), events'[j] \in Seq(Event),
         checkpoint[j].out \in Seq(1..MaxFence), artifact[j] \in Seq(1..MaxFence),
         ExtendsWithout(events[j], events'[j], GenKinds),
         receipt'[j] = receipt[j], checkpoint'[j] = checkpoint[j],
         artifact'[j] = artifact[j],
         generationAttempt'[j] = generationAttempt[j],
         status'[j] = "SUCCEEDED" => checkpoint[j].phase = "done",
         status'[j] = "WAITING_MATERIAL" => receipt[j] = 0 /\ Retired(events'[j])
  PROVE  JobInv(j)'
<1>1. /\ ExtendsWithout(events[j], events'[j], Openings)
      /\ ExtendsWithout(events[j], events'[j], {"done"})
      /\ ExtendsWithout(events[j], events'[j], {"model_completed"})
      /\ ExtendsWithout(events[j], events'[j], Openings \cup {"token"})
  BY ExtendsWeaken DEF GenKinds, Openings
<1>2. /\ Positions(events'[j], Openings) = Positions(events[j], Openings)
      /\ Positions(events'[j], {"done"}) = Positions(events[j], {"done"})
  BY <1>1, PositionsKept
<1>3. NeverRepeats(events[j]) => NeverRepeats(events'[j])
  BY <1>1, NeverRepeatsKept
<1>4. Retired(events[j]) => Retired(events'[j])
  BY <1>1, RetiredKept
<1>5. ASSUME NEW text \in Seq(1..MaxFence), IsNewestDraft(events[j], text)
      PROVE  IsNewestDraft(events'[j], text)
  BY <1>1, <1>5, NewestDraftKept
<1>6. CheckpointIsTrue(j)'
  BY <1>2, <1>4, <1>5 DEF JobInv, CheckpointIsTrue
<1>7. LogIsSound(j)'
  BY <1>2, <1>3, <1>4, <1>5 DEF JobInv, LogIsSound
<1> QED BY <1>6, <1>7 DEF JobInv

-----------------------------------------------------------------------------
(* Who is still fenced after a step.                                       *)

\* Whatever a handler or the clock does to a job, no run of it is fenced
\* afterwards; runs of other jobs do not notice.
LEMMA HandlerFence ==
  ASSUME TypeOK, NEW j \in Jobs, HandlerStep(j), NEW q \in Runs
  PROVE  StillFenced(q) /\ (Fenced(q)' => target[q] # j)
<1> USE DEF StillFenced, RunKept, Fenced, Idle, TypeOK, genVars, execVars, runVars
<1>1. CASE CreateJob(j)
  BY <1>1 DEF CreateJob, Create, leaseVars
<1>2. CASE CancelJob(j)
  BY <1>2 DEF CancelJob, Cancel, ClearLease
<1>3. CASE ResumeJob(j)
  BY <1>3 DEF ResumeJob, ResumeMaterial, ClearLease
<1>4. CASE LoseLease(j)
  BY <1>4 DEF LoseLease, LeaseExpires
<1> QED BY <1>1, <1>2, <1>3, <1>4 DEF HandlerStep

\* A claim takes the fence from every other run of the job.
LEMMA JobClaimFence ==
  ASSUME TypeOK, TokensIdentifyRuns, NEW r \in Runs, NEW j \in Jobs,
         ClaimJob(r, j), NEW q \in Runs \ {r}
  PROVE  StillFenced(q) /\ (Fenced(q)' => target[q] # j)
<1>1. /\ token'[q] = token[q] /\ RunKept(q)
      /\ fencingToken' = [fencingToken EXCEPT ![j] = fencingToken[j] + 1]
      /\ leaseToken' = [leaseToken EXCEPT ![j] = fencingToken[j] + 1]
      /\ leaseLive' = [leaseLive EXCEPT ![j] = TRUE]
      /\ status' = [status EXCEPT ![j] = "RUNNING"]
      /\ cancelRequested' = cancelRequested
  BY DEF ClaimJob, Claim, RunKept
<1>2. token[q] \in Nat /\ fencingToken[j] \in Nat /\ (token[q] # 0 => target[q] \in Jobs)
  BY MaxFenceAssumption DEF TypeOK
<1>3. target[q] = j /\ token[q] # 0 => token[q] # fencingToken[j] + 1
  BY <1>2 DEF TokensIdentifyRuns
<1> QED BY <1>1, <1>2, <1>3 DEF StillFenced, RunKept, Fenced, Idle, TypeOK

\* Locals of runs other than r.
OthersKept(r) ==
  \A q \in Runs \ {r} : RunKept(q) /\ token'[q] = token[q]

\* A fenced write of r that leaves the lease columns of other jobs alone.
LEMMA WriteFence ==
  ASSUME TypeOK, TokensIdentifyRuns, NEW r \in Runs, Fenced(r), OthersKept(r),
         \A j \in Jobs \ {target[r]} :
           /\ status'[j] = status[j] /\ cancelRequested'[j] = cancelRequested[j]
           /\ leaseToken'[j] = leaseToken[j] /\ leaseLive'[j] = leaseLive[j],
         cancelRequested' = cancelRequested, fencingToken' = fencingToken,
         \/ /\ status'[target[r]] = "RUNNING"
            /\ leaseToken' = leaseToken /\ leaseLive' = leaseLive
         \/ status'[target[r]] # "RUNNING",
         NEW q \in Runs \ {r}
  PROVE  StillFenced(q) /\ (Fenced(q)' => target[q] # target[r])
<1> SUFFICES ASSUME Fenced(q)'
             PROVE  Fenced(q) /\ target[q] \in Jobs /\ target[q] # target[r]
  BY DEF StillFenced, OthersKept
<1>1. token'[q] = token[q] /\ target'[q] = target[q] /\ token[q] # 0
  BY DEF OthersKept, RunKept, Fenced, Idle
<1>2. target[q] \in Jobs
  BY <1>1 DEF TypeOK
<1>3. CASE target[q] # target[r]
  BY <1>1, <1>2, <1>3 DEF Fenced, Idle
<1>4. CASE target[q] = target[r]
  <2>1. leaseToken[target[q]] = token[q] /\ fencingToken[target[q]] = token[q]
    BY <1>1, <1>4 DEF Fenced, Idle
  <2>2. token[r] = token[q]
    BY <1>4, <2>1 DEF Fenced
  <2> QED BY <1>1, <1>4, <2>2 DEF TokensIdentifyRuns
<1> QED BY <1>3, <1>4

-----------------------------------------------------------------------------
(* The invariant is kept by every kind of step.                            *)

\* Logs and columns a step of one job starts from.
LEMMA JobTypes ==
  ASSUME TypeOK, GenTypes, NEW j \in Jobs
  PROVE  /\ events[j] \in Seq(Event)
         /\ generationAttempt[j] \in Nat
         /\ checkpoint[j].phase \in Phases \cup {"none"}
         /\ checkpoint[j].attempt \in Nat
         /\ checkpoint[j].out \in Seq(1..MaxFence)
         /\ artifact[j] \in Seq(1..MaxFence)
  BY DEF TypeOK, GenTypes

\* A status event is no event of the executor.
LEMMA StatusIsQuiet ==
  ASSUME NEW old \in Seq(Event), NEW t \in 0..MaxFence, NEW s \in WorkflowStatus
  PROVE  /\ ExtendsWithout(old, Append(old, StatusEvent(t, s)), GenKinds)
         /\ Append(old, StatusEvent(t, s)) \in Seq(Event)
         /\ s = "WAITING_MATERIAL" => Retired(Append(old, StatusEvent(t, s)))
<1> DEFINE e == StatusEvent(t, s)
<1>1. e \in Event /\ e.kind = "workflow" /\ e.st = s
  <2>1. e \in Event
    BY EventTypes
  <2> QED BY <2>1 DEF StatusEvent
<1> HIDE DEF e
<1>2. e.kind \notin GenKinds
  BY <1>1 DEF GenKinds
<1>3. ExtendsWithout(old, Append(old, e), GenKinds) /\ Append(old, e) \in Seq(Event)
  BY <1>1, <1>2, AppendExtends
<1>4. Len(Append(old, e)) > 0 /\ Append(old, e)[Len(Append(old, e))] = e
  BY <1>1
<1>5. e.st = "WAITING_MATERIAL" => Retired(Append(old, e))
  BY <1>3, <1>4, PauseRetires
<1> QED BY <1>1, <1>3, <1>5 DEF e

\* Requests of the user and the clock keep the invariant.
LEMMA HandlerKeeps ==
  ASSUME Known, NEW j \in Jobs, HandlerStep(j)
  PROVE  ResultInv'
<1> USE DEF Known
<1>0. 0 \in 0..MaxFence /\ "QUEUED" \in WorkflowStatus /\ "STOPPED" \in WorkflowStatus
  BY MaxFenceAssumption DEF WorkflowStatus
<1>t. /\ events[j] \in Seq(Event)
      /\ checkpoint[j].out \in Seq(1..MaxFence) /\ artifact[j] \in Seq(1..MaxFence)
  BY JobTypes
<1>1. JobInv(j)'
  <2>1. CASE CreateJob(j)
    <3>1. events'[j] = Append(events[j], StatusEvent(0, "QUEUED"))
          /\ status'[j] = "QUEUED"
      BY <2>1 DEF CreateJob, Create, AppendEvent, TypeOK
    <3> QED BY <1>0, <1>t, <2>1, <3>1, StatusIsQuiet, QuietJob
        DEF CreateJob, Create, genVars, jobVars, ResultInv
  <2>2. CASE CancelJob(j)
    <3>1. events'[j] = Append(events[j], StatusEvent(0, "STOPPED"))
          /\ status'[j] = "STOPPED"
      BY <2>2 DEF CancelJob, Cancel, AppendEvent, TypeOK
    <3> QED BY <1>0, <1>t, <2>2, <3>1, StatusIsQuiet, QuietJob
        DEF CancelJob, Cancel, genVars, jobVars, ResultInv
  <2>3. CASE ResumeJob(j)
    <3>1. /\ events'[j] = Append(events[j], StatusEvent(0, "QUEUED"))
          /\ status[j] = "WAITING_MATERIAL" /\ status'[j] = "QUEUED"
          /\ checkpoint'[j] = NoCheckpoint
          /\ generationAttempt' = generationAttempt
          /\ receipt' = receipt
      BY <2>3 DEF ResumeJob, ResumeMaterial, AppendEvent, TypeOK, GenTypes
    <3>2. receipt[j] = 0 /\ Retired(events[j]) /\ NeverRepeats(events[j])
      BY <3>1 DEF ResultInv, JobInv, LogIsSound
    <3>3. /\ ExtendsWithout(events[j], events'[j], GenKinds)
          /\ events'[j] \in Seq(Event)
      BY <1>0, <1>t, <3>1, StatusIsQuiet
    <3>4. /\ ExtendsWithout(events[j], events'[j], Openings)
          /\ ExtendsWithout(events[j], events'[j], {"done"})
          /\ ExtendsWithout(events[j], events'[j], {"model_completed"})
      BY <3>3, ExtendsWeaken DEF GenKinds, Openings
    <3>5. Retired(events'[j]) /\ NeverRepeats(events'[j])
      BY <1>t, <3>2, <3>3, <3>4, RetiredKept, NeverRepeatsKept
    <3>6. /\ Positions(events'[j], Openings) = Positions(events[j], Openings)
          /\ Positions(events'[j], {"done"}) = Positions(events[j], {"done"})
      BY <1>t, <3>3, <3>4, PositionsKept
    <3>7. Positions(events[j], {"done"}) = {}
      BY <3>2 DEF ResultInv, JobInv, CheckpointIsTrue
    <3>8. CheckpointIsTrue(j)'
      BY <3>1, <3>2, <3>5, <3>6, <3>7, JobTypes
      DEF CheckpointIsTrue, NoCheckpoint, Checkpoint
    <3>9. LogIsSound(j)'
      BY <3>1, <3>2, <3>5, <3>6 DEF ResultInv, JobInv, LogIsSound
    <3> QED BY <3>8, <3>9 DEF JobInv
  <2>4. CASE LoseLease(j)
    <3>1. JobKept(j)
      BY <2>4 DEF LoseLease, LeaseExpires, genVars, jobVars, JobKept
    <3> QED BY <3>1, JobFrame DEF ResultInv
  <2> QED BY <2>1, <2>2, <2>3, <2>4 DEF HandlerStep
<1>2. ASSUME NEW q \in Jobs \ {j}
      PROVE  JobKept(q)
  BY DEF HandlerStep, CreateJob, CancelJob, ResumeJob, LoseLease, Create, Cancel,
         ResumeMaterial, LeaseExpires, AppendEvent, genVars, jobVars, JobKept,
         TypeOK, GenTypes
<1>3. \A q \in Runs : StillFenced(q) /\ (Fenced(q)' => target[q] # j)
  BY HandlerFence
<1>4. ASSUME NEW q \in Runs, Fenced(q)'
      PROVE  RunInv(q)'
  BY <1>2, <1>3, <1>4, RunFrame DEF StillFenced, ResultInv
<1>5. ASSUME NEW q \in Jobs
      PROVE  JobInv(q)'
  BY <1>1, <1>2, JobFrame DEF ResultInv
<1> QED BY <1>4, <1>5 DEF ResultInv

\* Where a run enters execute, by the phase it restores.
LEMMA EntryPlace ==
  ASSUME NEW phase \in Phases \cup {"none"}
  PROVE  \/ phase \in {"none", "model_started"} /\ Entry(phase) = "open"
         \/ phase = "model_completed" /\ Entry(phase) = "commit"
         \/ phase = "business_committed" /\ Entry(phase) = "report"
         \/ phase = "done" /\ Entry(phase) = "finish"
<1>1. CASE phase \in {"none", "model_started"}
  BY <1>1 DEF Entry
<1>2. CASE phase = "model_completed"
  BY <1>2 DEF Entry
<1>3. CASE phase = "business_committed"
  BY <1>3 DEF Entry
<1>4. CASE phase = "done"
  BY <1>4 DEF Entry
<1> QED BY <1>1, <1>2, <1>3, <1>4 DEF Phases

\* A claim starts where the checkpoint says.
LEMMA ClaimKeeps ==
  ASSUME Known, NEW r \in Runs, NEW j \in Jobs, ClaimJob(r, j)
  PROVE  ResultInv'
<1> USE DEF Known
<1> DEFINE next == fencingToken[j] + 1
<1>t. /\ events[j] \in Seq(Event)
      /\ checkpoint[j].phase \in Phases \cup {"none"}
      /\ checkpoint[j].attempt \in Nat /\ generationAttempt[j] \in Nat
      /\ checkpoint[j].out \in Seq(1..MaxFence) /\ artifact[j] \in Seq(1..MaxFence)
  BY JobTypes
<1>1. /\ next \in 0..MaxFence
      /\ events'[j] = Append(events[j], StatusEvent(next, "RUNNING"))
      /\ status'[j] = "RUNNING"
      /\ receipt' = receipt /\ UNCHANGED jobVars
      /\ target'[r] = j /\ attempt'[r] = RestoredAttempt(j)
      /\ at'[r] = Entry(checkpoint[j].phase) /\ output'[r] = checkpoint[j].out
  BY MaxFenceAssumption DEF ClaimJob, Claim, AppendEvent, TypeOK, GenTypes
<1>2. JobInv(j)'
  <2>1. /\ ExtendsWithout(events[j], events'[j], GenKinds)
        /\ events'[j] \in Seq(Event)
    BY <1>t, <1>1, StatusIsQuiet DEF WorkflowStatus
  <2> QED BY <1>t, <1>1, <2>1, QuietJob DEF jobVars, ResultInv
<1>3. ASSUME NEW q \in Jobs \ {j}
      PROVE  JobKept(q)
  BY DEF ClaimJob, Claim, AppendEvent, jobVars, JobKept, TypeOK, GenTypes
<1>4. \A q \in Runs \ {r} : StillFenced(q) /\ (Fenced(q)' => target[q] # j)
  BY JobClaimFence
<1>5. RunInv(r)'
  <2>1. RestoredAttempt(j) = generationAttempt[j]
    <3>1. checkpoint[j].attempt <= generationAttempt[j]
      BY DEF ResultInv, JobInv, CheckpointIsTrue
    <3> QED BY <1>t, <3>1, RestoredAttemptIsMax
  <2>2. checkpoint'[j] = checkpoint[j] /\ generationAttempt'[j] = generationAttempt[j]
    BY <1>1 DEF jobVars
  <2> QED BY <1>t, <1>1, <2>1, <2>2, EntryPlace DEF RunInv
<1> QED BY <1>2, <1>3, <1>4, <1>5, Frame

\* What every yield does: one event of the executor behind the log, the
\* checkpoint and the attempt number of the job, nothing else of any job.
LEMMA YieldEffect ==
  ASSUME Known, NEW r \in Runs, NEW kind \in GenKinds, NEW phase, NEW n, NEW out,
         Yield(r, kind, phase, n, out), OthersKept(r)
  PROVE  LET j == target[r]
             e == PlainEvent(token[r], kind, 0)
         IN  /\ Fenced(r) /\ j \in Jobs /\ token[r] \in 1..MaxFence
             /\ e \in Event /\ e.kind = kind /\ e.by = token[r]
             /\ events[j] \in Seq(Event) /\ events'[j] = Append(events[j], e)
             /\ checkpoint'[j].phase = phase /\ checkpoint'[j].attempt = n
             /\ checkpoint'[j].out = out
             /\ generationAttempt'[j] = n
             /\ status' = status /\ receipt' = receipt /\ artifact' = artifact
             /\ target' = target
             /\ \A q \in Jobs \ {j} : JobKept(q)
             /\ \A q \in Runs \ {r} :
                  StillFenced(q) /\ (Fenced(q)' => target[q] # j)
<1> USE DEF Known
<1> DEFINE j == target[r]
           e == PlainEvent(token[r], kind, 0)
<1>1. /\ Fenced(r) /\ AppendEvent(j, e)
      /\ UNCHANGED <<status, cancelRequested, completedAt, leaseVars, receipt, runVars>>
      /\ checkpoint' = [checkpoint EXCEPT ![j] = Checkpoint(phase, n, out)]
      /\ generationAttempt' = [generationAttempt EXCEPT ![j] = n]
      /\ artifact' = artifact
  BY DEF Yield, PersistProgress
<1>2. j \in Jobs /\ token[r] \in 1..MaxFence /\ token[r] \in 0..MaxFence
      /\ status[j] = "RUNNING"
  BY <1>1, FencedTarget
<1>3. e \in Event
  BY <1>2, EventTypes, KindsAssumption, PayloadsAssumption
<1>4. e.kind = kind /\ e.by = token[r]
  BY DEF PlainEvent
<1> HIDE DEF e
<1>5. events[j] \in Seq(Event) /\ events'[j] = Append(events[j], e)
  BY <1>1, <1>2 DEF AppendEvent, TypeOK
<1>6. checkpoint'[j] = Checkpoint(phase, n, out) /\ generationAttempt'[j] = n
  BY <1>1, <1>2 DEF GenTypes
<1>7. \A q \in Jobs \ {j} : JobKept(q)
  BY <1>1, <1>2 DEF AppendEvent, JobKept, TypeOK, GenTypes
<1>8. \A q \in Runs \ {r} : StillFenced(q) /\ (Fenced(q)' => target[q] # j)
  BY <1>1, <1>2, WriteFence DEF leaseVars
<1> QED BY <1>1, <1>2, <1>3, <1>4, <1>5, <1>6, <1>7, <1>8
        DEF e, Checkpoint, runVars

\* A new attempt: it gets the next number, and no finished call stands
\* behind the last pause.
LEMMA OpenKeeps ==
  ASSUME Known, NEW r \in Runs, Open(r)
  PROVE  ResultInv'
<1> USE DEF Known
<1>1. PICK kind \in Openings :
        Yield(r, kind, "model_started", attempt[r] + 1, <<>>)
  BY DEF Open, Openings
<1>2. OthersKept(r)
  BY <1>1 DEF Open, Goto, OthersKept, RunKept, Yield, PersistProgress, runVars
<1>3. PICK j \in Jobs, e \in Event :
        /\ j = target[r]
        /\ e.kind = kind
        /\ Fenced(r)
        /\ events[j] \in Seq(Event) /\ events'[j] = Append(events[j], e)
        /\ checkpoint'[j].phase = "model_started"
        /\ checkpoint'[j].attempt = attempt[r] + 1
        /\ generationAttempt'[j] = attempt[r] + 1
        /\ status' = status /\ receipt' = receipt /\ artifact' = artifact
        /\ target' = target
        /\ \A q \in Jobs \ {j} : JobKept(q)
        /\ \A q \in Runs \ {r} : StillFenced(q) /\ (Fenced(q)' => target[q] # j)
  <2>1. kind \in GenKinds
    BY DEF Openings, GenKinds
  <2> QED BY <1>1, <1>2, <2>1, YieldEffect
<1> DEFINE old == events[j]
           new == events'[j]
<1>4. /\ at[r] = "open" /\ at'[r] = "retrieve" /\ output'[r] = <<>>
      /\ attempt'[r] = attempt[r] + 1
  BY DEF Open, Goto, GenTypes
<1>5. attempt[r] = generationAttempt[j] /\ checkpoint[j].phase \in {"none", "model_started"}
      /\ generationAttempt[j] \in Nat
  BY <1>3, <1>4, JobTypes DEF ResultInv, RunInv
<1>6. /\ receipt[j] = 0 /\ Retired(old) /\ Positions(old, {"done"}) = {}
      /\ generationAttempt[j] = Cardinality(Positions(old, Openings))
      /\ NeverRepeats(old)
      /\ status[j] # "SUCCEEDED" /\ status[j] # "WAITING_MATERIAL"
  BY <1>3, <1>5 DEF ResultInv, JobInv, CheckpointIsTrue, LogIsSound, Fenced
<1>7. /\ new \in Seq(Event) /\ Len(new) = Len(old) + 1 /\ Len(old) \in Nat
      /\ Retired(new)
      /\ Positions(new, {"done"}) = {}
      /\ NeverRepeats(new)
      /\ generationAttempt'[j] = Cardinality(Positions(new, Openings))
  <2>1. /\ ExtendsWithout(old, new, {"model_completed"})
        /\ ExtendsWithout(old, new, {"done"})
        /\ new \in Seq(Event)
    BY <1>3, AppendExtends DEF Openings
  <2>2. Retired(new) /\ Positions(new, {"done"}) = {}
    BY <1>3, <1>6, <2>1, RetiredKept, PositionsKept
  <2>3. NeverRepeats(new)
    BY <1>3, <1>6, OpeningRepeatsNothing
  <2>4. Cardinality(Positions(new, Openings)) = Cardinality(Positions(old, Openings)) + 1
    BY <1>3, PositionCounted
  <2>5. generationAttempt'[j] = Cardinality(Positions(new, Openings))
    BY <1>3, <1>5, <1>6, <2>4
  <2> QED BY <1>3, <2>1, <2>2, <2>3, <2>5
<1>8. IsDraftOf(new, Len(new), <<>>)
  <2>1. /\ Len(new) \in Positions(new, Openings)
        /\ \A i \in Positions(new, Openings) : i <= Len(new)
    BY <1>3, <1>7 DEF Positions
  <2>2. {i \in Positions(new, {"token"}) : i > Len(new)} = (Len(new) + 1)..(Len(new) + 0)
    BY <1>7 DEF Positions
  <2>3. Len(<<>>) = 0
    OBVIOUS
  <2> QED BY <2>1, <2>2, <2>3 DEF IsDraftOf
<1>9. JobInv(j)'
  BY <1>3, <1>5, <1>6, <1>7 DEF JobInv, CheckpointIsTrue, LogIsSound
<1>10. RunInv(r)'
  <2>1. Len(<<>>) = 0 /\ Len(new) \in 1..Len(new) /\ Len(new) = Len(new) + 0
    BY <1>7
  <2>2. \E o \in 1..Len(new) : IsDraftOf(new, o, output'[r]) /\ Len(new) = o + Len(output'[r])
    BY <1>4, <1>8, <2>1
  <2> QED BY <1>3, <1>4, <2>2 DEF RunInv
<1> QED BY <1>3, <1>9, <1>10, Frame

\* A token lengthens the draft of the attempt the log ends with.
LEMMA TokenKeeps ==
  ASSUME Known, NEW r \in Runs, Token(r)
  PROVE  ResultInv'
<1> USE DEF Known
<1> DEFINE out == output[r]
<1>1. Yield(r, "token", "model_started", attempt[r], <<>>)
  BY DEF Token
<1>2. OthersKept(r)
  BY <1>1 DEF Token, OthersKept, RunKept, Yield, PersistProgress, runVars
<1>3. PICK j \in Jobs, e \in Event :
        /\ j = target[r]
        /\ e.kind = "token" /\ e.by = token[r]
        /\ Fenced(r)
        /\ events[j] \in Seq(Event) /\ events'[j] = Append(events[j], e)
        /\ checkpoint'[j].phase = "model_started"
        /\ checkpoint'[j].attempt = attempt[r]
        /\ generationAttempt'[j] = attempt[r]
        /\ status' = status /\ receipt' = receipt /\ artifact' = artifact
        /\ target' = target
        /\ \A q \in Jobs \ {j} : JobKept(q)
        /\ \A q \in Runs \ {r} : StillFenced(q) /\ (Fenced(q)' => target[q] # j)
  <2>1. "token" \in GenKinds
    BY DEF GenKinds
  <2> QED BY <1>1, <1>2, <2>1, YieldEffect
<1> DEFINE old == events[j]
           new == events'[j]
<1>4. /\ at[r] = "stream" /\ at'[r] = "stream" /\ output'[r] = Append(out, e.by)
      /\ attempt'[r] = attempt[r]
      /\ out \in Seq(1..MaxFence)
  BY <1>3 DEF Token, GenTypes
<1>5. /\ attempt[r] = generationAttempt[j] /\ checkpoint[j].phase = "model_started"
      /\ generationAttempt[j] \in Nat
  BY <1>3, <1>4, JobTypes DEF ResultInv, RunInv
<1>6. PICK o \in 1..Len(old) : IsDraftOf(old, o, out) /\ Len(old) = o + Len(out)
  BY <1>3, <1>4 DEF ResultInv, RunInv
<1>7. /\ receipt[j] = 0 /\ Retired(old) /\ Positions(old, {"done"}) = {}
      /\ generationAttempt[j] = Cardinality(Positions(old, Openings))
      /\ NeverRepeats(old)
      /\ status[j] # "SUCCEEDED" /\ status[j] # "WAITING_MATERIAL"
  BY <1>3, <1>5 DEF ResultInv, JobInv, CheckpointIsTrue, LogIsSound, Fenced
<1>8. /\ new \in Seq(Event) /\ Len(new) = Len(old) + 1 /\ Len(old) \in Nat
      /\ ExtendsWithout(old, new, {"model_completed"})
      /\ ExtendsWithout(old, new, {"done"})
      /\ ExtendsWithout(old, new, Openings)
  BY <1>3, AppendExtends DEF Openings
<1>9. /\ Retired(new) /\ NeverRepeats(new)
      /\ Positions(new, {"done"}) = {}
      /\ Positions(new, Openings) = Positions(old, Openings)
  BY <1>3, <1>7, <1>8, RetiredKept, NeverRepeatsKept, PositionsKept
<1>10. JobInv(j)'
  BY <1>3, <1>5, <1>7, <1>9 DEF JobInv, CheckpointIsTrue, LogIsSound
<1>11. IsDraftOf(new, o, Append(out, e.by))
  <2>1. Len(Append(out, e.by)) = Len(out) + 1 /\ Len(out) \in Nat
    BY <1>4
  <2>2. Positions(new, {"token"}) = Positions(old, {"token"}) \cup {Len(old) + 1}
    BY <1>3, PositionAdded
  <2>3. {i \in Positions(old, {"token"}) : i > o} = (o + 1)..(o + Len(out))
    BY <1>6 DEF IsDraftOf
  <2>4. {i \in Positions(new, {"token"}) : i > o} = (o + 1)..(o + (Len(out) + 1))
    BY <1>6, <1>8, <2>1, <2>2, <2>3
  <2>5. ASSUME NEW n \in 1..(Len(out) + 1)
        PROVE  Append(out, e.by)[n] = new[o + n].by
    <3>1. CASE n \in 1..Len(out)
      <4>1. o + n \in 1..Len(old) /\ Append(out, e.by)[n] = out[n]
        BY <1>4, <1>6, <2>1, <3>1
      <4>2. out[n] = old[o + n].by
        BY <1>6, <3>1 DEF IsDraftOf
      <4> QED BY <1>8, <4>1, <4>2 DEF ExtendsWithout
    <3>2. CASE n = Len(out) + 1
      <4>1. new[Len(old) + 1] = e
        BY <1>3
      <4>3. o + n = Len(old) + 1
        BY <1>6, <1>8, <2>1, <3>2
      <4>2. Append(out, e.by)[n] = e.by
        BY <1>4, <3>2
      <4> QED BY <4>1, <4>2, <4>3
    <3> QED BY <2>1, <3>1, <3>2
  <2> QED BY <1>6, <1>9, <2>1, <2>4, <2>5 DEF IsDraftOf
<1>12. RunInv(r)'
  <2>1. /\ o \in 1..Len(new)
        /\ Len(new) = o + Len(Append(out, e.by))
    BY <1>4, <1>6, <1>8
  <2>2. \E p \in 1..Len(new) : IsDraftOf(new, p, output'[r]) /\ Len(new) = p + Len(output'[r])
    BY <1>4, <1>11, <2>1
  <2> QED BY <1>3, <1>4, <2>2 DEF RunInv
<1> QED BY <1>3, <1>10, <1>12, Frame

\* The events that end a model call and follow it open no attempt and stream nothing.
LEMMA ReportExtends ==
  ASSUME NEW old \in Seq(Event), NEW e \in Event,
         e.kind \in {"model_completed", "business_committed", "done"}
  PROVE  /\ Append(old, e) \in Seq(Event)
         /\ ExtendsWithout(old, Append(old, e), Openings)
         /\ ExtendsWithout(old, Append(old, e), Openings \cup {"token"})
  BY AppendExtends DEF Openings

\* The checkpoint of a finished call holds the newest draft.
LEMMA ModelCompletedKeeps ==
  ASSUME Known, NEW r \in Runs, ModelCompleted(r)
  PROVE  ResultInv'
<1> USE DEF Known
<1>1. Yield(r, "model_completed", "model_completed", attempt[r], output[r])
  BY DEF ModelCompleted
<1>2. OthersKept(r)
  BY <1>1 DEF ModelCompleted, Goto, OthersKept, RunKept, Yield, PersistProgress, runVars
<1>3. PICK j \in Jobs, e \in Event :
        /\ j = target[r]
        /\ e.kind = "model_completed"
        /\ Fenced(r)
        /\ events[j] \in Seq(Event) /\ events'[j] = Append(events[j], e)
        /\ checkpoint'[j].phase = "model_completed"
        /\ checkpoint'[j].attempt = attempt[r] /\ checkpoint'[j].out = output[r]
        /\ generationAttempt'[j] = attempt[r]
        /\ status' = status /\ receipt' = receipt /\ artifact' = artifact
        /\ target' = target
        /\ \A q \in Jobs \ {j} : JobKept(q)
        /\ \A q \in Runs \ {r} : StillFenced(q) /\ (Fenced(q)' => target[q] # j)
  <2> DEFINE e == PlainEvent(token[r], "model_completed", 0)
  <2>1. "model_completed" \in GenKinds
    BY DEF GenKinds
  <2>2. /\ Fenced(r) /\ target[r] \in Jobs /\ e \in Event
        /\ e.kind = "model_completed"
        /\ events[target[r]] \in Seq(Event)
        /\ events'[target[r]] = Append(events[target[r]], e)
        /\ status' = status /\ receipt' = receipt /\ artifact' = artifact
        /\ target' = target
    BY <1>1, <1>2, <2>1, YieldEffect
  <2>3. /\ checkpoint'[target[r]].phase = "model_completed"
        /\ checkpoint'[target[r]].attempt = attempt[r]
        /\ checkpoint'[target[r]].out = output[r]
        /\ generationAttempt'[target[r]] = attempt[r]
    BY <1>1, <1>2, <2>1, YieldEffect
  <2>4. /\ \A q \in Jobs \ {target[r]} : JobKept(q)
        /\ \A q \in Runs \ {r} :
             StillFenced(q) /\ (Fenced(q)' => target[q] # target[r])
    BY <1>1, <1>2, <2>1, YieldEffect
  <2> HIDE DEF e
  <2> QED BY <2>2, <2>3, <2>4
<1> DEFINE old == events[j]
           new == events'[j]
<1>4. /\ at[r] = "stream" /\ at'[r] = "commit" /\ output'[r] = output[r]
      /\ attempt'[r] = attempt[r] /\ output[r] \in Seq(1..MaxFence)
  BY DEF ModelCompleted, Goto, GenTypes
<1>5. /\ attempt[r] = generationAttempt[j] /\ checkpoint[j].phase = "model_started"
      /\ generationAttempt[j] \in Nat
  BY <1>3, <1>4, JobTypes DEF ResultInv, RunInv
<1>6. PICK o \in 1..Len(old) : IsDraftOf(old, o, output[r])
  BY <1>3, <1>4 DEF ResultInv, RunInv
<1>7. /\ receipt[j] = 0 /\ Positions(old, {"done"}) = {}
      /\ generationAttempt[j] = Cardinality(Positions(old, Openings))
      /\ NeverRepeats(old)
      /\ status[j] # "SUCCEEDED" /\ status[j] # "WAITING_MATERIAL"
  BY <1>3, <1>5 DEF ResultInv, JobInv, CheckpointIsTrue, LogIsSound, Fenced
<1>8. /\ new \in Seq(Event)
      /\ ExtendsWithout(old, new, {"done"})
      /\ ExtendsWithout(old, new, Openings)
      /\ ExtendsWithout(old, new, Openings \cup {"token"})
  BY <1>3, AppendExtends, ReportExtends
<1>9. /\ NeverRepeats(new)
      /\ Positions(new, {"done"}) = {}
      /\ Positions(new, Openings) = Positions(old, Openings)
      /\ IsNewestDraft(new, output[r])
  <2>1. IsNewestDraft(new, output[r])
    BY <1>3, <1>4, <1>6, <1>8, NewestDraftKept DEF IsNewestDraft
  <2> QED BY <1>3, <1>7, <1>8, <2>1, NeverRepeatsKept, PositionsKept
<1>10. JobInv(j)'
  BY <1>3, <1>5, <1>7, <1>9 DEF JobInv, CheckpointIsTrue, LogIsSound
<1>11. RunInv(r)'
  BY <1>3, <1>4 DEF RunInv
<1> QED BY <1>3, <1>10, <1>11, Frame

\* The report that the artifact is stored.
LEMMA BusinessCommittedKeeps ==
  ASSUME Known, NEW r \in Runs, BusinessCommitted(r)
  PROVE  ResultInv'
<1> USE DEF Known
<1>1. Yield(r, "business_committed", "business_committed", attempt[r], <<>>)
  BY DEF BusinessCommitted
<1>2. OthersKept(r)
  BY <1>1 DEF BusinessCommitted, Goto, OthersKept, RunKept, Yield, PersistProgress, runVars
<1>3. PICK j \in Jobs, e \in Event :
        /\ j = target[r]
        /\ e.kind = "business_committed"
        /\ Fenced(r)
        /\ events[j] \in Seq(Event) /\ events'[j] = Append(events[j], e)
        /\ checkpoint'[j].phase = "business_committed"
        /\ checkpoint'[j].attempt = attempt[r]
        /\ generationAttempt'[j] = attempt[r]
        /\ status' = status /\ receipt' = receipt /\ artifact' = artifact
        /\ target' = target
        /\ \A q \in Jobs \ {j} : JobKept(q)
        /\ \A q \in Runs \ {r} : StillFenced(q) /\ (Fenced(q)' => target[q] # j)
  <2>1. "business_committed" \in GenKinds
    BY DEF GenKinds
  <2> QED BY <1>1, <1>2, <2>1, YieldEffect
<1> DEFINE old == events[j]
           new == events'[j]
<1>4. /\ at[r] = "committed" /\ at'[r] = "report" /\ attempt'[r] = attempt[r]
  BY DEF BusinessCommitted, Goto, GenTypes
<1>5. /\ attempt[r] = generationAttempt[j] /\ checkpoint[j].phase = "model_completed"
      /\ generationAttempt[j] \in Nat /\ receipt[j] # 0
  BY <1>3, <1>4, JobTypes DEF ResultInv, RunInv
<1>6. /\ new \in Seq(Event) /\ artifact[j] \in Seq(1..MaxFence)
      /\ ExtendsWithout(old, new, {"done"})
      /\ ExtendsWithout(old, new, Openings)
      /\ ExtendsWithout(old, new, Openings \cup {"token"})
  <2>1. artifact[j] \in Seq(1..MaxFence)
    BY JobTypes
  <2>2. ExtendsWithout(old, new, {"done"})
    BY <1>3, AppendExtends
  <2> QED BY <1>3, <2>1, <2>2, ReportExtends
<1>7. /\ Positions(old, {"done"}) = {}
      /\ generationAttempt[j] = Cardinality(Positions(old, Openings))
      /\ NeverRepeats(old) /\ IsNewestDraft(old, artifact[j])
      /\ status[j] # "SUCCEEDED" /\ status[j] # "WAITING_MATERIAL"
  BY <1>3, <1>5 DEF ResultInv, JobInv, CheckpointIsTrue, LogIsSound, Fenced
<1>8. /\ NeverRepeats(new)
      /\ Positions(new, {"done"}) = {}
      /\ Positions(new, Openings) = Positions(old, Openings)
      /\ IsNewestDraft(new, artifact[j])
  <2>1. IsNewestDraft(new, artifact[j])
    BY <1>3, <1>6, <1>7, NewestDraftKept
  <2> QED BY <1>3, <1>6, <1>7, <2>1, NeverRepeatsKept, PositionsKept
<1>9. JobInv(j)'
  BY <1>3, <1>5, <1>7, <1>8 DEF JobInv, CheckpointIsTrue, LogIsSound
<1>10. RunInv(r)'
  BY <1>3, <1>4 DEF RunInv
<1> QED BY <1>3, <1>9, <1>10, Frame

\* "done" is said once: the checkpoint knows whether it was.
LEMMA ReportDoneKeeps ==
  ASSUME Known, NEW r \in Runs, ReportDone(r)
  PROVE  ResultInv'
<1> USE DEF Known
<1>1. Yield(r, "done", "done", attempt[r], <<>>)
  BY DEF ReportDone
<1>2. OthersKept(r)
  BY <1>1 DEF ReportDone, Goto, OthersKept, RunKept, Yield, PersistProgress, runVars
<1>3. PICK j \in Jobs, e \in Event :
        /\ j = target[r]
        /\ e.kind = "done"
        /\ Fenced(r)
        /\ events[j] \in Seq(Event) /\ events'[j] = Append(events[j], e)
        /\ checkpoint'[j].phase = "done"
        /\ checkpoint'[j].attempt = attempt[r]
        /\ generationAttempt'[j] = attempt[r]
        /\ status' = status /\ receipt' = receipt /\ artifact' = artifact
        /\ target' = target
        /\ \A q \in Jobs \ {j} : JobKept(q)
        /\ \A q \in Runs \ {r} : StillFenced(q) /\ (Fenced(q)' => target[q] # j)
  <2>1. "done" \in GenKinds
    BY DEF GenKinds
  <2> QED BY <1>1, <1>2, <2>1, YieldEffect
<1> DEFINE old == events[j]
           new == events'[j]
<1>4. /\ at[r] = "report" /\ at'[r] = "finish" /\ attempt'[r] = attempt[r]
  BY DEF ReportDone, Goto, GenTypes
<1>5. /\ attempt[r] = generationAttempt[j] /\ checkpoint[j].phase = "business_committed"
      /\ generationAttempt[j] \in Nat
  BY <1>3, <1>4, JobTypes DEF ResultInv, RunInv
<1>6. /\ new \in Seq(Event) /\ artifact[j] \in Seq(1..MaxFence)
      /\ ExtendsWithout(old, new, Openings)
      /\ ExtendsWithout(old, new, Openings \cup {"token"})
  <2>1. artifact[j] \in Seq(1..MaxFence)
    BY JobTypes
  <2> QED BY <1>3, <2>1, ReportExtends
<1>7. /\ Positions(old, {"done"}) = {} /\ receipt[j] # 0
      /\ generationAttempt[j] = Cardinality(Positions(old, Openings))
      /\ NeverRepeats(old) /\ IsNewestDraft(old, artifact[j])
      /\ status[j] # "SUCCEEDED" /\ status[j] # "WAITING_MATERIAL"
  BY <1>3, <1>5 DEF ResultInv, JobInv, CheckpointIsTrue, LogIsSound, Fenced
<1>8. /\ NeverRepeats(new)
      /\ Positions(new, {"done"}) = {Len(old) + 1}
      /\ Positions(new, Openings) = Positions(old, Openings)
      /\ IsNewestDraft(new, artifact[j])
  <2>1. IsNewestDraft(new, artifact[j])
    BY <1>3, <1>6, <1>7, NewestDraftKept
  <2>2. Positions(new, {"done"}) = Positions(old, {"done"}) \cup {Len(old) + 1}
    BY <1>3, PositionAdded
  <2> QED BY <1>3, <1>6, <1>7, <2>1, <2>2, NeverRepeatsKept, PositionsKept
<1>9. JobInv(j)'
  <2>1. /\ Positions(new, {"done"}) # {}
        /\ \A i, k \in Positions(new, {"done"}) : i = k
    BY <1>8
  <2> QED BY <1>3, <1>5, <1>7, <1>8, <2>1 DEF JobInv, CheckpointIsTrue, LogIsSound
<1>10. RunInv(r)'
  BY <1>3, <1>4 DEF RunInv
<1> QED BY <1>3, <1>9, <1>10, Frame

\* The commit transaction stores the draft of the checkpoint.
LEMMA PublishKeeps ==
  ASSUME Known, NEW r \in Runs, PublishDraft(r)
  PROVE  ResultInv'
<1> USE DEF Known
<1>1. Fenced(r)
  BY DEF PublishDraft, Publish
<1>2. PICK j \in Jobs : j = target[r]
  BY <1>1, FencedTarget
<1>3. /\ at[r] = "publish" /\ at'[r] = "committed"
      /\ UNCHANGED <<status, cancelRequested, completedAt, leaseVars, events, runVars,
                     checkpoint, generationAttempt, attempt, output>>
      /\ receipt' = [receipt EXCEPT ![j] = token[r]]
      /\ artifact' = [artifact EXCEPT ![j] = output[r]]
      /\ at' = [at EXCEPT ![r] = "committed"]
  BY <1>2 DEF PublishDraft, Publish, Goto, GenTypes
<1>4. receipt'[j] = token[r] /\ artifact'[j] = output[r] /\ token[r] # 0
  BY <1>1, <1>3 DEF TypeOK, GenTypes, Fenced, Idle
<1>5. /\ checkpoint[j].phase = "model_completed" /\ checkpoint[j].out = output[r]
      /\ attempt[r] = generationAttempt[j]
      /\ IsNewestDraft(events[j], output[r])
      /\ status[j] = "RUNNING"
  BY <1>1, <1>2, <1>3 DEF ResultInv, RunInv, JobInv, CheckpointIsTrue, Fenced
<1>6. JobInv(j)'
  BY <1>3, <1>4, <1>5 DEF ResultInv, JobInv, CheckpointIsTrue, LogIsSound
<1>7. \A q \in Jobs \ {j} : JobKept(q)
  BY <1>3 DEF JobKept
<1>8. \A q \in Runs \ {r} : StillFenced(q) /\ (Fenced(q)' => target[q] # j)
  <2>1. OthersKept(r)
    BY <1>3 DEF OthersKept, RunKept, runVars
  <2>2. status'[j] = "RUNNING"
    BY <1>3, <1>5
  <2> QED BY <1>1, <1>2, <1>3, <2>1, <2>2, WriteFence DEF leaseVars
<1>9. RunInv(r)'
  BY <1>2, <1>3, <1>4, <1>5 DEF RunInv, runVars
<1> QED BY <1>6, <1>7, <1>8, <1>9, Frame

\* What a run appends when it ends is no event of the executor; if it says
\* that the job waits for material, every finished call is retired.
LEMMA NoticeIsQuiet ==
  ASSUME NEW old \in Seq(Event), NEW t \in 0..MaxFence, NEW s \in WorkflowStatus,
         NEW k \in {"error", "material_gap"}
  PROVE  LET new == Append(Append(old, PlainEvent(t, k, 0)), StatusEvent(t, s))
         IN  /\ ExtendsWithout(old, new, GenKinds)
             /\ new \in Seq(Event)
             /\ s = "WAITING_MATERIAL" => Retired(new)
<1> DEFINE n == PlainEvent(t, k, 0)
<1>1. n \in Event
  BY EventTypes, PayloadsAssumption DEF StoreKinds
<1>2. n.kind \notin GenKinds
  BY DEF PlainEvent, GenKinds
<1> HIDE DEF n
<1>3. Append(old, n) \in Seq(Event) /\ ExtendsWithout(old, Append(old, n), GenKinds)
  BY <1>1, <1>2, AppendExtends
<1> DEFINE new == Append(Append(old, n), StatusEvent(t, s))
<1>4. /\ ExtendsWithout(Append(old, n), new, GenKinds) /\ new \in Seq(Event)
      /\ s = "WAITING_MATERIAL" => Retired(new)
  BY <1>3, StatusIsQuiet
<1>5. ExtendsWithout(old, new, GenKinds)
  BY <1>3, <1>4, ExtendsTwice
<1> QED BY <1>4, <1>5 DEF n, new

\* A job only pauses for material before it has published.
LEMMA GapIsUnpublished ==
  ASSUME Known, NEW r \in Runs, Fenced(r), MaterialGap(r)
  PROVE  receipt[target[r]] = 0
<1>1. PICK j \in Jobs : j = target[r]
  BY FencedTarget DEF Known
<1>2. JobInv(j) /\ RunInv(r)
  BY <1>1 DEF Known, ResultInv
<1>3. \/ at[r] = "retrieve" \/ at[r] = "verify" \/ receipt[j] = 0
  BY <1>1 DEF MaterialGap
<1> QED BY <1>1, <1>2, <1>3 DEF RunInv, JobInv, CheckpointIsTrue

\* The ends of a run that hand the job back.
LEMMA EndKeeps ==
  ASSUME Known, NEW r \in Runs,
         CompleteJob(r) \/ PauseJob(r) \/ FailOnReassignment(r) \/ FailOnError(r)
  PROVE  ResultInv'
<1> USE DEF Known
<1>1. Fenced(r) /\ Leave(r)
  BY DEF CompleteJob, PauseJob, FailOnReassignment, FailOnError, Complete,
         PauseForGrounding, Fail, SettleStatus, SettleWithNotice, Settle
<1>2. PICK j \in Jobs : j = target[r] /\ token[r] \in 0..MaxFence
  BY <1>1, FencedTarget
<1>t. /\ events[j] \in Seq(Event) /\ artifact[j] \in Seq(1..MaxFence)
      /\ checkpoint[j].out \in Seq(1..MaxFence)
  BY JobTypes
<1>3. PICK s \in Outcomes, ev \in Seq(Event) :
        /\ Settle(r, s, ev)
        /\ ExtendsWithout(events[j], ev, GenKinds)
        /\ s = "SUCCEEDED" => at[r] = "finish"
        /\ s = "WAITING_MATERIAL" => receipt[j] = 0 /\ Retired(ev)
  <2>1. CASE CompleteJob(r)
    <3> DEFINE ev == Append(events[j], StatusEvent(token[r], "SUCCEEDED"))
    <3>1. Settle(r, "SUCCEEDED", ev) /\ at[r] = "finish"
      BY <1>2, <2>1 DEF CompleteJob, Complete, SettleStatus
    <3>2. ev \in Seq(Event) /\ ExtendsWithout(events[j], ev, GenKinds)
      BY <1>2, <1>t, StatusIsQuiet DEF WorkflowStatus
    <3> QED BY <3>1, <3>2 DEF Outcomes
  <2>2. CASE PauseJob(r)
    <3> DEFINE ev == Append(Append(events[j], PlainEvent(token[r], "material_gap", 0)),
                            StatusEvent(token[r], "WAITING_MATERIAL"))
    <3>1. Settle(r, "WAITING_MATERIAL", ev) /\ receipt[j] = 0
      BY <1>1, <1>2, <2>2, GapIsUnpublished
      DEF PauseJob, PauseForGrounding, SettleWithNotice
    <3>2. /\ ev \in Seq(Event) /\ ExtendsWithout(events[j], ev, GenKinds)
          /\ Retired(ev)
      BY <1>2, <1>t, NoticeIsQuiet DEF WorkflowStatus
    <3> QED BY <3>1, <3>2 DEF Outcomes
  <2>3. CASE FailOnReassignment(r) \/ FailOnError(r)
    <3> DEFINE ev == Append(Append(events[j], PlainEvent(token[r], "error", 0)),
                            StatusEvent(token[r], "FAILED"))
    <3>1. Settle(r, "FAILED", ev)
      BY <1>2, <2>3 DEF FailOnReassignment, FailOnError, Fail, SettleWithNotice
    <3>2. ev \in Seq(Event) /\ ExtendsWithout(events[j], ev, GenKinds)
      BY <1>2, <1>t, NoticeIsQuiet DEF WorkflowStatus
    <3> QED BY <3>1, <3>2 DEF Outcomes
  <2> QED BY <2>1, <2>2, <2>3
<1>4. /\ status' = [status EXCEPT ![j] = s]
      /\ leaseToken' = [leaseToken EXCEPT ![j] = 0]
      /\ leaseLive' = [leaseLive EXCEPT ![j] = FALSE]
      /\ events' = [events EXCEPT ![j] = ev]
      /\ UNCHANGED <<cancelRequested, fencingToken, receipt, checkpoint,
                     generationAttempt, artifact>>
      /\ EndRun(r)
  BY <1>1, <1>2, <1>3 DEF Settle, ClearLease, Leave, jobVars
<1>5. events'[j] = ev /\ status'[j] = s
  BY <1>4 DEF TypeOK
<1>6. s = "SUCCEEDED" => checkpoint[j].phase = "done"
  BY <1>1, <1>2, <1>3 DEF ResultInv, RunInv
<1>7. JobInv(j)'
  BY <1>t, <1>3, <1>4, <1>5, <1>6, QuietJob DEF ResultInv
<1>8. \A q \in Jobs \ {j} : JobKept(q)
  BY <1>4 DEF JobKept
<1>9. \A q \in Runs \ {r} : StillFenced(q) /\ (Fenced(q)' => target[q] # j)
  <2>1. OthersKept(r)
    BY <1>1, <1>4 DEF Leave, EndRun, OthersKept, RunKept
  <2>2. status'[j] # "RUNNING"
    BY <1>5 DEF Outcomes
  <2>3. \A q \in Jobs \ {j} :
          /\ status'[q] = status[q] /\ cancelRequested'[q] = cancelRequested[q]
          /\ leaseToken'[q] = leaseToken[q] /\ leaseLive'[q] = leaseLive[q]
    BY <1>4
  <2>4. cancelRequested' = cancelRequested /\ fencingToken' = fencingToken
    BY <1>4
  <2> QED BY <1>1, <1>2, <2>1, <2>2, <2>3, <2>4, WriteFence
<1>10. ~Fenced(r)'
  BY <1>4 DEF EndRun, Fenced, Idle, TypeOK
<1> QED BY <1>7, <1>8, <1>9, <1>10, Frame

\* Steps that touch no row the invariant speaks of: what happens between the
\* transactions, and runs that stop without one.
LEMMA LocalKeeps ==
  ASSUME Known, NEW r \in Runs,
         \/ RetrieveNothing(r) \/ AssignEvidence(r) \/ FindCommitted(r)
         \/ Verify(r) \/ AbandonJob(r) \/ Monitor(r)
  PROVE  ResultInv'
<1> USE DEF Known
<1>1. /\ UNCHANGED <<rowVars, checkpoint, generationAttempt, artifact>>
      /\ OthersKept(r)
  <2>1. CASE RetrieveNothing(r) \/ FindCommitted(r) \/ Verify(r)
    <3>1. \E place : at' = [at EXCEPT ![r] = place]
      BY <2>1 DEF RetrieveNothing, FindCommitted, Verify, Goto
    <3>2. UNCHANGED <<vars, jobVars, attempt, output>>
      BY <2>1 DEF RetrieveNothing, FindCommitted, Verify
    <3>3. \A q \in Runs \ {r} : at'[q] = at[q]
      BY <3>1 DEF GenTypes
    <3> QED BY <3>2, <3>3 DEF vars, runVars, jobVars, OthersKept, RunKept
  <2>2. CASE AssignEvidence(r)
    BY <2>2 DEF AssignEvidence, Goto, vars, runVars, OthersKept, RunKept
  <2>3. CASE AbandonJob(r)
    BY <2>3 DEF AbandonJob, Abandon, EndRun, Leave, jobVars, OthersKept, RunKept
  <2>4. CASE Monitor(r)
    BY <2>4 DEF Monitor, MonitorPoll, genVars, jobVars, execVars, OthersKept, RunKept
  <2> QED BY <2>1, <2>2, <2>3, <2>4
<1>2. \A q \in Jobs : JobKept(q)
  BY <1>1 DEF rowVars, JobKept
<1>3. ASSUME NEW q \in Runs \ {r}
      PROVE  StillFenced(q)
  BY <1>1, <1>3 DEF OthersKept, StillFenced, RunKept, Fenced, Idle, rowVars,
                    leaseVars, TypeOK
<1>4. ASSUME Fenced(r)'
      PROVE  RunInv(r)'
  <2>1. CASE AbandonJob(r) \/ Monitor(r)
    BY <1>1, <1>4, <2>1 DEF AbandonJob, Abandon, EndRun, Monitor, MonitorPoll,
                            Fenced, Idle, rowVars, leaseVars, TypeOK
  <2>2. CASE \/ RetrieveNothing(r) \/ AssignEvidence(r) \/ FindCommitted(r)
             \/ Verify(r)
    <3>1. UNCHANGED <<target, token, attempt, output>>
      BY <2>2 DEF RetrieveNothing, AssignEvidence, FindCommitted, Verify, vars, runVars
    <3>2. Fenced(r) /\ RunInv(r)
      BY <1>1, <1>4, <3>1 DEF Fenced, Idle, rowVars, leaseVars, ResultInv
    <3>3. CASE RetrieveNothing(r) \/ AssignEvidence(r)
      <4>1. at[r] = "retrieve" /\ at'[r] = "stream"
        BY <3>3 DEF RetrieveNothing, AssignEvidence, Goto, GenTypes
      <4> QED BY <1>1, <3>1, <3>2, <4>1 DEF RunInv, rowVars
    <3>4. CASE FindCommitted(r)
      <4>1. /\ at[r] = "commit"
            /\ at'[r] = IF receipt[target[r]] # 0 THEN "committed" ELSE "verify"
        BY <3>4 DEF FindCommitted, Goto, GenTypes
      <4> QED BY <1>1, <3>1, <3>2, <4>1 DEF RunInv, rowVars
    <3>5. CASE Verify(r)
      <4>1. at[r] = "verify" /\ at'[r] = "publish"
        BY <3>5 DEF Verify, Goto, GenTypes
      <4> QED BY <1>1, <3>1, <3>2, <4>1 DEF RunInv, rowVars
    <3> QED BY <2>2, <3>3, <3>4, <3>5
  <2> QED BY <2>1, <2>2
<1>5. ASSUME NEW q \in Runs, Fenced(q)'
      PROVE  RunInv(q)'
  <2>1. CASE q # r
    BY <1>2, <1>3, <1>5, <2>1, RunFrame DEF StillFenced, ResultInv
  <2> QED BY <1>4, <1>5, <2>1
<1>6. ASSUME NEW q \in Jobs
      PROVE  JobInv(q)'
  BY <1>2, JobFrame DEF ResultInv
<1> QED BY <1>5, <1>6 DEF ResultInv

-----------------------------------------------------------------------------
\* The checkpoint of every job is true of its log, and the run that passes
\* the fence stands where the checkpoint says.
THEOREM ResultInvariance == GenSpec => []ResultInv
<1>1. GenInit => ResultInv
  <2> SUFFICES ASSUME GenInit PROVE ResultInv
    OBVIOUS
  <2>1. ASSUME NEW j \in Jobs
        PROVE  JobInv(j)
    <3>1. /\ events[j] = <<>> /\ receipt[j] = 0 /\ status[j] = "ABSENT"
          /\ checkpoint[j] = NoCheckpoint /\ generationAttempt[j] = 0
      BY DEF GenInit, Init
    <3>2. /\ Positions(events[j], Openings) = {}
          /\ Positions(events[j], {"done"}) = {}
          /\ Positions(events[j], {"model_completed"}) = {}
      BY <3>1 DEF Positions
    <3>3. Cardinality({}) = 0
      BY FS_EmptySet
    <3>4. checkpoint[j].phase = "none" /\ checkpoint[j].attempt = 0
      BY <3>1 DEF NoCheckpoint, Checkpoint
    <3>5. Retired(events[j]) /\ NeverRepeats(events[j])
      BY <3>2 DEF Retired, NeverRepeats
    <3>6. CheckpointIsTrue(j)
      BY <3>1, <3>2, <3>4, <3>5 DEF CheckpointIsTrue
    <3>7. LogIsSound(j)
      BY <3>1, <3>2, <3>3, <3>5 DEF LogIsSound
    <3> QED BY <3>6, <3>7 DEF JobInv
  <2>2. ASSUME NEW r \in Runs
        PROVE  ~Fenced(r)
    BY DEF GenInit, Init, Fenced, Idle
  <2> QED BY <2>1, <2>2 DEF ResultInv
<1>2. IInv /\ GenTypeOK /\ ResultInv /\ [GenNext]_allVars => ResultInv'
  <2> SUFFICES ASSUME IInv, GenTypeOK, ResultInv, [GenNext]_allVars
               PROVE  ResultInv'
    OBVIOUS
  <2>1. Known
    BY DEF Known, IInv, GenTypeOK, GenTypes, PlacesFitClaims
  <2>2. CASE UNCHANGED allVars
    <3>1. \A j \in Jobs : JobKept(j)
      BY <2>2 DEF allVars, vars, rowVars, genVars, jobVars, JobKept
    <3>2. ASSUME NEW r \in Runs
          PROVE  StillFenced(r)
      BY <2>1, <2>2 DEF allVars, vars, rowVars, runVars, leaseVars, genVars,
            execVars, StillFenced, RunKept, Fenced, Idle, Known, TypeOK
    <3>3. ASSUME NEW r \in Runs, Fenced(r)'
          PROVE  RunInv(r)'
      BY <3>1, <3>2, <3>3, RunFrame DEF StillFenced, ResultInv
    <3>4. ASSUME NEW j \in Jobs
          PROVE  JobInv(j)'
      BY <3>1, JobFrame DEF ResultInv
    <3> QED BY <3>3, <3>4 DEF ResultInv
  <2>3. CASE GenNext
    <3>1. ASSUME NEW r \in Runs, Proceed(r)
          PROVE  ResultInv'
      BY <2>1, <3>1, OpenKeeps, TokenKeeps, ModelCompletedKeeps,
         BusinessCommittedKeeps, ReportDoneKeeps, PublishKeeps, EndKeeps,
         LocalKeeps DEF Proceed
    <3> QED BY <2>1, <2>3, <3>1, HandlerKeeps, ClaimKeeps, EndKeeps, LocalKeeps
            DEF GenNext, CalmNext
  <2> QED BY <2>2, <2>3
<1>3. GenSpec => []IInv
  BY ImplementsStore, Invariance, PTL
<1> QED BY <1>1, <1>2, <1>3, GenTypeCorrect, PTL DEF GenSpec

\* Whatever crashes, expires or is resumed, the published text is the newest
\* attempt of the log, whole and unmixed.
THEOREM LatestDraftPublished == GenSpec => []PublishesLatestDraft
<1>1. ResultInv => PublishesLatestDraft
  BY DEF ResultInv, JobInv, LogIsSound, IsNewestDraft, PublishesLatestDraft
<1> QED BY <1>1, ResultInvariance, PTL

\* "done" is reported at most once, after the commit and before success.
THEOREM DoneReportedOnce == GenSpec => []DoneOnceAndCommitted
<1>1. TypeOK /\ ResultInv => DoneOnceAndCommitted
  <2> SUFFICES ASSUME TypeOK, ResultInv, NEW j \in Jobs
               PROVE  LET done == Positions(events[j], {"done"})
                      IN  /\ Cardinality(done) <= 1
                          /\ done # {} => receipt[j] # 0
                          /\ status[j] = "SUCCEEDED" => done # {}
    BY DEF DoneOnceAndCommitted
  <2> DEFINE done == Positions(events[j], {"done"})
  <2>1. JobInv(j)
    BY DEF ResultInv
  <2>2. Cardinality(done) <= 1
    <3>1. CASE done = {}
      BY <3>1, FS_EmptySet
    <3>2. CASE done # {}
      <4>1. \E i : done = {i}
        BY <2>1, <3>2 DEF JobInv, LogIsSound
      <4>2. Cardinality(done) = 1
        BY <4>1, FS_Singleton
      <4> QED BY <4>2
    <3> QED BY <3>1, <3>2
  <2> QED BY <2>1, <2>2 DEF JobInv, CheckpointIsTrue, LogIsSound
<1>2. GenSpec => []TypeOK
  BY ImplementsStore, TypeCorrect, PTL
<1> QED BY <1>1, <1>2, ResultInvariance, PTL

\* A finished model call is never repeated unless the user resumed the job.
THEOREM FinishedCallsAreKept == GenSpec => []NoRegeneration
<1>1. ResultInv => NoRegeneration
  BY DEF ResultInv, JobInv, LogIsSound, NeverRepeats, NoRegeneration
<1> QED BY <1>1, ResultInvariance, PTL

\* The attempt number of a job counts the attempts in its log.
THEOREM AttemptsCounted == GenSpec => []AttemptsAreNumbered
<1>1. ResultInv => AttemptsAreNumbered
  BY DEF ResultInv, JobInv, LogIsSound, AttemptsAreNumbered
<1> QED BY <1>1, ResultInvariance, PTL

\* A job that waits for material has published nothing.
THEOREM PausedHasNoArtifact == GenSpec => []PausedIsUnpublished
<1>1. ResultInv => PausedIsUnpublished
  BY DEF ResultInv, JobInv, LogIsSound, PausedIsUnpublished
<1> QED BY <1>1, ResultInvariance, PTL

\* Through the store, the executor implements the job life cycle as well.
THEOREM ExecutorImplementsLifecycle == GenSpec => LifecycleSpec
  BY ImplementsStore, Implementation, PTL
=============================================================================
