--------------------------- MODULE AtomicTextProofs ---------------------------
(***************************************************************************)
(* What AtomicGeneration is for, for any number of jobs, engine runs,      *)
(* claims and pieces of text: the revision of a generation attempt is      *)
(* dispatched once, and the tokens of a log are one text.                  *)
(***************************************************************************)
EXTENDS AtomicProofs

-----------------------------------------------------------------------------
(* What a step of one run leaves to the others.                            *)

\* The steps of run r
AnyStep(r) == \/ \E j \in Jobs : ClaimJob(r, j)
              \/ YieldingStep(r) \/ LocalStep(r) \/ Asks(r) \/ ModelStep(r)
              \/ Verify(r) \/ MonitorStep(r) \/ EndStep(r)

\* Other runs and their calls stay where they are.
LEMMA OthersKept ==
  ASSUME TypeOK, AtomicTyped, NEW r \in Runs, AnyStep(r)
  PROVE  \A q \in Runs \ {r} : RunKept(q)
<1>1. CASE MonitorStep(r)
  BY <1>1, MonitorTyped DEF RunKept, gatewayVars, execVars
<1> QED BY <1>1, ClaimTyped, YieldTyped, LocalTyped, AskTyped, ModelTyped, VerifyTyped, EndTyped
    DEF AnyStep

\* What the job of a fenced run looks like to it.
JobSame(j) ==
  /\ events'[j] = events[j] /\ checkpoint'[j] = checkpoint[j] /\ strict'[j] = strict[j]

\* A run that is fenced after a step of another one was fenced before it, and
\* its job is untouched.
LEMMA OthersFenced ==
  ASSUME TypeOK, AtomicTyped, TokensIdentifyRuns, NEW r \in Runs, AnyStep(r),
         NEW q \in Runs \ {r}, Fenced(q)'
  PROVE  Fenced(q) /\ target'[q] = target[q] /\ target[q] \in Jobs /\ JobSame(target[q])
<1>k. target'[q] = target[q]
  BY OthersKept DEF RunKept
<1>f. ASSUME Fenced(q)
      PROVE  target[q] \in Jobs
  BY <1>f, FencedTarget
<1> SUFFICES Fenced(q) /\ JobSame(target[q])
  BY <1>k, <1>f
<1>1. ASSUME NEW j \in Jobs, ClaimJob(r, j)
      PROVE  Fenced(q) /\ JobSame(target[q])
  <2>1. Claim(r, j) /\ \A i \in Jobs \ {j} : JobKept(i)
    BY <1>1, ClaimFacts, ClaimTyped
  <2>2. Fenced(q) /\ target[q] # j
    BY <2>1, ClaimFence
  <2> QED BY <1>f, <2>1, <2>2 DEF JobKept, JobSame
<1>2. CASE YieldingStep(r)
  <2>1. PICK c \in CheckpointType : YieldsFrom(r, c)
    BY <1>2, YieldShape DEF AtomicTyped
  <2>2. \E k, d : Yield(r, k, d, c)
    BY <2>1 DEF YieldsFrom
  <2>3. Fenced(r) /\ UNCHANGED <<status, cancelRequested, leaseVars, runVars>>
    BY <2>2, YieldFacts DEF AtomicTyped
  <2>4. Fenced(q)
    BY <2>3, QuietFence
  <2>5. target[q] # target[r]
    BY <2>3, <2>4, FencedApart
  <2>6. \A i \in Jobs \ {target[r]} : JobKept(i)
    BY <1>2, YieldTyped
  <2> QED BY <1>f, <2>4, <2>5, <2>6 DEF JobKept, JobSame
<1>3. CASE LocalStep(r) \/ Asks(r) \/ ModelStep(r) \/ Verify(r)
  <2>1. UNCHANGED vars /\ UNCHANGED <<strict, checkpoint>>
    BY <1>3, LocalFacts, AskFacts, ModelTyped, VerifyFacts DEF atomicRows
  <2>2. Fenced(q)
    BY <2>1, QuietFence DEF vars, rowVars
  <2> QED BY <2>1, <2>2 DEF JobSame, vars, rowVars
<1>4. CASE MonitorStep(r)
  <2>1. UNCHANGED <<atomicRows, rowVars, target, token>>
    BY <1>4, MonitorTyped
  <2>2. Fenced(q)
    BY <2>1 DEF Fenced, Idle, rowVars, leaseVars
  <2> QED BY <2>1, <2>2 DEF JobSame, rowVars, atomicRows
<1>5. CASE EndStep(r)
  <2>1. /\ target[r] \in Jobs /\ UNCHANGED atomicRows
        /\ \A i \in Jobs \ {target[r]} : events'[i] = events[i]
        /\ (\E s, ev : Settle(r, s, ev)) \/ Abandon(r)
    BY <1>5, EndFacts DEF Complete, SettleStatus, PauseForGrounding, Fail, SettleWithNotice
  <2>2. CASE \E s, ev : Settle(r, s, ev)
    <3>1. Fenced(q) /\ target[q] # target[r]
      BY <2>2, SettleFence
    <3> QED BY <1>f, <2>1, <3>1 DEF JobSame, atomicRows
  <2>3. CASE Abandon(r)
    <3>1. UNCHANGED rowVars /\ token'[q] = token[q]
      BY <2>3, OthersKept DEF Abandon, AnyStep, RunKept, EndRun, TypeOK
    <3>2. Fenced(q)
      BY <1>k, <3>1 DEF Fenced, Idle, rowVars, leaseVars
    <3> QED BY <2>1, <3>1, <3>2 DEF JobSame, rowVars, atomicRows
  <2> QED BY <2>1, <2>2, <2>3
<1> QED BY <1>1, <1>2, <1>3, <1>4, <1>5 DEF AnyStep

\* No run of a job is fenced after a handler has been at it.
LEMMA HandlersFence ==
  ASSUME TypeOK, AtomicTyped, NEW j \in Jobs, HandlerStep(j), NEW q \in Runs, Fenced(q)'
  PROVE  Fenced(q) /\ target'[q] = target[q] /\ target[q] \in Jobs /\ JobSame(target[q])
<1>1. /\ RowStep(j) /\ RunKept(q) /\ \A i \in Jobs \ {j} : JobKept(i)
  BY HandlerFacts
<1>2. Fenced(q) /\ target[q] # j
  BY <1>1, RowFence
<1>3. target[q] \in Jobs
  BY <1>2, FencedTarget
<1> QED BY <1>1, <1>2, <1>3 DEF RunKept, JobKept, JobSame

-----------------------------------------------------------------------------
(* One dispatch of a revision: the invariant.                              *)

\* The operation keys that were written down anywhere
UsedKeys == ({modelRuns[i].key : i \in 1..Len(modelRuns)}
             \cup {checkpoint[j].key : j \in Jobs}
             \cup {restored[r].key : r \in Runs}) \ {NoKey}

\* A key is of an attempt that was begun; an attempt has one key, and a key
\* one row.
KeysFit ==
  /\ \A K \in UsedKeys : K[2] <= attempts[K[1]]
  /\ \A K, L \in UsedKeys : K[1] = L[1] /\ K[2] = L[2] => K = L
  /\ \A i, k \in 1..Len(modelRuns) :
       modelRuns[i].key = modelRuns[k].key /\ modelRuns[i].key # NoKey => i = k

\* A checkpoint has a key from the intent to revise on, and has emitted
\* something only once it is sealed.
CheckpointFits(c) ==
  /\ c.phase = "none" => c = NoCheckpoint
  /\ c.phase \in {"none", "model_started", "model_completed", "atomic_revision_required",
                  "atomic_revision_retrieved"} => c.key = NoKey
  /\ c.phase = "atomic_revision_model_started" => c.key # NoKey
  /\ c.phase \notin {"atomic_sealed", "atomic_shadow_complete"} => c.emitted = 0

\* The checkpoint of a job is of its last attempt; as long as it has no key,
\* none was used in that attempt.
JobFits(j) ==
  /\ CheckpointFits(checkpoint[j])
  /\ checkpoint[j].phase # "none" => checkpoint[j].attempt = attempts[j]
  /\ checkpoint[j].phase # "none" /\ checkpoint[j].key = NoKey =>
       \A K \in UsedKeys : K[1] = j => K[2] # attempts[j]
  /\ checkpoint[j].phase \in AtomicPhases => strict[j]

\* The phases of the checkpoint that a run goes by, at each of its places
PlaceFits(r) ==
  LET p == restored[r].phase
  IN  /\ at[r] = "open" => p \in {"none", "model_started"}
      /\ at[r] \in {"assign", "load", "draft", "require"} => p = "model_started"
      /\ at[r] \in {"review", "retrieve", "announce"} => p = "atomic_revision_required"
      /\ at[r] = "prepare" =>
           p \in {"atomic_revision_retrieved", "atomic_revision_model_started"}
      /\ at[r] = "intent" => p = "atomic_revision_retrieved"
      /\ at[r] \in {"inspect", "dispatch", "revise", "persist"} =>
           p = "atomic_revision_model_started"
      /\ at[r] \in {"inspect", "dispatch"} => restored[r].key = Key(r, evidence[r])
      /\ at[r] = "validate" => p \in {"model_started", "atomic_sealed"}
      /\ at[r] = "emit" => p = "atomic_sealed"
      /\ at[r] = "recover" => p \in {"atomic_sealed", "atomic_shadow_complete"}
      /\ at[r] \in {"emit", "validate"} /\ p = "atomic_sealed" =>
           candidate[r] = restored[r].candidate
      /\ at[r] \in {"require", "validate"} \/ p \in AtomicPhases => strict[target[r]]

\* What a run goes by, and the request of its call; as long as it is fenced,
\* it goes by the checkpoint of its job.
RunFits(r) ==
  /\ CheckpointFits(restored[r])
  /\ ~Idle(r) => PlaceFits(r)
  /\ Fenced(r) => restored[r] = checkpoint[target[r]]
  /\ Calling(r) => /\ at[r] = "revise" => call[r].key = restored[r].key
                   /\ call[r].mode = "text" <=> (at[r] = "draft" /\ ~strict[target[r]])

JobsFit == \A j \in Jobs : JobFits(j)
RunsFit == \A r \in Runs : RunFits(r)

RevisionInv == KeysFit /\ JobsFit /\ RunsFit

-----------------------------------------------------------------------------
(* One text: the invariant.                                                *)

\* The fresh tokens are the first n of a row's text.
TextOf(log, row, n) == IsTextOf(log, row) /\ Cardinality(Fresh(log)) = n

\* Nothing of an attempt is out before its candidate is sealed, and of a sealed
\* one what the checkpoint says.
JobText(j) ==
  LET c == checkpoint[j]
  IN  /\ \E row \in 0..Len(modelRuns) : IsTextOf(events[j], row)
      /\ c.phase \in {"atomic_revision_required", "atomic_revision_retrieved",
                      "atomic_revision_model_started"} => Fresh(events[j]) = {}
      /\ c.phase = "model_started" /\ strict[j] => Fresh(events[j]) = {}
      /\ c.phase \in {"atomic_sealed", "atomic_shadow_complete"} =>
           TextOf(events[j], c.candidate.row, c.emitted)

\* Nothing is out before the model is asked; of a plain body everything is out
\* that the caller has of the call.
RunText(r) ==
  LET log == events[target[r]]
  IN  /\ at[r] \in {"assign", "load"} => Fresh(log) = {}
      /\ Calling(r) /\ at[r] = "draft" /\ call[r].mode = "text" =>
           TextOf(log, call[r].row,
                  IF call[r].pc = "yield" THEN call[r].text - 1 ELSE call[r].text)

\* A call has no text where it starts over, and has some where it is with the
\* caller.
CallText(r) ==
  /\ call[r].pc \in {"start", "delay"} => call[r].text = 0
  /\ call[r].pc = "yield" => call[r].text > 0 /\ call[r].mode = "text"
  /\ call[r].pc = "reject" => call[r].mode = "structured"

TextInv ==
  /\ \A j \in Jobs : JobText(j)
  /\ \A r \in Runs : (Fenced(r) => RunText(r)) /\ CallText(r)

-----------------------------------------------------------------------------
(* One dispatch of a revision: every step.                                 *)

\* A key names a job and an attempt of it.
LEMMA UsedTyped ==
  ASSUME AtomicTypes, NEW K \in UsedKeys
  PROVE  K \in Jobs \X Nat \X EvidenceSets /\ K[1] \in Jobs /\ K[2] \in Nat
<1>1. K \in Keys /\ K # NoKey
  BY RowFields, CheckpointFields DEF UsedKeys, AtomicTypes
<1>2. K \in Jobs \X Nat \X EvidenceSets
  BY <1>1 DEF Keys
<1> QED BY <1>2

\* No key is new where rows, checkpoints and locals take theirs from others.
LEMMA UsedKept ==
  ASSUME modelRuns' = modelRuns,
         \A j \in Jobs : checkpoint'[j].key \in UsedKeys \cup {NoKey},
         \A q \in Runs : restored'[q].key \in UsedKeys \cup {NoKey}
  PROVE  UsedKeys' \subseteq UsedKeys
<1> SUFFICES ASSUME NEW K \in UsedKeys', K \notin UsedKeys
             PROVE  FALSE
  OBVIOUS
<1> QED BY DEF UsedKeys

\* Keys in use are used by rows, jobs and runs.
LEMMA Uses ==
  /\ \A j \in Jobs : checkpoint[j].key \in UsedKeys \cup {NoKey}
  /\ \A q \in Runs : restored[q].key \in UsedKeys \cup {NoKey}
  /\ \A i \in 1..Len(modelRuns) : modelRuns[i].key \in UsedKeys \cup {NoKey}
  BY DEF UsedKeys

\* What holds of the keys in use holds as long as none is new.
LEMMA KeysKept ==
  ASSUME AtomicTypes, AtomicTypes', KeysFit, UsedKeys' \subseteq UsedKeys,
         \A j \in Jobs : attempts'[j] >= attempts[j],
         \/ modelRuns' = modelRuns
         \/ \A i, k \in 1..Len(modelRuns') :
              modelRuns'[i].key = modelRuns'[k].key /\ modelRuns'[i].key # NoKey => i = k
  PROVE  KeysFit'
<1>1. ASSUME NEW K \in UsedKeys'
      PROVE  K[2] <= attempts'[K[1]]
  <2>1. K \in UsedKeys /\ K[1] \in Jobs /\ K[2] \in Nat
    BY UsedTyped
  <2>2. K[2] <= attempts[K[1]] /\ attempts'[K[1]] >= attempts[K[1]]
    BY <2>1 DEF KeysFit
  <2>3. attempts[K[1]] \in Nat /\ attempts'[K[1]] \in Nat
    BY <2>1 DEF AtomicTypes
  <2> QED BY <2>1, <2>2, <2>3
<1>2. \A K, L \in UsedKeys' : K[1] = L[1] /\ K[2] = L[2] => K = L
  BY DEF KeysFit
<1>3. \A i, k \in 1..Len(modelRuns') :
        modelRuns'[i].key = modelRuns'[k].key /\ modelRuns'[i].key # NoKey => i = k
  BY DEF KeysFit
<1> QED BY <1>1, <1>2, <1>3 DEF KeysFit

\* A job that is not touched still fits, if no new key is one of its own.
LEMMA JobFitsKept ==
  ASSUME NEW j \in Jobs, JobFits(j), JobKept(j),
         \A K \in UsedKeys' : K \in UsedKeys \/ K[1] # j
  PROVE  JobFits(j)'
  BY DEF JobFits, JobKept, CheckpointFits

\* So does a run.
LEMMA RunFitsKept ==
  ASSUME NEW q \in Runs, RunFits(q), RunKept(q), strict' = strict,
         Fenced(q)' => Fenced(q) /\ JobSame(target[q])
  PROVE  RunFits(q)'
<1>1. CheckpointFits(restored[q])'
  BY DEF RunFits, RunKept, CheckpointFits
<1>2. (~Idle(q))' => PlaceFits(q)'
  <2>1. Idle(q)' <=> Idle(q)
    BY DEF RunKept, Idle
  <2>2. PlaceFits(q) => PlaceFits(q)'
    BY DEF PlaceFits, RunKept, Key
  <2> QED BY <2>1, <2>2 DEF RunFits
<1>3. Fenced(q)' => restored'[q] = checkpoint'[target'[q]]
  BY DEF RunFits, RunKept, JobSame
<1>4. Calling(q)' => /\ at'[q] = "revise" => call'[q].key = restored'[q].key
                     /\ call'[q].mode = "text" <=> (at'[q] = "draft" /\ ~strict'[target'[q]])
  BY DEF RunFits, RunKept, Calling
<1> QED BY <1>1, <1>2, <1>3, <1>4 DEF RunFits

\* The other runs fit after every step of one.
LEMMA OthersFit ==
  ASSUME TypeOK, AtomicTyped, TokensIdentifyRuns, RunsFit, NEW r \in Runs, AnyStep(r),
         strict' = strict
  PROVE  \A q \in Runs \ {r} : RunFits(q)'
  BY OthersKept, OthersFenced, RunFitsKept DEF RunsFit

\* A step of one run that writes no key and touches no job keeps the
\* invariant, if the run fits where it goes.
LEMMA RevisionFrame ==
  ASSUME TypeOK, AtomicTyped, AtomicTyped', TokensIdentifyRuns, RevisionInv,
         NEW r \in Runs, AnyStep(r), UNCHANGED <<strict, checkpoint, attempts, modelRuns>>,
         restored'[r].key \in UsedKeys \cup {NoKey},
         RunFits(r)'
  PROVE  RevisionInv'
<1>1. UsedKeys' \subseteq UsedKeys
  <2>1. \A q \in Runs : restored'[q].key \in UsedKeys \cup {NoKey}
    BY OthersKept, Uses DEF RunKept
  <2> QED BY <2>1, UsedKept, Uses
<1>2. KeysFit'
  <2>1. \A j \in Jobs : attempts'[j] >= attempts[j]
    BY DEF AtomicTyped, AtomicTypes
  <2> QED BY <1>1, <2>1, KeysKept DEF RevisionInv, AtomicTyped
<1>3. JobsFit'
  BY <1>1 DEF RevisionInv, JobsFit, JobFits, CheckpointFits
<1>4. RunsFit'
  BY OthersFit DEF RevisionInv, RunsFit
<1> QED BY <1>2, <1>3, <1>4 DEF RevisionInv

\* A claim goes on where the checkpoint says.
LEMMA ClaimRevision ==
  ASSUME TypeOK, AtomicTyped, TokensIdentifyRuns, RevisionInv,
         NEW r \in Runs, NEW j \in Jobs, ClaimJob(r, j)
  PROVE  RevisionInv'
<1>1. /\ AtomicTyped' /\ AnyStep(r)
  BY ClaimTyped DEF AnyStep
<1>2. /\ ~Calling(r) /\ UNCHANGED <<gatewayVars, atomicRows>>
      /\ target'[r] = j /\ restored'[r] = checkpoint[j]
      /\ at'[r] = Entry(checkpoint[j].phase)
  BY ClaimFacts
<1>3. JobFits(j) /\ checkpoint[j].phase \in Phases
  BY CheckpointFields DEF RevisionInv, JobsFit, AtomicTyped, AtomicTypes
<1>4. PlaceFits(r)'
  BY <1>2, <1>3 DEF PlaceFits, JobFits, CheckpointFits, Entry, Phases, AtomicPhases,
                    atomicRows
<1>5. RunFits(r)'
  BY <1>2, <1>3, <1>4 DEF RunFits, JobFits, CheckpointFits, Calling, gatewayVars, atomicRows
<1> QED BY <1>1, <1>2, <1>5, RevisionFrame, Uses DEF gatewayVars, atomicRows

\* A local step goes on in the same phase, with the same identity.
LEMMA LocalRevision ==
  ASSUME TypeOK, AtomicTyped, TokensIdentifyRuns, RevisionInv, NEW r \in Runs, LocalStep(r)
  PROVE  RevisionInv'
<1>1. /\ AtomicTyped' /\ AnyStep(r)
  BY LocalTyped DEF AnyStep
<1>2. /\ ~Idle(r) /\ target[r] \in Jobs /\ ~Calling(r)
      /\ UNCHANGED <<vars, gatewayVars, strict, checkpoint, attempts, restored>>
  BY LocalFacts
<1>3. RunFits(r) /\ PlaceFits(r)
  BY <1>2 DEF RevisionInv, RunsFit, RunFits
<1>t. /\ r \in DOMAIN at /\ r \in DOMAIN evidence /\ r \in DOMAIN candidate
  BY DEF AtomicTyped, AtomicTypes
<1>u. target' = target /\ strict' = strict
  BY <1>2 DEF vars, runVars
<1>4. PlaceFits(r)'
  <2>1. CASE AssignEvidence(r) \/ ReviewAssignment(r) \/ ReplaceEvidence(r)
    BY <1>2, <1>3, <1>t, <1>u, <2>1 DEF PlaceFits, AssignEvidence, ReviewAssignment,
       ReplaceEvidence, Goto, AtomicPhases
  <2>2. CASE PrepareRevision(r)
    <3>1. PICK e : /\ e = assigned[target[r]].evidence
                   /\ SameOperation(restored[r], Key(r, e))
                   /\ evidence' = [evidence EXCEPT ![r] = e]
                   /\ at[r] = "prepare"
                   /\ at' = [at EXCEPT ![r] =
                        IF restored[r].phase = "atomic_revision_model_started"
                        THEN "inspect" ELSE "intent"]
      BY <2>2 DEF PrepareRevision, Goto
    <3>2. /\ evidence'[r] = e
          /\ at'[r] = IF restored[r].phase = "atomic_revision_model_started"
                      THEN "inspect" ELSE "intent"
      BY <1>t, <3>1
    <3>3. Key(r, e) = Key(r, evidence[r])'
      BY <1>2, <1>u, <3>2 DEF Key
    <3> QED BY <1>2, <1>3, <1>u, <3>1, <3>2, <3>3 DEF PlaceFits, SameOperation
  <2>3. CASE InspectOperation(r)
    BY <1>2, <1>3, <1>t, <1>u, <2>3 DEF PlaceFits, InspectOperation, Goto, Key
  <2>4. CASE Recover(r)
    BY <1>2, <1>3, <1>t, <1>u, <2>4 DEF PlaceFits, Recover, Goto, AtomicPhases
  <2> QED BY <2>1, <2>2, <2>3, <2>4 DEF LocalStep
<1>5. Fenced(r)' <=> Fenced(r)
  BY <1>2, QuietFence DEF vars, rowVars
<1>6. RunFits(r)'
  BY <1>2, <1>3, <1>u, <1>4, <1>5 DEF RunFits, CheckpointFits, Calling, gatewayVars
<1>7. modelRuns' = modelRuns /\ restored'[r].key \in UsedKeys \cup {NoKey}
  BY <1>2, Uses DEF gatewayVars
<1> QED BY <1>1, <1>2, <1>6, <1>7, RevisionFrame

\* The model is asked in the mode of the job, or with the key of the intent.
LEMMA AskRevision ==
  ASSUME TypeOK, AtomicTyped, TokensIdentifyRuns, RevisionInv, NEW r \in Runs, Asks(r)
  PROVE  RevisionInv'
<1>1. /\ AtomicTyped' /\ AnyStep(r)
  BY AskTyped DEF AnyStep
<1>2. /\ ~Idle(r) /\ target[r] \in Jobs
      /\ UNCHANGED <<vars, atomicRows, restored, candidate, modelRuns>>
      /\ \/ /\ at[r] = "load" /\ at'[r] = "draft" /\ call'[r].key = NoKey
            /\ call'[r].mode = IF strict[target[r]] THEN "structured" ELSE "text"
         \/ /\ at[r] = "dispatch" /\ at'[r] = "revise"
            /\ call'[r].key = Key(r, evidence[r])
            /\ call'[r].mode = "structured"
  BY AskFacts
<1>3. RunFits(r) /\ PlaceFits(r)
  BY <1>2 DEF RevisionInv, RunsFit, RunFits
<1>u. target' = target /\ strict' = strict
  BY <1>2 DEF vars, runVars, atomicRows
<1>4. PlaceFits(r)'
  BY <1>2, <1>3, <1>u DEF PlaceFits
<1>5. Fenced(r)' <=> Fenced(r)
  BY <1>2, QuietFence DEF vars, rowVars
<1>6. RunFits(r)'
  <2>1. at'[r] = "revise" => call'[r].key = restored'[r].key
    BY <1>2, <1>3 DEF PlaceFits
  <2>2. call'[r].mode = "text" <=> (at'[r] = "draft" /\ ~strict'[target'[r]])
    BY <1>2, <1>u
  <2>3. checkpoint' = checkpoint
    BY <1>2 DEF atomicRows
  <2> QED BY <1>2, <1>3, <1>u, <1>4, <1>5, <2>1, <2>2, <2>3 DEF RunFits, CheckpointFits
<1>7. UNCHANGED <<checkpoint, attempts>> /\ restored'[r].key \in UsedKeys \cup {NoKey}
  BY <1>2, Uses DEF atomicRows
<1> QED BY <1>1, <1>2, <1>u, <1>6, <1>7, RevisionFrame

\* Only a strict body is sealed or revised.
LEMMA VerifyRevision ==
  ASSUME TypeOK, AtomicTyped, TokensIdentifyRuns, RevisionInv, NEW r \in Runs, Verify(r)
  PROVE  RevisionInv'
<1>1. /\ AtomicTyped' /\ AnyStep(r)
  BY VerifyTyped DEF AnyStep
<1>2. /\ ~Idle(r) /\ target[r] \in Jobs /\ Calling(r) /\ at[r] \in {"draft", "revise"}
      /\ UNCHANGED <<vars, atomicRows, restored, evidence>> /\ Leave(r)
      /\ \/ at'[r] = IF at[r] = "draft" THEN "validate" ELSE "persist"
         \/ at[r] = "draft" /\ at'[r] = "require"
  BY VerifyFacts
<1>3. RunFits(r) /\ PlaceFits(r)
  BY <1>2 DEF RevisionInv, RunsFit, RunFits
<1>u. target' = target /\ strict' = strict
  BY <1>2 DEF vars, runVars, atomicRows
<1>s. at[r] = "draft" => strict[target[r]]
  BY <1>2, <1>3 DEF RunFits, Verify
<1>4. PlaceFits(r)'
  BY <1>2, <1>3, <1>u, <1>s DEF PlaceFits
<1>5. Fenced(r)' <=> Fenced(r)
  BY <1>2, QuietFence DEF vars, rowVars
<1>c. call'[r].pc = "none" /\ modelRuns' = modelRuns
  BY <1>2, LeaveFacts DEF AtomicTyped, AtomicTypes
<1>6. RunFits(r)'
  BY <1>2, <1>3, <1>u, <1>4, <1>5, <1>c DEF RunFits, CheckpointFits, Calling, atomicRows
<1>7. UNCHANGED <<checkpoint, attempts>> /\ restored'[r].key \in UsedKeys \cup {NoKey}
  BY <1>2, Uses DEF atomicRows
<1> QED BY <1>1, <1>u, <1>c, <1>6, <1>7, RevisionFrame

\* An idle run goes by nothing.
LEMMA EndRevision ==
  ASSUME TypeOK, AtomicTyped, TokensIdentifyRuns, RevisionInv, NEW r \in Runs, EndStep(r)
  PROVE  RevisionInv'
<1>1. /\ AtomicTyped' /\ AnyStep(r)
  BY EndTyped DEF AnyStep
<1>2. /\ UNCHANGED atomicRows /\ Leave(r)
      /\ restored'[r] = NoCheckpoint /\ token'[r] = 0
  BY EndFacts
<1>c. call'[r].pc = "none" /\ modelRuns' = modelRuns
  BY <1>2, LeaveFacts DEF AtomicTyped, AtomicTypes
<1>3. CheckpointFits(NoCheckpoint) /\ NoCheckpoint.key = NoKey
  BY DEF CheckpointFits, NoCheckpoint, Checkpoint
<1>4. RunFits(r)'
  BY <1>2, <1>c, <1>3 DEF RunFits, CheckpointFits, Calling, Idle, Fenced
<1> QED BY <1>1, <1>2, <1>c, <1>3, <1>4, RevisionFrame DEF atomicRows

\* The signal changes nothing of this.
LEMMA MonitorRevision ==
  ASSUME TypeOK, AtomicTyped, TokensIdentifyRuns, RevisionInv, NEW r \in Runs, MonitorStep(r)
  PROVE  RevisionInv'
<1>1. /\ AtomicTyped' /\ AnyStep(r)
      /\ UNCHANGED <<gatewayVars, atomicRows, execVars, rowVars, target, token>>
  BY MonitorTyped DEF AnyStep
<1>2. RunFits(r)
  BY DEF RevisionInv, RunsFit
<1>3. Fenced(r)' <=> Fenced(r)
  BY <1>1 DEF Fenced, Idle, rowVars, leaseVars
<1>4. RunFits(r)'
  BY <1>1, <1>2, <1>3 DEF RunFits, CheckpointFits, PlaceFits, Key, Calling, Idle,
     gatewayVars, atomicRows, execVars
<1> QED BY <1>1, <1>4, RevisionFrame, Uses DEF atomicRows, gatewayVars, execVars

\* A resumed job has no checkpoint any more; no run of it is fenced.
LEMMA HandlerRevision ==
  ASSUME TypeOK, AtomicTyped, TokensIdentifyRuns, RevisionInv, NEW j \in Jobs, HandlerStep(j)
  PROVE  RevisionInv'
<1>1. /\ AtomicTyped'
      /\ UNCHANGED <<gatewayVars, execVars, strict, attempts>>
      /\ \A i \in Jobs \ {j} : checkpoint'[i] = checkpoint[i]
      /\ checkpoint'[j] \in {checkpoint[j], NoCheckpoint}
      /\ \A q \in Runs : RunKept(q)
  BY HandlerFacts, HandlerTyped DEF JobKept
<1>2. NoCheckpoint.key = NoKey /\ NoCheckpoint.phase = "none" /\ CheckpointFits(NoCheckpoint)
  BY DEF NoCheckpoint, Checkpoint, CheckpointFits
<1>3. UsedKeys' \subseteq UsedKeys
  <2>1. \A i \in Jobs : checkpoint'[i].key \in UsedKeys \cup {NoKey}
    BY <1>1, <1>2, Uses
  <2>2. \A q \in Runs : restored'[q].key \in UsedKeys \cup {NoKey}
    BY <1>1, Uses DEF RunKept
  <2> QED BY <1>1, <2>1, <2>2, UsedKept DEF gatewayVars
<1>4. KeysFit'
  <2>1. \A i \in Jobs : attempts'[i] >= attempts[i]
    BY <1>1 DEF AtomicTyped, AtomicTypes
  <2> QED BY <1>1, <1>3, <2>1, KeysKept DEF RevisionInv, AtomicTyped, gatewayVars
<1>5. ASSUME NEW i \in Jobs
      PROVE  JobFits(i)'
  <2>1. JobFits(i)
    BY DEF RevisionInv, JobsFit
  <2>2. CASE checkpoint'[i] = checkpoint[i]
    BY <1>1, <1>3, <2>1, <2>2 DEF JobFits, CheckpointFits
  <2>3. CASE checkpoint'[i] = NoCheckpoint
    BY <1>2, <2>3 DEF JobFits, CheckpointFits, AtomicPhases
  <2> QED BY <1>1, <2>2, <2>3
<1>6. ASSUME NEW q \in Runs
      PROVE  RunFits(q)'
  <2>1. RunFits(q)
    BY DEF RevisionInv, RunsFit
  <2>2. Fenced(q)' => Fenced(q) /\ JobSame(target[q])
    BY HandlersFence
  <2> QED BY <1>1, <2>1, <2>2, RunFitsKept
<1> QED BY <1>4, <1>5, <1>6 DEF RevisionInv, JobsFit, RunsFit

\* A row gets the key of its call, if no row has it.
LEMMA RowsUnique ==
  ASSUME NEW r \in Runs, NEW abort, CallTyped(r), KeysFit, GatewayStep(r, abort)
  PROVE  \A i, k \in 1..Len(modelRuns') :
           modelRuns'[i].key = modelRuns'[k].key /\ modelRuns'[i].key # NoKey => i = k
<1>1. RowsGrow(r) /\ Len(modelRuns) \in Nat /\ Len(modelRuns') \in Nat
  BY GatewayStepFacts DEF CallGoesOn, CallTyped, RowsGrow
<1>2. \/ Len(modelRuns') = Len(modelRuns)
      \/ Len(modelRuns') = Len(modelRuns) + 1 /\ ~KeyTaken(call[r].key)
  <2>1. CASE StartRun(r) \/ RefuseSecondDispatch(r) \/ StartRunFails(r)
    BY <1>1, <2>1, StartSteps
  <2>2. CASE Delta(r) \/ Completed(r) \/ ProviderFails(r)
    BY <1>1, <2>2, StreamSteps
  <2>3. CASE Accept(r) \/ Reject(r) \/ FinishFails(r)
    BY <1>1, <2>3, FinishSteps DEF Closes
  <2>4. CASE Catch(r, abort) \/ CloseFailed(r, abort) \/ CloseThrows(r) \/ DelayOver(r, abort)
    BY <1>1, <2>4, CatchSteps DEF Closes
  <2> QED BY <2>1, <2>2, <2>3, <2>4 DEF GatewayStep
<1>3. CASE Len(modelRuns') = Len(modelRuns)
  BY <1>1, <1>3 DEF RowsGrow, KeysFit
<1>4. CASE Len(modelRuns') = Len(modelRuns) + 1 /\ ~KeyTaken(call[r].key)
  <2>1. \A i \in 1..Len(modelRuns) : modelRuns'[i].key = modelRuns[i].key
    BY <1>1 DEF RowsGrow
  <2>2. modelRuns'[Len(modelRuns) + 1].key = call[r].key
    BY <1>1, <1>4 DEF RowsGrow
  <2>3. call[r].key # NoKey => \A i \in 1..Len(modelRuns) : modelRuns[i].key # call[r].key
    BY <1>4 DEF KeyTaken
  <2> QED BY <1>1, <1>4, <2>1, <2>2, <2>3 DEF KeysFit
<1> QED BY <1>2, <1>3, <1>4

\* A revision is asked for under the key of the intent, which is in use.
LEMMA ModelRevision ==
  ASSUME TypeOK, AtomicTyped, TokensIdentifyRuns, RevisionInv, NEW r \in Runs, ModelStep(r)
  PROVE  RevisionInv'
<1>1. /\ AtomicTyped' /\ AnyStep(r) /\ ~Idle(r) /\ CallGoesOn(r)
      /\ UNCHANGED <<vars, atomicRows, execVars>>
  BY ModelTyped DEF AnyStep
<1>2. CallTyped(r) /\ RunShape(r)
  BY <1>1, RunFacts
<1>3. RunFits(r)
  BY DEF RevisionInv, RunsFit
<1>4. call[r].key \in UsedKeys \cup {NoKey}
  BY <1>1, <1>2, <1>3, Uses DEF RunFits, RunShape, CallGoesOn
<1>5. UsedKeys' \subseteq UsedKeys
  <2>1. \A i \in 1..Len(modelRuns') : modelRuns'[i].key \in UsedKeys \cup {NoKey}
    <3>1. \A i \in 1..Len(modelRuns') :
            \/ i \in 1..Len(modelRuns) /\ modelRuns'[i].key = modelRuns[i].key
            \/ modelRuns'[i].key = call[r].key
      BY <1>1, <1>2 DEF CallGoesOn, RowsGrow, CallTyped
    <3> QED BY <1>4, <3>1, Uses
  <2>2. checkpoint' = checkpoint /\ restored' = restored
    BY <1>1 DEF atomicRows, execVars
  <2>3. ASSUME NEW K \in UsedKeys'
        PROVE  K \in UsedKeys
    <3>1. /\ K # NoKey
          /\ \/ \E i \in 1..Len(modelRuns') : K = modelRuns'[i].key
             \/ \E j \in Jobs : K = checkpoint'[j].key
             \/ \E q \in Runs : K = restored'[q].key
      BY <2>3 DEF UsedKeys
    <3> QED BY <2>1, <2>2, <3>1, Uses
  <2> QED BY <2>3
<1>6. KeysFit'
  <2>1. \A j \in Jobs : attempts'[j] >= attempts[j]
    BY <1>1 DEF AtomicTyped, AtomicTypes, atomicRows
  <2>2. \A i, k \in 1..Len(modelRuns') :
          modelRuns'[i].key = modelRuns'[k].key /\ modelRuns'[i].key # NoKey => i = k
    BY <1>2, RowsUnique DEF ModelStep, RevisionInv
  <2> QED BY <1>1, <1>5, <2>1, <2>2, KeysKept DEF RevisionInv, AtomicTyped
<1>7. JobsFit'
  BY <1>1, <1>5 DEF RevisionInv, JobsFit, JobFits, CheckpointFits, atomicRows
<1>8. RunFits(r)'
  <2>1. /\ call'[r].mode = call[r].mode /\ call'[r].key = call[r].key /\ Calling(r)
    BY <1>1 DEF CallGoesOn
  <2>2. Fenced(r)' <=> Fenced(r)
    BY <1>1, QuietFence DEF vars, rowVars
  <2>3. (~Idle(r))' => PlaceFits(r)'
    BY <1>1, <1>3 DEF RunFits, PlaceFits, Key, Idle, vars, runVars, atomicRows, execVars
  <2> QED BY <1>1, <1>3, <2>1, <2>2, <2>3 DEF RunFits, CheckpointFits, vars, runVars,
             atomicRows, execVars
<1>9. RunsFit'
  BY <1>1, <1>8, OthersFit DEF RevisionInv, RunsFit, atomicRows
<1> QED BY <1>6, <1>7, <1>9 DEF RevisionInv

\* Where a yield goes on, and what it does to the checkpoint's attempt and key.
LEMMA YieldPlaces ==
  ASSUME TypeOK, AtomicTyped, RevisionInv, NEW r \in Runs, YieldingStep(r),
         NEW c \in CheckpointType, YieldsFrom(r, c)
  PROVE  /\ CheckpointFits(c)
         /\ PlaceFits(r)'
         /\ c.phase # "none"
         /\ c.phase \in AtomicPhases => strict[target[r]]
         /\ \/ c.attempt = attempts[target[r]] + 1 /\ c.key = NoKey
            \/ /\ c.attempt = attempts[target[r]] /\ c.key = restored[r].key
               /\ restored[r].phase # "none"
            \/ /\ c.attempt = attempts[target[r]] /\ c.key = Key(r, evidence[r])
               /\ checkpoint[target[r]].phase # "none" /\ checkpoint[target[r]].key = NoKey
               /\ restored[r].attempt = attempts[target[r]]
<1>t. \E k, d : Yield(r, k, d, c)
  BY DEF YieldsFrom
<1>1. /\ Fenced(r) /\ target[r] \in Jobs /\ restored'[r] = c /\ target' = target
  BY <1>t, YieldFacts DEF AtomicTyped, runVars
<1>2. ~Idle(r)
  BY <1>1, FencedTarget
<1>3. /\ RunFits(r) /\ PlaceFits(r) /\ JobFits(target[r]) /\ CheckpointFits(restored[r])
      /\ restored[r] = checkpoint[target[r]]
  BY <1>1, <1>2 DEF RevisionInv, RunsFit, JobsFit, RunFits
<1>a. restored[r].phase # "none" => restored[r].attempt = attempts[target[r]]
  BY <1>3 DEF JobFits
<1>4. /\ strict' = strict /\ evidence' = evidence /\ candidate' = candidate
  BY YieldRest
<1>d. r \in DOMAIN at
  BY DEF AtomicTyped, AtomicTypes
<1> USE DEF CheckpointFits, PlaceFits, AtomicPhases
<1>5. CASE OpenAttempt(r) /\ c.phase = "model_started"
           /\ c.attempt = attempts[target[r]] + 1 /\ c.emitted = 0 /\ c.key = NoKey
  <2>1. at'[r] = "assign"
    BY <1>5, <1>d DEF OpenAttempt, Goto
  <2> QED BY <1>1, <1>4, <1>5, <2>1
<1>6. CASE StreamToken(r) /\ c = restored[r]
  <2>1. at'[r] = at[r] /\ at[r] \in {"draft", "revise"}
    BY <1>6 DEF StreamToken, AtomicTyped, RunsShaped, RunShape, Calling
  <2> QED BY <1>1, <1>3, <1>4, <1>6, <1>a, <2>1
<1>7. CASE /\ c.attempt = restored[r].attempt
           /\ c.emitted = restored[r].emitted /\ c.key = restored[r].key
           /\ \/ StreamCompleted(r) /\ c.phase = "model_completed"
              \/ RequireTargetedRevision(r) /\ c.phase = "atomic_revision_required"
              \/ AnnounceRetrieval(r) /\ c.phase = "atomic_revision_retrieved"
              \/ EmitDone(r) /\ c.phase = "atomic_shadow_complete"
  <2>1. CASE StreamCompleted(r) /\ c.phase = "model_completed"
    <3>1. at[r] = "draft" /\ at'[r] = "finish"
      BY <1>d, <2>1 DEF StreamCompleted, Goto
    <3> QED BY <1>1, <1>3, <1>4, <1>7, <1>a, <2>1, <3>1
  <2>2. CASE RequireTargetedRevision(r) /\ c.phase = "atomic_revision_required"
    <3>1. at[r] = "require" /\ at'[r] = "review"
      BY <1>d, <2>2 DEF RequireTargetedRevision, Goto
    <3> QED BY <1>1, <1>3, <1>4, <1>7, <1>a, <2>2, <3>1
  <2>3. CASE AnnounceRetrieval(r) /\ c.phase = "atomic_revision_retrieved"
    <3>1. at[r] = "announce" /\ at'[r] = "prepare"
      BY <1>d, <2>3 DEF AnnounceRetrieval, Goto
    <3> QED BY <1>1, <1>3, <1>4, <1>7, <1>a, <2>3, <3>1
  <2>4. CASE EmitDone(r) /\ c.phase = "atomic_shadow_complete"
    <3>1. at[r] = "emit" /\ at'[r] = "finish"
      BY <1>d, <2>4 DEF EmitDone, Goto
    <3> QED BY <1>1, <1>3, <1>4, <1>7, <1>a, <2>4, <3>1
  <2> QED BY <1>7, <2>1, <2>2, <2>3, <2>4
<1>8. CASE /\ RecordIntent(r) /\ c.phase = "atomic_revision_model_started"
           /\ c.key = Key(r, evidence[r]) /\ c.attempt = restored[r].attempt
           /\ c.emitted = restored[r].emitted
  <2>1. at[r] = "intent" /\ at'[r] = "dispatch"
    BY <1>8, <1>d DEF RecordIntent, Goto
  <2>2. c.key = Key(r, evidence[r])' /\ c.key # NoKey
    BY <1>1, <1>4, <1>8 DEF Key, NoKey
  <2>3. restored[r].phase = "atomic_revision_retrieved" /\ restored[r].key = NoKey
        /\ restored[r].emitted = 0 /\ strict[target[r]]
    BY <1>3, <2>1
  <2> QED BY <1>1, <1>3, <1>4, <1>8, <1>a, <2>1, <2>2, <2>3
<1>9. CASE /\ Seal(r) /\ c.phase = "atomic_sealed" /\ c.candidate = candidate[r]
           /\ c.attempt = restored[r].attempt /\ c.key = restored[r].key
  <2>1. at[r] \in {"validate", "persist"} /\ at'[r] = "emit"
    BY <1>9, <1>d DEF Seal, Goto
  <2> QED BY <1>1, <1>3, <1>4, <1>9, <1>a, <2>1
<1>10. CASE /\ EmitToken(r) /\ c.phase = restored[r].phase
            /\ c.attempt = restored[r].attempt
            /\ c.candidate = restored[r].candidate /\ c.key = restored[r].key
  <2>1. at[r] = "emit" /\ at'[r] = "emit"
    BY <1>10 DEF EmitToken
  <2> QED BY <1>1, <1>3, <1>4, <1>10, <1>a, <2>1
<1> QED BY <1>5, <1>6, <1>7, <1>8, <1>9, <1>10 DEF YieldsFrom

\* A yield stores the checkpoint the run goes by from then on; its key is the
\* one the attempt has, or the first one.
LEMMA YieldRevision ==
  ASSUME TypeOK, AtomicTyped, TokensIdentifyRuns, RevisionInv, NEW r \in Runs, YieldingStep(r)
  PROVE  RevisionInv'
<1>0. PICK t : t = target[r]
  OBVIOUS
<1>n. PICK new : new = Key(r, evidence[r])
  OBVIOUS
<1>1. PICK c \in CheckpointType : YieldsFrom(r, c)
  BY YieldShape DEF AtomicTyped
<1>y. PICK k, d : Yield(r, k, d, c)
  BY <1>1 DEF YieldsFrom
<1>2. /\ Fenced(r) /\ t \in Jobs
      /\ checkpoint'[t] = c /\ attempts'[t] = c.attempt /\ restored'[r] = c
      /\ \A q \in Runs \ {r} : restored'[q] = restored[q]
      /\ \A j \in Jobs \ {t} : checkpoint'[j] = checkpoint[j] /\ attempts'[j] = attempts[j]
      /\ UNCHANGED <<status, cancelRequested, leaseVars, runVars>>
  BY <1>0, <1>y, YieldFacts DEF AtomicTyped
<1>3. /\ AtomicTyped' /\ AnyStep(r) /\ \A j \in Jobs \ {t} : JobKept(j)
  BY <1>0, YieldTyped DEF AnyStep
<1>4. modelRuns' = modelRuns /\ strict' = strict
  BY YieldRest
<1>5. /\ CheckpointFits(c) /\ PlaceFits(r)' /\ c.phase # "none"
      /\ c.phase \in AtomicPhases => strict[t]
      /\ \/ c.attempt = attempts[t] + 1 /\ c.key = NoKey
         \/ /\ c.attempt = attempts[t] /\ c.key = restored[r].key
            /\ restored[r].phase # "none"
         \/ /\ c.attempt = attempts[t] /\ c.key = new
            /\ checkpoint[t].phase # "none" /\ checkpoint[t].key = NoKey
            /\ restored[r].attempt = attempts[t]
  BY <1>0, <1>n, <1>1, YieldPlaces
<1>6. attempts[t] \in Nat /\ attempts'[t] >= attempts[t] /\ target' = target
  BY <1>2, <1>5 DEF AtomicTyped, AtomicTypes, runVars
<1>k. KeysFit /\ JobFits(t) /\ RunFits(r) /\ restored[r] = checkpoint[t]
  BY <1>0, <1>2 DEF RevisionInv, JobsFit, RunsFit, RunFits
<1>m. \A j \in Jobs : attempts'[j] >= attempts[j]
  <2>1. \A j \in Jobs : attempts[j] >= attempts[j]
    BY DEF AtomicTyped, AtomicTypes
  <2> QED BY <1>2, <1>6, <2>1
<1>7. RunFits(r)'
  <2>1. /\ call'[r].pc # "none" => /\ Calling(r) /\ at' = at
                                   /\ call'[r].mode = call[r].mode
                                   /\ call'[r].key = call[r].key
                                   /\ c = restored[r]
    <3>1. \/ call' = call /\ ~Calling(r)
          \/ StreamToken(r) /\ Pull(r) /\ at' = at
          \/ Leave(r)
      BY YieldRest
    <3>2. CASE call' = call /\ ~Calling(r)
      BY <3>2 DEF Calling
    <3>3. CASE StreamToken(r) /\ Pull(r) /\ at' = at
      <4>1. call'[r].mode = call[r].mode /\ call'[r].key = call[r].key
        BY <3>3, PullFacts DEF AtomicTyped, AtomicTypes
      <4>2. Calling(r) /\ restored' = [restored EXCEPT ![r] = restored[r]]
        BY <3>3 DEF StreamToken, Calling, Yield
      <4>3. c = restored[r]
        BY <1>2, <4>2 DEF AtomicTyped, AtomicTypes
      <4> QED BY <3>3, <4>1, <4>2, <4>3
    <3>4. CASE Leave(r)
      BY <3>4, LeaveFacts DEF AtomicTyped, AtomicTypes
    <3> QED BY <3>1, <3>2, <3>3, <3>4
  <2>2. Calling(r)' => /\ at'[r] = "revise" => call'[r].key = restored'[r].key
                       /\ call'[r].mode = "text" <=> (at'[r] = "draft" /\ ~strict'[target'[r]])
    BY <1>0, <1>2, <1>4, <1>6, <1>k, <2>1 DEF RunFits, Calling
  <2>3. CheckpointFits(restored[r])' /\ restored'[r] = checkpoint'[target'[r]]
    BY <1>0, <1>2, <1>5, <1>6 DEF CheckpointFits
  <2> QED BY <1>5, <2>2, <2>3 DEF RunFits
<1>8. RunsFit'
  BY <1>3, <1>4, <1>7, OthersFit DEF RevisionInv, RunsFit
<1>9. ASSUME c.key \in UsedKeys \cup {NoKey}
      PROVE  UsedKeys' \subseteq UsedKeys
  <2>1. \A j \in Jobs : checkpoint'[j].key \in UsedKeys \cup {NoKey}
    BY <1>2, <1>9, Uses
  <2>2. \A q \in Runs : restored'[q].key \in UsedKeys \cup {NoKey}
    BY <1>2, <1>9, Uses
  <2> QED BY <1>4, <2>1, <2>2, UsedKept
<1>j. ASSUME c.key = NoKey => \A K \in UsedKeys' : K[1] = t => K[2] # attempts'[t],
             \A K \in UsedKeys' : K \in UsedKeys \/ K[1] = t
      PROVE  JobsFit'
  <2>1. JobFits(t)'
    BY <1>2, <1>4, <1>5, <1>j DEF JobFits, CheckpointFits
  <2>2. ASSUME NEW j \in Jobs \ {t}
        PROVE  JobFits(j)'
    <3>1. JobFits(j) /\ JobKept(j)
      BY <1>3, <2>2 DEF RevisionInv, JobsFit
    <3> QED BY <1>j, <2>2, <3>1, JobFitsKept
  <2> QED BY <2>1, <2>2 DEF JobsFit
<1>10. CASE c.attempt = attempts[t] + 1 /\ c.key = NoKey
  <2>1. UsedKeys' \subseteq UsedKeys
    BY <1>9, <1>10
  <2>2. KeysFit'
    BY <1>3, <1>4, <1>m, <1>k, <2>1, KeysKept DEF AtomicTyped
  <2>3. \A K \in UsedKeys' : K[1] = t => K[2] # attempts'[t]
    <3>1. \A K \in UsedKeys : K[2] \in Nat /\ (K[1] = t => K[2] <= attempts[t])
      BY <1>k, UsedTyped DEF KeysFit, AtomicTyped
    <3> QED BY <1>2, <1>6, <1>10, <2>1, <3>1
  <2>4. JobsFit'
    BY <1>j, <2>1, <2>3
  <2> QED BY <1>8, <2>2, <2>4 DEF RevisionInv
<1>11. CASE /\ c.attempt = attempts[t] /\ c.key = restored[r].key
            /\ restored[r].phase # "none"
  <2>1. UsedKeys' \subseteq UsedKeys
    BY <1>9, <1>11, Uses
  <2>2. KeysFit'
    BY <1>3, <1>4, <1>m, <1>k, <2>1, KeysKept DEF AtomicTyped
  <2>3. c.key = NoKey => \A K \in UsedKeys' : K[1] = t => K[2] # attempts'[t]
    BY <1>2, <1>k, <1>11, <2>1 DEF JobFits
  <2>4. JobsFit'
    BY <1>j, <2>1, <2>3
  <2> QED BY <1>8, <2>2, <2>4 DEF RevisionInv
<1>12. CASE /\ c.attempt = attempts[t] /\ c.key = new
            /\ checkpoint[t].phase # "none" /\ checkpoint[t].key = NoKey
            /\ restored[r].attempt = attempts[t]
  <2>1. new # NoKey /\ new[1] = t /\ new[2] = attempts[t]
    BY <1>0, <1>n, <1>12 DEF Key, NoKey
  <2>2. UsedKeys' \subseteq UsedKeys \cup {new}
    <3> SUFFICES ASSUME NEW K \in UsedKeys', K \notin UsedKeys
                 PROVE  K = new
      OBVIOUS
    <3>1. /\ K # NoKey
          /\ \/ \E i \in 1..Len(modelRuns') : K = modelRuns'[i].key
             \/ \E j \in Jobs : K = checkpoint'[j].key
             \/ \E q \in Runs : K = restored'[q].key
      BY DEF UsedKeys
    <3> QED BY <1>2, <1>4, <1>12, <3>1, Uses
  <2>3. \A K \in UsedKeys : K[1] = t => K[2] # attempts[t]
    BY <1>k, <1>12 DEF JobFits
  <2>4. attempts' = attempts
    BY <1>2, <1>12, <1>3 DEF AtomicTyped, AtomicTypes
  <2>5. KeysFit'
    <3>1. \A K \in UsedKeys' : K[2] <= attempts'[K[1]]
      BY <1>6, <1>k, <2>1, <2>2, <2>4 DEF KeysFit
    <3>2. \A K, L \in UsedKeys' : K[1] = L[1] /\ K[2] = L[2] => K = L
      BY <1>k, <2>1, <2>2, <2>3 DEF KeysFit
    <3>3. \A i, l \in 1..Len(modelRuns') :
            modelRuns'[i].key = modelRuns'[l].key /\ modelRuns'[i].key # NoKey => i = l
      BY <1>4, <1>k DEF KeysFit
    <3> QED BY <3>1, <3>2, <3>3 DEF KeysFit
  <2>6. JobsFit'
    BY <1>j, <1>12, <2>1, <2>2
  <2> QED BY <1>8, <2>5, <2>6 DEF RevisionInv
<1> QED BY <1>5, <1>10, <1>11, <1>12

\* Nothing is written down at first.
LEMMA RevisionInit == AtomicInit => RevisionInv
<1> SUFFICES ASSUME AtomicInit PROVE RevisionInv
  OBVIOUS
<1>1. /\ modelRuns = <<>> /\ \A r \in Runs : call[r] = NoCall /\ Idle(r)
      /\ \A j \in Jobs : checkpoint[j] = NoCheckpoint
      /\ \A r \in Runs : restored[r] = NoCheckpoint
  BY CallersAssumption DEF AtomicInit, GatewayInit, Init, Idle
<1>2. /\ CheckpointFits(NoCheckpoint) /\ NoCheckpoint.key = NoKey
      /\ NoCheckpoint.phase = "none" /\ NoCall.pc = "none"
  BY DEF CheckpointFits, NoCheckpoint, Checkpoint, NoCall
<1>3. UsedKeys = {}
  BY <1>1, <1>2 DEF UsedKeys
<1>4. KeysFit
  BY <1>1, <1>3 DEF KeysFit
<1>5. JobsFit
  BY <1>1, <1>2 DEF JobsFit, JobFits, AtomicPhases
<1>6. RunsFit
  BY <1>1, <1>2 DEF RunsFit, RunFits, Fenced, Calling
<1> QED BY <1>4, <1>5, <1>6 DEF RevisionInv

\* Every step keeps it.
LEMMA RevisionStep ==
  ASSUME TypeOK, AtomicTyped, TokensIdentifyRuns, RevisionInv, [AtomicNext]_allVars
  PROVE  RevisionInv'
<1>1. CASE UNCHANGED allVars
  BY <1>1 DEF allVars, vars, rowVars, leaseVars, runVars, gatewayVars, atomicRows, execVars,
     RevisionInv, KeysFit, JobsFit, RunsFit, UsedKeys, JobFits, RunFits, CheckpointFits,
     PlaceFits, Key, Calling, Fenced, Idle
<1>2. CASE AtomicNext
  BY <1>2, StepKinds, HandlerRevision, ClaimRevision, YieldRevision, LocalRevision,
     AskRevision, ModelRevision, VerifyRevision, MonitorRevision, EndRevision
<1> QED BY <1>1, <1>2

\* The keys of the operations, the checkpoints and the places of the runs fit
\* together.
THEOREM RevisionInvariance == AtomicSpec => []RevisionInv
<1>1. TypeOK /\ AtomicTyped /\ IInv /\ RevisionInv /\ [AtomicNext]_allVars => RevisionInv'
  BY RevisionStep DEF IInv
<1> QED BY <1>1, RevisionInit, AtomicInvariance, AtomicStoreInvariance, PTL DEF AtomicSpec

\* OneRevisionDispatch: a revision of an attempt has one key, since the intent
\* is in the checkpoint before the model is asked, and the ledger takes a key
\* once.  So it is paid for once, for any number of claims and crashes.
\* (resumeAtomicRevision, single-dispatch.v1)
THEOREM RevisionDispatchedOnce == AtomicSpec => []OneRevisionDispatch
<1>1. RevisionInv => OneRevisionDispatch
  <2> SUFFICES ASSUME KeysFit, NEW i \in 1..Len(modelRuns), NEW k \in 1..Len(modelRuns),
                      modelRuns[i].key # NoKey, modelRuns[k].key # NoKey,
                      modelRuns[i].key[1] = modelRuns[k].key[1],
                      modelRuns[i].key[2] = modelRuns[k].key[2]
               PROVE  i = k
    BY DEF RevisionInv, OneRevisionDispatch
  <2>1. modelRuns[i].key \in UsedKeys /\ modelRuns[k].key \in UsedKeys
    BY DEF UsedKeys
  <2> QED BY <2>1 DEF KeysFit
<1> QED BY <1>1, RevisionInvariance, PTL

-----------------------------------------------------------------------------
(* One text: how a log grows.                                              *)

\* Fresh tokens are finitely many.
LEMMA FreshFinite ==
  ASSUME NEW log \in Seq(Event)
  PROVE  /\ IsFiniteSet(Fresh(log)) /\ Cardinality(Fresh(log)) \in Nat
         /\ Fresh(log) \in SUBSET (1..Len(log)) /\ Len(log) \in Nat
         /\ Cardinality(Fresh(log)) = 0 <=> Fresh(log) = {}
<1>1. Len(log) \in Nat /\ Fresh(log) \in SUBSET (1..Len(log))
  BY DEF Fresh
<1>2. IsFiniteSet(1..Len(log))
  BY <1>1, FS_Interval
<1>3. IsFiniteSet(Fresh(log))
  BY <1>1, <1>2, FS_Subset
<1> QED BY <1>1, <1>3, FS_CardinalityType, FS_EmptySet

\* The fresh tokens after one more event
LEMMA FreshGrows ==
  ASSUME NEW log \in Seq(Event), NEW e \in Event
  PROVE  LET new == Append(log, e)
         IN  /\ e.kind = "token" => Fresh(new) = Fresh(log) \cup {Len(log) + 1}
             /\ e.kind \in Openings => Fresh(new) = {}
             /\ e.kind \notin Openings \cup {"token"} => Fresh(new) = Fresh(log)
             /\ \A p \in Fresh(log) : new[p] = log[p]
             /\ new[Len(log) + 1] = e
<1>1. PICK new : new = Append(log, e)
  OBVIOUS
<1>2. /\ Len(log) \in Nat /\ Len(new) = Len(log) + 1 /\ new[Len(log) + 1] = e
      /\ \A p \in 1..Len(log) : new[p] = log[p]
  BY <1>1
<1>3. ASSUME e.kind \notin Openings
      PROVE  \A p \in 1..Len(log) : p \in Fresh(new) <=> p \in Fresh(log)
  <2> SUFFICES ASSUME NEW p \in 1..Len(log)
               PROVE  (\A o \in p..Len(new) : new[o].kind \notin Openings)
                      <=> (\A o \in p..Len(log) : log[o].kind \notin Openings)
    BY <1>2 DEF Fresh
  <2>1. \A o \in p..Len(new) : o = Len(log) + 1 \/ o \in p..Len(log)
    BY <1>2
  <2>2. \A o \in p..Len(log) : o \in p..Len(new) /\ o \in 1..Len(log)
    BY <1>2
  <2> QED BY <1>2, <1>3, <2>1, <2>2
<1>4. ASSUME e.kind \in Openings
      PROVE  Fresh(new) = {}
  <2> SUFFICES ASSUME NEW p \in Fresh(new) PROVE FALSE
    OBVIOUS
  <2>1. p \in 1..Len(new) /\ \A o \in p..Len(new) : new[o].kind \notin Openings
    BY DEF Fresh
  <2>2. Len(new) \in p..Len(new)
    BY <1>2, <2>1
  <2> QED BY <1>2, <1>4, <2>1, <2>2
<1>5. e.kind = "token" => Len(log) + 1 \in Fresh(new)
  <2> SUFFICES ASSUME e.kind = "token" PROVE Len(log) + 1 \in Fresh(new)
    OBVIOUS
  <2>1. \A o \in (Len(log) + 1)..Len(new) : new[o] = e
    BY <1>2
  <2> QED BY <1>2, <2>1 DEF Fresh, Openings
<1>6. Len(log) + 1 \in Fresh(new) => e.kind = "token"
  BY <1>2 DEF Fresh
<1>7. /\ \A p \in Fresh(new) : p \in 1..Len(log) \/ p = Len(log) + 1
      /\ \A p \in Fresh(log) : p \in 1..Len(log)
  BY <1>2 DEF Fresh
<1>8. e.kind = "token" => Fresh(new) = Fresh(log) \cup {Len(log) + 1}
  BY <1>3, <1>5, <1>7 DEF Openings
<1>9. e.kind \notin Openings \cup {"token"} => Fresh(new) = Fresh(log)
  BY <1>3, <1>6, <1>7
<1> QED BY <1>1, <1>2, <1>4, <1>7, <1>8, <1>9

\* Another log with the same tokens in the same places
SameText(old, new) ==
  Fresh(new) = Fresh(old) /\ \A p \in Fresh(old) : new[p] = old[p]

\* It is the same text.
LEMMA TextSame ==
  ASSUME NEW old, NEW new, SameText(old, new)
  PROVE  \A row : /\ IsTextOf(old, row) <=> IsTextOf(new, row)
                  /\ \A n : TextOf(old, row, n) <=> TextOf(new, row, n)
  BY DEF SameText, IsTextOf, TextOf

\* An event that is neither a token nor an opening does not change the text.
LEMMA TextQuiet ==
  ASSUME NEW log \in Seq(Event), NEW e \in Event, e.kind \notin Openings \cup {"token"}
  PROVE  SameText(log, Append(log, e))
  BY FreshGrows DEF SameText

\* The next token of the text continues it.
LEMMA TextGrows ==
  ASSUME NEW log \in Seq(Event), NEW e \in Event, NEW row, NEW n \in Nat,
         TextOf(log, row, n), e.kind = "token", e.data = Token(row, n + 1)
  PROVE  TextOf(Append(log, e), row, n + 1)
<1>1. PICK new : new = Append(log, e)
  OBVIOUS
<1>2. PICK l \in Nat : l = Len(log)
  OBVIOUS
<1>3. /\ Fresh(new) = Fresh(log) \cup {l + 1}
      /\ \A p \in Fresh(log) : new[p] = log[p]
      /\ new[l + 1] = e
  <2>1. LET grown == Append(log, e)
        IN  /\ e.kind = "token" => Fresh(grown) = Fresh(log) \cup {Len(log) + 1}
            /\ \A p \in Fresh(log) : grown[p] = log[p]
            /\ grown[Len(log) + 1] = e
    BY FreshGrows
  <2> QED BY <1>1, <1>2, <2>1
<1>4. Fresh(log) \in SUBSET (1..l) /\ IsFiniteSet(Fresh(log)) /\ l + 1 \notin Fresh(log)
  BY <1>2, FreshFinite
<1>5. Cardinality(Fresh(new)) = n + 1
  BY <1>3, <1>4, FS_AddElement DEF TextOf
<1>6. ASSUME NEW p \in Fresh(log)
      PROVE  new[p].data = Token(row, Cardinality({q \in Fresh(new) : q <= p}))
  <2>1. {q \in Fresh(new) : q <= p} = {q \in Fresh(log) : q <= p}
    BY <1>3, <1>4
  <2> QED BY <1>3, <2>1 DEF TextOf, IsTextOf
<1>7. new[l + 1].data = Token(row, Cardinality({q \in Fresh(new) : q <= l + 1}))
  <2>1. {q \in Fresh(new) : q <= l + 1} = Fresh(new)
    BY <1>3, <1>4
  <2> QED BY <1>3, <1>5, <2>1
<1> QED BY <1>1, <1>3, <1>5, <1>6, <1>7 DEF TextOf, IsTextOf

\* Without fresh tokens a log is the beginning of any text.
LEMMA TextEmpty ==
  ASSUME NEW log \in Seq(Event)
  PROVE  /\ Fresh(log) = {} => \A row : TextOf(log, row, 0) /\ IsTextOf(log, row)
         /\ \A row : TextOf(log, row, 0) => Fresh(log) = {}
  BY FreshFinite DEF TextOf, IsTextOf

-----------------------------------------------------------------------------
(* One text: every step.                                                   *)

\* The log of a job has the text it had.
Quiet(j) == events[j] \in Seq(Event) /\ SameText(events[j], events'[j])

\* A log that is not touched is quiet.
LEMMA QuietSame ==
  ASSUME TypeOK, NEW j \in Jobs, events'[j] = events[j]
  PROVE  Quiet(j)
  BY DEF Quiet, SameText, TypeOK

\* A job whose log is quiet still has the text of its checkpoint.
LEMMA JobTextKept ==
  ASSUME AtomicTyped, NEW j \in Jobs, JobText(j), Quiet(j),
         strict'[j] = strict[j], Len(modelRuns') >= Len(modelRuns), Len(modelRuns') \in Nat,
         \/ checkpoint'[j] = checkpoint[j]
         \/ checkpoint'[j].phase \in {"none", "model_completed"}
  PROVE  JobText(j)'
<1>1. /\ Fresh(events'[j]) = Fresh(events[j])
      /\ \A row : /\ IsTextOf(events[j], row) <=> IsTextOf(events'[j], row)
                  /\ \A n : TextOf(events[j], row, n) <=> TextOf(events'[j], row, n)
  BY TextSame DEF Quiet, SameText
<1>2. \E row \in 0..Len(modelRuns') : IsTextOf(events'[j], row)
  <2>1. PICK row \in 0..Len(modelRuns) : IsTextOf(events[j], row)
    BY DEF JobText
  <2>2. row \in 0..Len(modelRuns')
    BY <2>1 DEF AtomicTyped, AtomicTypes
  <2> QED BY <1>1, <2>1, <2>2
<1>3. CASE checkpoint'[j] = checkpoint[j]
  BY <1>1, <1>2, <1>3 DEF JobText
<1>4. CASE checkpoint'[j].phase \in {"none", "model_completed"}
  BY <1>2, <1>4 DEF JobText
<1> QED BY <1>3, <1>4

\* A run that is left alone has the text it had.
LEMMA RunTextKept ==
  ASSUME NEW q \in Runs, Fenced(q) => RunText(q), RunKept(q),
         Fenced(q)' => Fenced(q) /\ JobSame(target[q])
  PROVE  Fenced(q)' => RunText(q)'
<1> SUFFICES ASSUME Fenced(q)' PROVE RunText(q)'
  OBVIOUS
<1>1. /\ RunText(q) /\ target'[q] = target[q] /\ events'[target[q]] = events[target[q]]
      /\ at'[q] = at[q] /\ call'[q] = call[q]
  BY DEF RunKept, JobSame
<1> QED BY <1>1 DEF RunText, Calling

\* Its call, too.
LEMMA CallTextKept ==
  ASSUME NEW q \in Runs, CallText(q), call'[q] = call[q]
  PROVE  CallText(q)'
  BY DEF CallText

\* A step of one run leaves the text of the other runs alone.
LEMMA OthersText ==
  ASSUME TypeOK, AtomicTyped, TokensIdentifyRuns, TextInv, NEW r \in Runs, AnyStep(r)
  PROVE  \A q \in Runs \ {r} : (Fenced(q)' => RunText(q)') /\ CallText(q)'
<1> SUFFICES ASSUME NEW q \in Runs \ {r}
             PROVE  (Fenced(q)' => RunText(q)') /\ CallText(q)'
  OBVIOUS
<1>1. RunKept(q) /\ (Fenced(q) => RunText(q)) /\ CallText(q)
  BY OthersKept DEF TextInv
<1>2. Fenced(q)' => Fenced(q) /\ JobSame(target[q])
  BY OthersFenced
<1> QED BY <1>1, <1>2, RunTextKept, CallTextKept DEF RunKept

\* A step that appends no token, and moves no checkpoint but to a phase without
\* text, keeps the invariant.
LEMMA TextFrame ==
  ASSUME TypeOK, AtomicTyped, AtomicTyped', TokensIdentifyRuns, TextInv,
         NEW r \in Runs, AnyStep(r), UNCHANGED <<strict, checkpoint>>,
         Len(modelRuns') >= Len(modelRuns), \A j \in Jobs : Quiet(j),
         Fenced(r)' => RunText(r)', CallText(r)'
  PROVE  TextInv'
<1>1. ASSUME NEW j \in Jobs
      PROVE  JobText(j)'
  <2>1. Len(modelRuns') \in Nat
    BY DEF AtomicTyped, AtomicTypes
  <2> QED BY <2>1, JobTextKept DEF TextInv
<1> QED BY <1>1, OthersText DEF TextInv

\* A status event, or a notice, is no text.
LEMMA StatusQuiet ==
  ASSUME NEW log \in Seq(Event), NEW t \in 0..MaxFence, NEW s \in WorkflowStatus
  PROVE  /\ SameText(log, Append(log, StatusEvent(t, s)))
         /\ Append(log, StatusEvent(t, s)) \in Seq(Event)
<1>1. StatusEvent(t, s) \in Event
  BY EventTypes
<1>2. StatusEvent(t, s).kind \notin Openings \cup {"token"}
  BY DEF StatusEvent, Openings
<1> QED BY <1>1, <1>2, TextQuiet

\* A claim announces itself, and asks nothing yet.
LEMMA ClaimText ==
  ASSUME TypeOK, AtomicTyped, TokensIdentifyRuns, TextInv,
         NEW r \in Runs, NEW j \in Jobs, ClaimJob(r, j)
  PROVE  TextInv'
<1>1. AtomicTyped' /\ AnyStep(r)
  BY ClaimTyped DEF AnyStep
<1>2. /\ ~Calling(r) /\ UNCHANGED <<gatewayVars, atomicRows>>
      /\ at'[r] \notin {"idle", "assign", "load", "draft", "revise"}
      /\ fencingToken[j] + 1 \in 1..MaxFence
      /\ events' = [events EXCEPT ![j] =
           Append(events[j], StatusEvent(fencingToken[j] + 1, "RUNNING"))]
  BY ClaimFacts
<1>3. ASSUME NEW i \in Jobs
      PROVE  Quiet(i)
  <2>1. CASE i = j
    <3>1. events'[j] = Append(events[j], StatusEvent(fencingToken[j] + 1, "RUNNING"))
      BY <1>2 DEF TypeOK
    <3>2. /\ events[j] \in Seq(Event) /\ fencingToken[j] + 1 \in 0..MaxFence
          /\ "RUNNING" \in WorkflowStatus
      BY <1>2 DEF TypeOK, WorkflowStatus
    <3> QED BY <2>1, <3>1, <3>2, StatusQuiet DEF Quiet
  <2>2. CASE i # j
    BY <1>2, <2>2, QuietSame DEF TypeOK
  <2> QED BY <2>1, <2>2
<1>4. RunText(r)' /\ CallText(r)'
  BY <1>2 DEF RunText, CallText, Calling, gatewayVars
<1>5. UNCHANGED <<strict, checkpoint>> /\ Len(modelRuns') >= Len(modelRuns)
  BY <1>2 DEF gatewayVars, atomicRows, AtomicTyped, AtomicTypes
<1> QED BY <1>1, <1>3, <1>4, <1>5, TextFrame

\* Between two yields, and outside a call, nothing of the text changes.
LEMMA LocalText ==
  ASSUME TypeOK, AtomicTyped, TokensIdentifyRuns, TextInv, NEW r \in Runs, LocalStep(r)
  PROVE  TextInv'
<1>1. AtomicTyped' /\ AnyStep(r)
  BY LocalTyped DEF AnyStep
<1>2. /\ ~Calling(r)
      /\ UNCHANGED <<vars, gatewayVars, strict, checkpoint, attempts, restored>>
  BY LocalFacts
<1>u. target' = target /\ events' = events /\ modelRuns' = modelRuns /\ call' = call
  BY <1>2 DEF vars, runVars, rowVars, gatewayVars
<1>3. \A j \in Jobs : Quiet(j)
  BY <1>u, QuietSame
<1>4. at'[r] \in {"assign", "load"} => at[r] \in {"assign", "load"}
  <2>1. r \in DOMAIN at
    BY DEF AtomicTyped, AtomicTypes
  <2> QED BY <2>1 DEF LocalStep, AssignEvidence, ReviewAssignment, ReplaceEvidence,
             PrepareRevision, InspectOperation, Recover, Goto
<1>5. Fenced(r)' <=> Fenced(r)
  BY <1>2, QuietFence DEF vars, rowVars
<1>6. Fenced(r)' => RunText(r)'
  BY <1>2, <1>u, <1>4, <1>5 DEF TextInv, RunText, Calling
<1>7. CallText(r)'
  BY <1>u, CallTextKept DEF TextInv
<1>8. UNCHANGED <<strict, checkpoint>> /\ Len(modelRuns') >= Len(modelRuns)
  BY <1>2, <1>u DEF AtomicTyped, AtomicTypes
<1> QED BY <1>1, <1>3, <1>6, <1>7, <1>8, TextFrame

\* The model is asked when nothing is out.
LEMMA AskText ==
  ASSUME TypeOK, AtomicTyped, TokensIdentifyRuns, TextInv, NEW r \in Runs, Asks(r)
  PROVE  TextInv'
<1>1. AtomicTyped' /\ AnyStep(r)
  BY AskTyped DEF AnyStep
<1>2. /\ ~Idle(r) /\ target[r] \in Jobs
      /\ UNCHANGED <<vars, atomicRows, modelRuns>>
      /\ call'[r].pc = "start" /\ call'[r].row = 0 /\ call'[r].text = 0
      /\ \/ at[r] = "load" /\ at'[r] = "draft"
         \/ at[r] = "dispatch" /\ at'[r] = "revise"
  BY AskFacts
<1>u. target' = target /\ events' = events
  BY <1>2 DEF vars, runVars, rowVars
<1>3. \A j \in Jobs : Quiet(j)
  BY <1>u, QuietSame
<1>5. Fenced(r)' <=> Fenced(r)
  BY <1>2, QuietFence DEF vars, rowVars
<1>6. Fenced(r)' => RunText(r)'
  <2> SUFFICES ASSUME Fenced(r), at'[r] = "draft"
               PROVE  TextOf(events[target[r]], 0, 0)
    BY <1>2, <1>5, <1>u DEF RunText
  <2>1. Fresh(events[target[r]]) = {}
    BY <1>2 DEF TextInv, RunText
  <2> QED BY <1>2, <2>1, TextEmpty DEF TypeOK
<1>7. CallText(r)'
  BY <1>2 DEF CallText
<1>8. UNCHANGED <<strict, checkpoint>> /\ Len(modelRuns') >= Len(modelRuns)
  BY <1>2 DEF AtomicTyped, AtomicTypes, atomicRows
<1> QED BY <1>1, <1>3, <1>6, <1>7, <1>8, TextFrame

\* How far the text of a call is out
Out(r) == IF call[r].pc = "yield" THEN call[r].text - 1 ELSE call[r].text

\* A step of a call goes on with its row, or starts over when nothing is out.
LEMMA ModelCallText ==
  ASSUME NEW r \in Runs, NEW abort, CallTyped(r), CallText(r), GatewayStep(r, abort)
  PROVE  /\ CallText(r)'
         /\ call[r].mode = "text" =>
              \/ call'[r].row = call[r].row /\ Out(r)' = Out(r)
              \/ Out(r) = 0 /\ Out(r)' = 0
<1>1. /\ CallGoesOn(r) /\ call'[r].mode = call[r].mode
      /\ call[r].text \in 0..MaxText /\ call'[r].text \in 0..MaxText
      /\ call[r].mode \in {"text", "structured"}
  BY GatewayStepFacts, CallFields DEF CallGoesOn, CallTyped
<1>2. MaxText \in Nat
  BY GatewayBounds
<1> USE DEF CallText, Out
<1>3. CASE StartRun(r) \/ RefuseSecondDispatch(r) \/ StartRunFails(r)
  <2>1. /\ call[r].pc = "start" /\ call'[r].text = call[r].text
        /\ call'[r].pc \in {"stream", "catch"}
    BY <1>3, StartSteps
  <2> QED BY <2>1
<1>4. CASE Delta(r) \/ Completed(r) \/ ProviderFails(r)
  <2>1. /\ call[r].pc = "stream" /\ call'[r].row = call[r].row
        /\ \/ /\ call[r].mode = "text"
              /\ call'[r].pc = "yield" /\ call'[r].text = call[r].text + 1
           \/ /\ call[r].mode = "structured"
              /\ call'[r].pc = "stream" /\ call'[r].text = call[r].text + 1
           \/ /\ call[r].mode = "structured"
              /\ call'[r].pc = "reject" /\ call'[r].text = call[r].text
           \/ call'[r].pc \in {"accept", "catch"} /\ call'[r].text = call[r].text
    BY <1>4, StreamSteps
  <2> QED BY <1>1, <1>2, <2>1
<1>5. CASE Accept(r) \/ Reject(r) \/ FinishFails(r)
  <2>1. \/ /\ call[r].pc \in {"accept", "reject"}
           /\ call'[r].pc \in {"answered", "failed", "catch"}
           /\ call'[r].row = call[r].row /\ call'[r].text = call[r].text
        \/ /\ call[r].pc = "reject"
           /\ call'[r].pc = "start" /\ call'[r].row = 0 /\ call'[r].text = 0
    BY <1>5, FinishSteps
  <2> QED BY <1>1, <2>1
<1>6. CASE Catch(r, abort) \/ CloseFailed(r, abort) \/ CloseThrows(r) \/ DelayOver(r, abort)
  <2>1. \/ /\ call[r].pc \in {"catch", "closing", "delay"}
           /\ call'[r].pc \in {"closing", "failed", "threw"}
           /\ call'[r].row = call[r].row /\ call'[r].text = call[r].text
        \/ /\ call[r].pc = "closing" /\ call'[r].pc = "delay" /\ call[r].text = 0
           /\ call'[r].row = call[r].row /\ call'[r].text = call[r].text
        \/ /\ call[r].pc = "delay"
           /\ call'[r].pc = "start" /\ call'[r].row = 0 /\ call'[r].text = 0
    BY <1>6, CatchSteps
  <2> QED BY <1>1, <2>1
<1> QED BY <1>3, <1>4, <1>5, <1>6 DEF GatewayStep

\* So the text that is out stays the text of the call.
LEMMA ModelText ==
  ASSUME TypeOK, AtomicTyped, TokensIdentifyRuns, TextInv, NEW r \in Runs, ModelStep(r)
  PROVE  TextInv'
<1>1. /\ AtomicTyped' /\ AnyStep(r) /\ ~Idle(r) /\ CallGoesOn(r)
      /\ UNCHANGED <<vars, atomicRows, execVars>>
  BY ModelTyped DEF AnyStep
<1>2. CallTyped(r) /\ target[r] \in Jobs
  BY <1>1, RunFacts
<1>u. target' = target /\ events' = events /\ at' = at
  BY <1>1 DEF vars, runVars, rowVars, execVars
<1>3. \A j \in Jobs : Quiet(j)
  BY <1>u, QuietSame
<1>4. /\ CallText(r)'
      /\ call[r].mode = "text" =>
           \/ call'[r].row = call[r].row /\ Out(r)' = Out(r)
           \/ Out(r) = 0 /\ Out(r)' = 0
  BY <1>2, ModelCallText DEF ModelStep, TextInv
<1>5. Fenced(r)' <=> Fenced(r)
  BY <1>1, QuietFence DEF vars, rowVars
<1>6. Fenced(r)' => RunText(r)'
  <2> SUFFICES ASSUME Fenced(r)
               PROVE  RunText(r)'
    BY <1>5
  <2>1. RunText(r) /\ Calling(r) /\ call'[r].mode = call[r].mode
    BY <1>1 DEF TextInv, CallGoesOn
  <2>2. ASSUME at[r] = "draft", call[r].mode = "text"
        PROVE  TextOf(events[target[r]], call'[r].row, Out(r)')
    <3>1. TextOf(events[target[r]], call[r].row, Out(r))
      BY <2>1, <2>2 DEF RunText, Out
    <3>2. CASE call'[r].row = call[r].row /\ Out(r)' = Out(r)
      BY <3>1, <3>2
    <3>3. CASE Out(r) = 0 /\ Out(r)' = 0
      <4>1. events[target[r]] \in Seq(Event)
        BY <1>2 DEF TypeOK
      <4> QED BY <3>1, <3>3, <4>1, TextEmpty
    <3> QED BY <1>4, <2>2, <3>2, <3>3
  <2> QED BY <1>u, <2>1, <2>2 DEF RunText, Out
<1>8. UNCHANGED <<strict, checkpoint>> /\ Len(modelRuns') >= Len(modelRuns)
  BY <1>1 DEF AtomicTyped, AtomicTypes, atomicRows, CallGoesOn, RowsGrow
<1> QED BY <1>1, <1>3, <1>4, <1>6, <1>8, TextFrame

\* A verified answer is not out yet.
LEMMA VerifyText ==
  ASSUME TypeOK, AtomicTyped, TokensIdentifyRuns, TextInv, NEW r \in Runs, Verify(r)
  PROVE  TextInv'
<1>1. AtomicTyped' /\ AnyStep(r)
  BY VerifyTyped DEF AnyStep
<1>2. /\ UNCHANGED <<vars, atomicRows, restored, evidence>> /\ Leave(r)
      /\ at'[r] \in {"validate", "persist", "require"}
  BY VerifyFacts
<1>u. events' = events
  BY <1>2 DEF vars, rowVars
<1>3. \A j \in Jobs : Quiet(j)
  BY <1>u, QuietSame
<1>4. call'[r].pc = "none" /\ modelRuns' = modelRuns
  BY <1>2, LeaveFacts DEF AtomicTyped, AtomicTypes
<1>5. RunText(r)' /\ CallText(r)'
  BY <1>2, <1>4 DEF RunText, CallText, Calling
<1>8. UNCHANGED <<strict, checkpoint>> /\ Len(modelRuns') >= Len(modelRuns)
  BY <1>2, <1>4 DEF AtomicTyped, AtomicTypes, atomicRows
<1> QED BY <1>1, <1>3, <1>5, <1>8, TextFrame

\* Nor does the signal of the monitor say anything.
LEMMA MonitorText ==
  ASSUME TypeOK, AtomicTyped, TokensIdentifyRuns, TextInv, NEW r \in Runs, MonitorStep(r)
  PROVE  TextInv'
<1>1. /\ AtomicTyped' /\ AnyStep(r)
      /\ UNCHANGED <<gatewayVars, atomicRows, execVars, rowVars, target, token>>
  BY MonitorTyped DEF AnyStep
<1>u. events' = events /\ UNCHANGED <<modelRuns, call, at, strict, checkpoint, target>>
  BY <1>1 DEF rowVars, gatewayVars, execVars, atomicRows
<1>3. \A j \in Jobs : Quiet(j)
  BY <1>u, QuietSame
<1>4. Fenced(r)' <=> Fenced(r)
  BY <1>1 DEF Fenced, Idle, rowVars, leaseVars
<1>5. (Fenced(r)' => RunText(r)') /\ CallText(r)'
  BY <1>u, <1>4 DEF TextInv, RunText, CallText, Calling
<1>8. Len(modelRuns') >= Len(modelRuns)
  BY <1>u DEF AtomicTyped, AtomicTypes
<1> QED BY <1>1, <1>u, <1>3, <1>5, <1>8, TextFrame

\* The end of a run is a notice and a status, or nothing.
LEMMA EndText ==
  ASSUME TypeOK, AtomicTyped, TokensIdentifyRuns, TextInv, NEW r \in Runs, EndStep(r)
  PROVE  TextInv'
<1>1. AtomicTyped' /\ AnyStep(r)
  BY EndTyped DEF AnyStep
<1>2. /\ ~Idle(r) /\ target[r] \in Jobs
      /\ Complete(r) \/ PauseForGrounding(r) \/ Fail(r) \/ Abandon(r)
      /\ UNCHANGED atomicRows /\ Leave(r)
      /\ at'[r] = "idle" /\ token'[r] = 0
      /\ \A i \in Jobs \ {target[r]} : events'[i] = events[i]
  BY EndFacts
<1>3. PICK log \in Seq(Event) : log = events[target[r]]
  BY <1>2 DEF TypeOK
<1>4. token[r] \in 0..MaxFence
  BY DEF TypeOK
<1>5. Quiet(target[r])
  <2>1. CASE Abandon(r)
    BY <1>2, <2>1, QuietSame DEF Abandon, rowVars
  <2>2. CASE Complete(r)
    <3>1. events'[target[r]] = Append(log, StatusEvent(token[r], "SUCCEEDED"))
      BY <1>2, <1>3, <2>2 DEF Complete, SettleStatus, Settle, TypeOK
    <3>2. "SUCCEEDED" \in WorkflowStatus
      BY DEF WorkflowStatus
    <3> QED BY <1>3, <1>4, <3>1, <3>2, StatusQuiet DEF Quiet
  <2>3. CASE PauseForGrounding(r) \/ Fail(r)
    <3>1. PICK k \in {"material_gap", "error"}, s \in {"WAITING_MATERIAL", "FAILED"} :
            events' = [events EXCEPT ![target[r]] =
              Append(Append(log, PlainEvent(token[r], k, 0)), StatusEvent(token[r], s))]
      BY <1>3, <2>3 DEF PauseForGrounding, Fail, SettleWithNotice, Settle
    <3>2. PICK mid : mid = Append(log, PlainEvent(token[r], k, 0))
      OBVIOUS
    <3>3. PlainEvent(token[r], k, 0) \in Event /\ s \in WorkflowStatus
      BY <1>4, EventTypes, TokenPayloadsAssumption DEF StoreKinds, WorkflowStatus
    <3>4. PlainEvent(token[r], k, 0).kind \notin Openings \cup {"token"}
      BY DEF PlainEvent, Openings
    <3>5. SameText(log, mid) /\ mid \in Seq(Event)
      BY <3>2, <3>3, <3>4, TextQuiet
    <3>6. SameText(mid, Append(mid, StatusEvent(token[r], s)))
      BY <1>4, <3>3, <3>5, StatusQuiet
    <3>7. events'[target[r]] = Append(mid, StatusEvent(token[r], s))
      BY <1>2, <3>1, <3>2 DEF TypeOK
    <3>8. SameText(log, events'[target[r]])
      BY <3>5, <3>6, <3>7 DEF SameText
    <3> QED BY <1>3, <3>8 DEF Quiet
  <2> QED BY <1>2, <2>1, <2>2, <2>3
<1>6. \A j \in Jobs : Quiet(j)
  BY <1>2, <1>5, QuietSame
<1>7. call'[r].pc = "none" /\ modelRuns' = modelRuns
  BY <1>2, LeaveFacts DEF AtomicTyped, AtomicTypes
<1>8. RunText(r)' /\ CallText(r)'
  BY <1>2, <1>7 DEF RunText, CallText, Calling
<1>9. UNCHANGED <<strict, checkpoint>> /\ Len(modelRuns') >= Len(modelRuns)
  BY <1>2, <1>7 DEF AtomicTyped, AtomicTypes, atomicRows
<1> QED BY <1>1, <1>6, <1>8, <1>9, TextFrame

\* A handler appends a status event or none, and drops a checkpoint at most.
LEMMA HandlerText ==
  ASSUME TypeOK, AtomicTyped, TokensIdentifyRuns, TextInv, NEW j \in Jobs, HandlerStep(j)
  PROVE  TextInv'
<1>1. /\ UNCHANGED <<gatewayVars, strict>>
      /\ \A i \in Jobs \ {j} : checkpoint'[i] = checkpoint[i] /\ events'[i] = events[i]
      /\ checkpoint'[j] \in {checkpoint[j], NoCheckpoint}
      /\ \A q \in Runs : RunKept(q)
  BY HandlerFacts DEF JobKept
<1>2. Quiet(j)
  <2>1. \/ events' = events
        \/ \E s \in {"QUEUED", "STOPPED"} :
             events' = [events EXCEPT ![j] = Append(events[j], StatusEvent(0, s))]
    BY DEF HandlerStep, CreateJob, CancelJob, ResumeJob, LoseLease, Create, Cancel,
           ResumeMaterial, LeaseExpires, AppendEvent
  <2>2. CASE events' = events
    BY <2>2, QuietSame
  <2>3. ASSUME NEW s \in {"QUEUED", "STOPPED"},
               events' = [events EXCEPT ![j] = Append(events[j], StatusEvent(0, s))]
        PROVE  Quiet(j)
    <3>1. events[j] \in Seq(Event) /\ 0 \in 0..MaxFence /\ s \in WorkflowStatus
      BY MaxFenceAssumption DEF TypeOK, WorkflowStatus
    <3>2. events'[j] = Append(events[j], StatusEvent(0, s))
      BY <2>3 DEF TypeOK
    <3> QED BY <3>1, <3>2, StatusQuiet DEF Quiet
  <2> QED BY <2>1, <2>2, <2>3
<1>3. ASSUME NEW i \in Jobs
      PROVE  JobText(i)'
  <2>1. Quiet(i)
    BY <1>1, <1>2, QuietSame
  <2>2. Len(modelRuns') >= Len(modelRuns) /\ Len(modelRuns') \in Nat
    BY <1>1 DEF gatewayVars, AtomicTyped, AtomicTypes
  <2>3. NoCheckpoint.phase = "none"
    BY DEF NoCheckpoint, Checkpoint
  <2> QED BY <1>1, <2>1, <2>2, <2>3, JobTextKept DEF TextInv
<1>4. ASSUME NEW q \in Runs
      PROVE  (Fenced(q)' => RunText(q)') /\ CallText(q)'
  <2>1. Fenced(q)' => Fenced(q) /\ JobSame(target[q])
    BY HandlersFence
  <2> QED BY <1>1, <2>1, RunTextKept, CallTextKept DEF TextInv, RunKept
<1> QED BY <1>3, <1>4 DEF TextInv

\* What a yield does to the log, and what its checkpoint says of the text.
LEMMA YieldJobText ==
  ASSUME TypeOK, AtomicTyped, TokensIdentifyRuns, RevisionInv, TextInv,
         NEW r \in Runs, YieldingStep(r),
         NEW c \in CheckpointType, YieldsFrom(r, c)
  PROVE  JobText(target[r])' /\ RunText(r)'
<1>1. PICK t \in Jobs : t = target[r]
  BY YieldTyped
<1>2. PICK log \in Seq(Event) : log = events[t]
  BY DEF TypeOK
<1>3. /\ Fenced(r) /\ ~Idle(r) /\ checkpoint'[t] = c /\ restored'[r] = c /\ target' = target
      /\ \A k, d : Yield(r, k, d, c) => events'[t] = Append(log, PlainEvent(token[r], k, d))
  <2>1. \E k, d : Yield(r, k, d, c)
    BY DEF YieldsFrom
  <2> QED BY <1>1, <1>2, <2>1, YieldFacts, FencedTarget DEF AtomicTyped, runVars
<1>4. /\ strict' = strict /\ candidate' = candidate /\ modelRuns' = modelRuns
      /\ r \in DOMAIN at
  BY YieldRest DEF AtomicTyped, AtomicTypes
<1>5. /\ CheckpointFits(restored[r]) /\ PlaceFits(r) /\ restored[r] = checkpoint[t]
      /\ Calling(r) => (call[r].mode = "text" <=> at[r] = "draft" /\ ~strict[t])
      /\ JobText(t) /\ RunText(r) /\ CallText(r)
  BY <1>1, <1>3 DEF RevisionInv, RunsFit, RunFits, TextInv
<1>6. /\ token[r] \in 0..MaxFence /\ restored[r].candidate.row \in 0..Len(modelRuns)
      /\ candidate[r].row \in 0..Len(modelRuns) /\ call[r].row \in 0..Len(modelRuns)
      /\ restored[r].emitted \in Nat /\ call[r].text \in Nat /\ Len(modelRuns) \in Nat
  <2>1. /\ restored[r].candidate.row \in 0..Len(modelRuns)
        /\ candidate[r].row \in 0..Len(modelRuns) /\ call[r].row \in 0..Len(modelRuns)
        /\ restored[r].emitted \in 0..MaxText /\ call[r] \in CallType
    BY <1>3, RunFacts
  <2>2. call[r].text \in 0..MaxText /\ MaxText \in Nat
    BY <2>1, CallFields, GatewayBounds
  <2>3. token[r] \in 0..MaxFence /\ Len(modelRuns) \in Nat
    BY DEF TypeOK, AtomicTyped, AtomicTypes
  <2> QED BY <2>1, <2>2, <2>3
\* A yield appends its event.
<1>e. ASSUME NEW k \in AtomicKinds, NEW d \in Nat, Yield(r, k, d, c)
      PROVE  \E e \in Event : e.kind = k /\ e.data = d /\ events'[t] = Append(log, e)
  <2>1. k \in Kinds \cup StoreKinds /\ d \in Payloads
    BY AtomicKindsAssumption, TokenPayloadsAssumption
  <2>2. PICK e : e = PlainEvent(token[r], k, d)
    OBVIOUS
  <2>3. e \in Event /\ e.kind = k /\ e.data = d
    BY <1>6, <2>1, <2>2, EventTypes DEF PlainEvent
  <2> QED BY <1>3, <1>e, <2>2, <2>3
\* One that is no token leaves the text as it is.
<1>q. ASSUME NEW k \in AtomicKinds \ (Openings \cup {"token"}), Yield(r, k, 0, c)
      PROVE  SameText(log, events'[t])
  <2>1. PICK e \in Event : e.kind = k /\ events'[t] = Append(log, e)
    BY <1>e, <1>q
  <2> QED BY <2>1, TextQuiet
<1>s. \A row, n : /\ TextOf(log, row, n) => IsTextOf(log, row)
                  /\ SameText(log, events'[t]) =>
                       /\ Fresh(events'[t]) = Fresh(log)
                       /\ IsTextOf(log, row) <=> IsTextOf(events'[t], row)
                       /\ TextOf(log, row, n) <=> TextOf(events'[t], row, n)
  <2>1. SameText(log, events'[t]) => Fresh(events'[t]) = Fresh(log)
    BY DEF SameText
  <2> QED BY <2>1, TextSame DEF TextOf
<1>7. ASSUME OpenAttempt(r), c.phase = "model_started",
             \E k \in Openings : Yield(r, k, 0, c)
      PROVE  JobText(t)' /\ RunText(r)'
  <2>1. PICK k \in Openings : Yield(r, k, 0, c)
    BY <1>7
  <2>2. k \in AtomicKinds
    BY DEF Openings, AtomicKinds
  <2>3. Fresh(events'[t]) = {} /\ events'[t] \in Seq(Event)
    <3>1. PICK e \in Event : e.kind = k /\ events'[t] = Append(log, e)
      BY <1>e, <2>1, <2>2
    <3> QED BY <3>1, FreshGrows
  <2>4. \A row : IsTextOf(events'[t], row)
    BY <2>3, TextEmpty
  <2>5. at'[r] = "assign" /\ ~Calling(r)'
    BY <1>4, <1>7, YieldRest DEF OpenAttempt, Goto, StreamToken, StreamCompleted, Calling
  <2> QED BY <1>1, <1>3, <1>4, <1>6, <1>7, <2>3, <2>4, <2>5 DEF JobText, RunText
<1>8. ASSUME StreamToken(r), c = restored[r],
             Yield(r, "token", Token(call[r].row, call[r].text), c)
      PROVE  JobText(t)' /\ RunText(r)'
  <2>1. PICK row \in 0..Len(modelRuns), n \in Nat : row = call[r].row /\ call[r].text = n + 1
    <3>1. PICK x \in Nat : x = call[r].text
      BY <1>6
    <3>2. x > 0
      BY <1>5, <1>8, <3>1 DEF StreamToken, CallText
    <3>3. PICK n \in Nat : x = n + 1
      <4>1. x - 1 \in Nat /\ x = (x - 1) + 1
        BY <3>2
      <4> QED BY <4>1
    <3>4. PICK row \in 0..Len(modelRuns) : row = call[r].row
      BY <1>6
    <3> QED BY <3>1, <3>3, <3>4
  <2>2. /\ call[r].pc = "yield" /\ call[r].mode = "text" /\ Calling(r)
        /\ at[r] = "draft" /\ ~strict[t]
    BY <1>5, <1>8 DEF StreamToken, CallText, Calling
  <2>3. TextOf(log, row, n)
    BY <1>1, <1>2, <1>5, <2>1, <2>2 DEF RunText
  <2>4. TextOf(events'[t], row, n + 1)
    <3>1. PICK e \in Event : /\ e.kind = "token" /\ e.data = Token(row, n + 1)
                             /\ events'[t] = Append(log, e)
      <4>1. row \in Nat /\ n + 1 \in Nat
        BY <1>6
      <4>2. Token(row, n + 1) \in Nat /\ "token" \in AtomicKinds
        BY <4>1, TokenIsNumber DEF AtomicKinds
      <4> QED BY <1>e, <1>8, <2>1, <4>2
    <3> QED BY <2>3, <3>1, TextGrows
  <2>5. c.phase = "model_started"
    BY <1>5, <1>8, <2>2 DEF PlaceFits
  <2>6. JobText(t)'
    BY <1>3, <1>4, <2>1, <2>2, <2>4, <2>5 DEF JobText, TextOf
  <2>7. /\ call'[r].pc = "stream" /\ call'[r].row = row /\ call'[r].text = n + 1
        /\ at'[r] = "draft"
    <3>1. Pull(r) /\ at' = at
      BY <1>8 DEF StreamToken
    <3> QED BY <2>1, <2>2, <3>1, PullFacts DEF AtomicTyped, AtomicTypes
  <2> QED BY <1>1, <1>3, <2>4, <2>6, <2>7 DEF RunText
\* Where the run goes on, no call is open, and nothing is assigned.
<1>r. ASSUME StreamCompleted(r) \/ RequireTargetedRevision(r) \/ AnnounceRetrieval(r)
             \/ RecordIntent(r) \/ Seal(r) \/ EmitToken(r) \/ EmitDone(r)
      PROVE  RunText(r)'
  <2>1. at'[r] \in {"finish", "review", "prepare", "dispatch", "emit"}
    BY <1>4, <1>r DEF StreamCompleted, RequireTargetedRevision, AnnounceRetrieval,
       RecordIntent, Seal, EmitToken, EmitDone, Goto
  <2> QED BY <2>1 DEF RunText
<1>9. ASSUME StreamCompleted(r), c.phase = "model_completed", SameText(log, events'[t])
      PROVE  JobText(t)'
  BY <1>2, <1>3, <1>4, <1>5, <1>9, <1>s DEF JobText
<1>10. ASSUME SameText(log, events'[t]), Fresh(log) = {},
              c.phase \in {"atomic_revision_required", "atomic_revision_retrieved",
                           "atomic_revision_model_started"}
       PROVE  JobText(t)'
  BY <1>2, <1>3, <1>4, <1>5, <1>10, <1>s DEF JobText
<1>11. ASSUME c.phase \in {"atomic_sealed", "atomic_shadow_complete"},
              c.candidate.row \in 0..Len(modelRuns),
              TextOf(events'[t], c.candidate.row, c.emitted)
       PROVE  JobText(t)'
  BY <1>3, <1>4, <1>11 DEF JobText, TextOf
<1>12. ASSUME RequireTargetedRevision(r) \/ AnnounceRetrieval(r) \/ RecordIntent(r)
       PROVE  Fresh(log) = {}
  BY <1>1, <1>2, <1>5, <1>12 DEF RequireTargetedRevision, AnnounceRetrieval, RecordIntent,
     PlaceFits, JobText
<1>13. ASSUME Seal(r), c.candidate = candidate[r], c.emitted = restored[r].emitted
       PROVE  TextOf(log, c.candidate.row, c.emitted)
  <2>1. CASE restored[r].phase = "atomic_sealed"
    BY <1>2, <1>5, <1>13, <2>1 DEF Seal, PlaceFits, JobText
  <2>2. CASE restored[r].phase # "atomic_sealed"
    <3>1. /\ restored[r].phase \in {"model_started", "atomic_revision_model_started"}
          /\ at[r] = "validate" => strict[t]
          /\ restored[r].phase = "model_started" => at[r] = "validate"
      BY <1>1, <1>5, <1>13, <2>2 DEF Seal, PlaceFits
    <3>2. Fresh(log) = {} /\ restored[r].emitted = 0
      BY <1>2, <1>5, <3>1 DEF CheckpointFits, JobText
    <3> QED BY <1>13, <3>2, TextEmpty
  <2> QED BY <2>1, <2>2
<1>14. ASSUME EmitToken(r) \/ EmitDone(r)
       PROVE  /\ TextOf(log, restored[r].candidate.row, restored[r].emitted)
              /\ candidate[r] = restored[r].candidate /\ restored[r].phase = "atomic_sealed"
  BY <1>2, <1>5, <1>14 DEF EmitToken, EmitDone, PlaceFits, JobText
<1>15. ASSUME EmitToken(r), c.emitted = restored[r].emitted + 1,
              c.phase = restored[r].phase, c.candidate = restored[r].candidate,
              Yield(r, "token", Token(candidate[r].row, restored[r].emitted + 1), c)
       PROVE  JobText(t)'
  <2>1. PICK row \in 0..Len(modelRuns), n \in Nat :
          row = restored[r].candidate.row /\ n = restored[r].emitted
    BY <1>6
  <2>2. TextOf(log, row, n) /\ candidate[r].row = row /\ c.phase = "atomic_sealed"
    BY <1>14, <1>15, <2>1
  <2>3. PICK e \in Event : /\ e.kind = "token" /\ e.data = Token(row, n + 1)
                           /\ events'[t] = Append(log, e)
    <3>1. row \in Nat /\ n + 1 \in Nat
      BY <1>6
    <3>2. Token(row, n + 1) \in Nat /\ "token" \in AtomicKinds
      BY <3>1, TokenIsNumber DEF AtomicKinds
    <3> QED BY <1>e, <1>15, <2>1, <2>2, <3>2
  <2>4. TextOf(events'[t], row, n + 1)
    BY <2>2, <2>3, TextGrows
  <2> QED BY <1>11, <1>15, <2>1, <2>2, <2>4
\* The kinds that neither open an attempt nor are a token
<1>k. {"model_completed", "grounding.revision_required", "grounding.revision_retrieved",
       "grounding.revision_model_started", "grounding.proposal_validated", "done"}
      \subseteq AtomicKinds \ (Openings \cup {"token"})
  BY DEF AtomicKinds, Openings
<1>16. ASSUME JobText(t)', RunText(r)'
       PROVE  JobText(target[r])' /\ RunText(r)'
  BY <1>1, <1>3, <1>16
<1>17. CASE StreamCompleted(r) /\ c.phase = "model_completed" /\ Yield(r, "model_completed", 0, c)
  BY <1>9, <1>16, <1>17, <1>k, <1>q, <1>r
<1>18. CASE RequireTargetedRevision(r) /\ c.phase = "atomic_revision_required"
            /\ Yield(r, "grounding.revision_required", 0, c)
  BY <1>10, <1>12, <1>16, <1>18, <1>k, <1>q, <1>r
<1>19. CASE AnnounceRetrieval(r) /\ c.phase = "atomic_revision_retrieved"
            /\ Yield(r, "grounding.revision_retrieved", 0, c)
  BY <1>10, <1>12, <1>16, <1>19, <1>k, <1>q, <1>r
<1>20. CASE RecordIntent(r) /\ c.phase = "atomic_revision_model_started"
            /\ Yield(r, "grounding.revision_model_started", 0, c)
  BY <1>10, <1>12, <1>16, <1>20, <1>k, <1>q, <1>r
<1>21. CASE Seal(r) /\ Yield(r, "grounding.proposal_validated", 0, c)
            /\ c.phase = "atomic_sealed" /\ c.candidate = candidate[r]
            /\ c.emitted = restored[r].emitted
  <2>1. SameText(log, events'[t])
    BY <1>21, <1>k, <1>q
  <2>2. TextOf(events'[t], c.candidate.row, c.emitted)
    BY <1>13, <1>21, <1>s, <2>1
  <2>3. c.candidate.row \in 0..Len(modelRuns)
    BY <1>6, <1>21
  <2> QED BY <1>11, <1>16, <1>21, <1>r, <2>2, <2>3
<1>22. CASE EmitDone(r) /\ c.phase = "atomic_shadow_complete" /\ Yield(r, "done", 0, c)
            /\ c.candidate = restored[r].candidate /\ c.emitted = restored[r].emitted
  <2>1. SameText(log, events'[t])
    BY <1>22, <1>k, <1>q
  <2>2. TextOf(events'[t], c.candidate.row, c.emitted)
    BY <1>14, <1>22, <1>s, <2>1
  <2>3. c.candidate.row \in 0..Len(modelRuns)
    BY <1>6, <1>22
  <2> QED BY <1>11, <1>16, <1>22, <1>r, <2>2, <2>3
<1>23. CASE EmitToken(r) /\ c.emitted = restored[r].emitted + 1
            /\ c.phase = restored[r].phase /\ c.candidate = restored[r].candidate
            /\ Yield(r, "token", Token(candidate[r].row, restored[r].emitted + 1), c)
  BY <1>15, <1>16, <1>23, <1>r
<1> QED BY <1>7, <1>8, <1>16, <1>17, <1>18, <1>19, <1>20, <1>21, <1>22, <1>23 DEF YieldsFrom

\* A yield keeps the text of every job and every run.
LEMMA YieldText ==
  ASSUME TypeOK, AtomicTyped, TokensIdentifyRuns, RevisionInv, TextInv,
         NEW r \in Runs, YieldingStep(r)
  PROVE  TextInv'
<1>1. PICK c \in CheckpointType : YieldsFrom(r, c)
  BY YieldShape DEF AtomicTyped
<1>2. JobText(target[r])' /\ RunText(r)'
  BY <1>1, YieldJobText
<1>3. PICK t \in Jobs : t = target[r]
  BY YieldTyped
<1>4. AtomicTyped' /\ AnyStep(r) /\ target' = target
      /\ \A i \in Jobs \ {t} : events'[i] = events[i] /\ checkpoint'[i] = checkpoint[i]
  <2>1. \E k, d : Yield(r, k, d, c)
    BY <1>1 DEF YieldsFrom
  <2>2. target' = target
    BY <1>1, <2>1, YieldFacts DEF AtomicTyped, runVars
  <2> QED BY <1>3, <2>2, YieldTyped DEF AnyStep, JobKept
<1>5. strict' = strict /\ modelRuns' = modelRuns
  BY <1>1, YieldRest DEF AtomicTyped, AtomicTypes
<1>6. ASSUME NEW i \in Jobs
      PROVE  JobText(i)'
  <2>1. CASE i = t
    BY <1>2, <1>3, <1>4, <2>1 DEF JobText
  <2>2. CASE i # t
    <3>1. Quiet(i) /\ JobText(i) /\ Len(modelRuns) \in Nat
      BY <1>4, <2>2, QuietSame DEF TextInv, AtomicTyped, AtomicTypes
    <3> QED BY <1>4, <1>5, <2>2, <3>1, JobTextKept
  <2> QED BY <2>1, <2>2
<1>7. CallText(r)'
  <2>1. CASE StreamToken(r)
    <3>1. Pull(r) /\ call[r].mode = "text"
      BY <2>1 DEF StreamToken, TextInv, CallText
    <3> QED BY <3>1, PullFacts DEF CallText, AtomicTyped, AtomicTypes
  <2>2. CASE StreamCompleted(r)
    BY <2>2, LeaveFacts DEF StreamCompleted, CallText, AtomicTyped, AtomicTypes
  <2>3. CASE ~StreamToken(r) /\ ~StreamCompleted(r)
    BY <2>3, CallTextKept DEF TextInv, YieldingStep, OpenAttempt, RequireTargetedRevision,
       AnnounceRetrieval, RecordIntent, Seal, EmitToken, EmitDone, gatewayVars
  <2> QED BY <2>1, <2>2, <2>3
<1> QED BY <1>2, <1>4, <1>6, <1>7, OthersText DEF TextInv

\* Nothing is written and nobody called when it begins.
LEMMA TextInit == AtomicInit => TextInv
<1> SUFFICES ASSUME AtomicInit PROVE TextInv
  OBVIOUS
<1>1. /\ \A j \in Jobs : events[j] = <<>> /\ checkpoint[j] = NoCheckpoint
      /\ \A r \in Runs : call[r] = NoCall /\ Idle(r) /\ ~Fenced(r)
  BY CallersAssumption DEF AtomicInit, GatewayInit, Init, Idle, Fenced
<1>2. NoCheckpoint.phase = "none" /\ NoCall.pc = "none"
  BY DEF NoCheckpoint, Checkpoint, NoCall
<1>3. <<>> \in Seq(Event) /\ Fresh(<<>>) = {}
  BY DEF Fresh
<1>4. \A row : IsTextOf(<<>>, row)
  BY <1>3, TextEmpty
<1>5. modelRuns = <<>>
  BY DEF AtomicInit, GatewayInit
<1> QED BY <1>1, <1>2, <1>4, <1>5 DEF TextInv, JobText, CallText

\* Every step keeps the invariant.
LEMMA TextStep ==
  ASSUME TypeOK, AtomicTyped, TokensIdentifyRuns, RevisionInv, TextInv, [AtomicNext]_allVars
  PROVE  TextInv'
<1>1. CASE UNCHANGED allVars
  BY <1>1 DEF allVars, vars, rowVars, leaseVars, runVars, gatewayVars, atomicRows, execVars,
     TextInv, JobText, RunText, CallText, Calling, Fenced, Idle
<1>2. CASE AtomicNext
  BY <1>2, StepKinds, HandlerText, ClaimText, YieldText, LocalText, AskText, ModelText,
     VerifyText, MonitorText, EndText
<1> QED BY <1>1, <1>2

\* What is out of a text is what the checkpoint, the run and its call say.
THEOREM TextInvariance == AtomicSpec => []TextInv
<1>1. TypeOK /\ AtomicTyped /\ IInv /\ RevisionInv /\ TextInv /\ [AtomicNext]_allVars => TextInv'
  BY TextStep DEF IInv
<1> QED BY <1>1, TextInit, AtomicInvariance, AtomicStoreInvariance, RevisionInvariance, PTL
    DEF AtomicSpec

\* TokensAreOneText: whatever is retried, repaired, superseded or resumed, what
\* a reader gets since the last opening is one answer from its beginning, each
\* piece once and in order.  (streamWithAdapter, executeAtomic)
THEOREM OneText == AtomicSpec => []TokensAreOneText
<1>1. TextInv => TokensAreOneText
  BY DEF TextInv, JobText, TokensAreOneText
<1> QED BY <1>1, TextInvariance, PTL
=============================================================================
