----------------------------- MODULE FilesProofs -----------------------------
(***************************************************************************)
(* Theorems about Files, for any number of files, versions, workers,       *)
(* dispatchers, recoverers and brokers, and any bounds: its types, and     *)
(* that no step, however late its actor is, takes away a committed file,   *)
(* the bytes of an upload or a parsed document.                            *)
(***************************************************************************)
EXTENDS Files, TLAPS

-----------------------------------------------------------------------------
(* Types.                                                                  *)

SourceType == [st : ParseStatus \cup {"none"}, gen : 0..MaxGen,
               tok : Workers \cup {None}, live : BOOLEAN,
               tomb : BOOLEAN, key : Versions \cup {None}]
OutboxType == [st : {"none", "storage_pending", "pending", "published"},
               gen : 0..MaxGen, owner : Publishers \cup {None},
               live : BOOLEAN, due : BOOLEAN]
EntryType == [st : {"none", "waiting", "active", "failed"},
              by : Workers \cup {None}, tries : 0..MaxTries, stalled : BOOLEAN]
AttemptType == [pc : {"idle", "read", "claim", "bytes", "activate", "fail"},
                f : Files \cup {None}, g : 0..MaxGen, v : Versions \cup {None}]
ReadType == [pc : {"idle", "claimed", "add", "added"},
             f : Files \cup {None}, g : 0..MaxGen]

\* An event is of a generation, and only one that is there has an owner.
OutboxFits(o) == /\ o.st # "none" => o.gen \in Gens
                 /\ o.owner # None => o.st # "none"

\* A job in the queue has attempts left unless it failed, and is somebody's
\* only while it is active; whoever is at work has something to work on.
EntryFits(e) == /\ e.by # None => e.st = "active"
                /\ e.st # "failed" => e.tries < MaxTries
AttemptFits(a) == /\ a.pc # "idle" => a.f \in Files /\ a.g \in Gens
                  /\ a.pc = "activate" => a.v \in Versions
ReadFits(e) == e.pc # "idle" => e.f \in Files /\ e.g \in Gens

IntentType == [st : {"none", "ACTIVE", "UNCERTAIN", "REJECTED"},
               owner : Recoverers \cup {"writer", None},
               live : BOOLEAN, due : BOOLEAN]
RecoveryType == [pc : RecoveryPhases, f : Files \cup {None},
                 st : {"none", "ACTIVE", "UNCERTAIN"}, seen : SUBSET {"temp", "dest"}]
OpType == [st : {"none", "PENDING", "EXECUTING", "RETRY", "SUCCEEDED", "REJECTED"},
           fence : 0..MaxFence, live : BOOLEAN, due : BOOLEAN]
WorkType == [pc : {"idle", "verify", "open", "remove", "create", "copy",
                   "rename", "exists", "discard", "check", "unlink",
                   "undo", "delete", "complete"},
             kind : Kinds \cup {None}, f : Files \cup {None},
             fence : 0..MaxFence, out : {None, "SUCCEEDED", "RETRY", "REJECTED"}]

\* A recoverer at work, and a broker at work, has something to work on.
RecoveryFits(e) == e.pc # "idle" => e.f \in Files
WorkFits(e) ==
  e.pc # "idle" =>
    /\ e.kind \in Kinds /\ e.f \in Files /\ e.fence \in Fences
    /\ e.pc = "delete" => e.kind = "DELETE_BLOB"
    /\ e.pc \notin {"delete", "complete"} => e.kind = "PROMOTE"
    /\ e.pc = "complete" => e.out \in {"SUCCEEDED", "RETRY", "REJECTED"}
    /\ e.pc = "undo" => e.out \in {"RETRY", "REJECTED"}

RowsTyped ==
  /\ src \in [Files -> SourceType]
  /\ docs \in [Files -> [Versions -> {"none", "inactive", "active"}]]
  /\ outbox \in [Files -> OutboxType]
  /\ \A f \in Files : OutboxFits(outbox[f])

QueueTyped ==
  /\ bull \in [Files -> [Gens -> EntryType]]
  /\ \A f \in Files, g \in Gens : EntryFits(bull[f][g])
  /\ parse \in [Workers -> AttemptType]
  /\ \A w \in Workers : AttemptFits(parse[w])
  /\ pub \in [Publishers -> ReadType]
  /\ \A p \in Publishers : ReadFits(pub[p])

SourcesTyped ==
  mode \in {"legacy", "broker"} /\ RowsTyped /\ QueueTyped /\ faults \in 0..MaxFaults

-----------------------------------------------------------------------------
(* The strengthening.                                                      *)

LegacyTyped ==
  /\ up \in [pc : UploadPhases, i : 1..Len(Order)]
  /\ temp \subseteq Files /\ dest \subseteq Files /\ moved \subseteq Files
  /\ txn \in TxnStates
  /\ intents \in [Files -> IntentType]
  /\ cleanup \in [{"temp", "dest"} -> SUBSET Files]
  /\ rec \in [Recoverers -> RecoveryType]
  /\ \A r \in Recoverers : RecoveryFits(rec[r])
  /\ del \subseteq Files

BrokerTyped ==
  /\ bup \in {"idle", "staged", "over"}
  /\ object \in [Files -> {"none", "STAGING", "AVAILABLE", "DELETE_PENDING", "DELETED"}]
  /\ op \in [Kinds -> [Files -> OpType]]
  /\ quar \subseteq Files
  /\ staging \in [Files -> 0..MaxFence]
  /\ final \in [Files -> 0..MaxFence]
  /\ inode \in [Files -> [Fences -> {"none", "partial", "full"}]]
  /\ br \in [Brokers -> WorkType]
  /\ \A b \in Brokers : WorkFits(br[b])

\* The other mode's part of the state is never touched.
BrokerIdle ==
  /\ object = [f \in Files |-> "none"]
  /\ op = [k \in Kinds |-> [f \in Files |-> NoOp]]
  /\ br = [b \in Brokers |-> NoWork]

LegacyIdle ==
  /\ up.pc = "idle" /\ txn = "none"
  /\ intents = [f \in Files |-> NoIntent]
  /\ cleanup = [p \in {"temp", "dest"} |-> {}]
  /\ rec = [r \in Recoverers |-> NoRecovery]
  /\ del = {}

ModesApart ==
  /\ mode = "legacy" => bup = "idle" /\ BrokerIdle
  /\ mode = "broker" => LegacyIdle

NoRows == \A f \in Files : src[f].st = "none"

\* The phases of the upload and of its transaction
Moving == {"plan", "renew", "rename", "save", "finish"}
TxnFits ==
  CASE up.pc = "idle" -> txn = "none"
    [] up.pc \in Moving \cup {"rollback"} -> txn = "open"
    [] up.pc = "commit" -> txn = "deleting"
    [] up.pc \in {"clean", "clear", "record"} -> txn = "aborted"
    [] OTHER -> txn \in {"committed", "aborted", "limbo"}

\* Has the upload moved the file at k?
Done(k) == k < up.i \/ (k = up.i /\ up.pc \in {"save", "finish"})

\* While files are moved: what was moved is there or the writer's no more,
\* and who recovers an intent has taken it from the writer.
MovesFit ==
  up.pc \in Moving =>
    /\ \A f \in Files : intents[f].st # "none" => f \in Planned
    /\ \A r \in Recoverers : rec[r].pc # "idle" =>
         rec[r].f \in Planned /\ intents[rec[r].f].owner # "writer"
    /\ \A f \in moved : f \in Planned /\ (f \in dest \/ intents[f].owner # "writer")
    /\ \A k \in 1..Len(Order) : Done(k) => Order[k] \in moved
    /\ up.pc = "finish" => up.i = Len(Order)

\* At rest: nobody recovers anything and all files are there.
LockedFits ==
  Locked => Files \subseteq dest /\ \A r \in Recoverers : rec[r].pc = "idle"

Removing == {"inspect", "temp", "untemp", "dest", "undest"}

CommittedFits ==
  txn = "committed" =>
    /\ \A f \in Files : src[f].st # "none" => f \in dest
    /\ \A r \in Recoverers : rec[r].pc \in Removing => src[rec[r].f].st = "none"

\* Before it begins
IdleFits ==
  up.pc = "idle" =>
    /\ up.i = 1 /\ moved = {}
    /\ \A f \in Files : intents[f].st = "none"
    /\ \A r \in Recoverers : rec[r].pc = "idle"

AtRest ==
  /\ txn # "committed" => NoRows /\ del = {}
  /\ txn # "aborted" => cleanup = [p \in {"temp", "dest"} |-> {}]

MoveFits == TxnFits /\ IdleFits /\ MovesFit /\ LockedFits /\ CommittedFits /\ AtRest

MoveInv == mode = "legacy" => MoveFits

\* Brokers
IsGone(f) == object[f] \in {"DELETE_PENDING", "DELETED"}
Succeeded(b) ==
  br[b].pc \in {"discard", "unlink"} \/ (br[b].pc = "complete" /\ br[b].out = "SUCCEEDED")

ObjectFits(f) ==
  /\ object[f] = "none" => op["PROMOTE"][f].st = "none"
  /\ object[f] \notin {"none", "STAGING"} => op["PROMOTE"][f].st = "SUCCEEDED"
  /\ op["PROMOTE"][f].st # "none" => outbox[f].st # "none"
  /\ ~IsGone(f) => op["DELETE_BLOB"][f].st = "none"

FencesFit ==
  /\ \A f \in Files, n \in Fences : inode[f][n] # "none" => n <= op["PROMOTE"][f].fence
  /\ \A b \in Brokers : br[b].pc # "idle" =>
       op[br[b].kind][br[b].f].st # "none" /\ br[b].fence <= op[br[b].kind][br[b].f].fence
  /\ \A b, c \in Brokers :
       b # c /\ br[b].pc # "idle" /\ br[c].pc # "idle"
       /\ br[b].kind = br[c].kind /\ br[b].f = br[c].f => br[b].fence # br[c].fence
  /\ \A b \in Brokers : br[b].pc \in {"verify", "open", "remove", "create"} =>
       inode[br[b].f][br[b].fence] = "none"

BytesFit ==
  /\ \A f \in Files :
       /\ object[f] = "STAGING" => f \in quar \/ FinalIs(f) = "full"
       /\ object[f] = "AVAILABLE" => FinalIs(f) = "full"
  /\ \A b \in Brokers : br[b].kind = "PROMOTE" /\ Succeeded(b) =>
       IsGone(br[b].f) \/ FinalIs(br[b].f) = "full"

StagedFits ==
  /\ bup # "over" => BrokerIdle /\ NoRows
  /\ bup = "staged" => Parsed \subseteq quar

BlobFits == StagedFits /\ (\A f \in Files : ObjectFits(f)) /\ FencesFit /\ BytesFit

BlobInv == mode = "broker" => BlobFits

FilesInv == /\ SourcesTyped /\ LegacyTyped /\ BrokerTyped
            /\ ModesApart /\ MoveInv /\ BlobInv /\ DoneMatchesActive

\* The types of a new row.
LEMMA FreshRows ==
  /\ NoSource \in SourceType /\ NewSource \in SourceType
  /\ NewSource.st = "PENDING" /\ NoSource.st = "none"
  /\ ~NewSource.tomb
  /\ NoOutbox \in OutboxType /\ OutboxFits(NoOutbox) /\ NoOutbox.st = "none"
  /\ \A s \in {"pending", "storage_pending"} :
       NewOutbox(s) \in OutboxType /\ OutboxFits(NewOutbox(s))
  /\ NoEntry \in EntryType /\ EntryFits(NoEntry)
  /\ NoAttempt \in AttemptType /\ AttemptFits(NoAttempt)
  /\ NoEvent \in ReadType /\ ReadFits(NoEvent)
<1>1. 0 \in 0..MaxGen /\ 1 \in 0..MaxGen /\ 1 \in Gens /\ 0 \in 0..MaxTries /\ 0 < MaxTries
  BY FileBounds DEF Gens
<1> QED BY <1>1 DEF NoSource, NewSource, NoOutbox, NewOutbox, NoEntry, NoAttempt, NoEvent,
     SourceType, OutboxType, EntryType, AttemptType, ReadType, ParseStatus,
     OutboxFits, EntryFits, AttemptFits, ReadFits

\* What its claimant does to an event, and what time does.
LEMMA OutboxMoves ==
  ASSUME NEW o \in OutboxType, OutboxFits(o)
  PROVE  /\ BackedOff(o) \in OutboxType /\ OutboxFits(BackedOff(o))
         /\ \A p \in Publishers :
              /\ Fenced(o, p) =>
                   /\ [Released(o) EXCEPT !.st = "published"] \in OutboxType
                   /\ OutboxFits([Released(o) EXCEPT !.st = "published"])
              /\ o.st = "pending" =>
                   /\ [[o EXCEPT !.owner = p] EXCEPT !.live = TRUE] \in OutboxType
                   /\ OutboxFits([[o EXCEPT !.owner = p] EXCEPT !.live = TRUE])
         /\ \A b \in BOOLEAN : /\ [o EXCEPT !.live = b] \in OutboxType
                               /\ OutboxFits([o EXCEPT !.live = b])
                               /\ [o EXCEPT !.due = b] \in OutboxType
                               /\ OutboxFits([o EXCEPT !.due = b])
         /\ o.gen \in Gens => /\ [o EXCEPT !.st = "pending"] \in OutboxType
                              /\ OutboxFits([o EXCEPT !.st = "pending"])
BY NoneAssumption DEF OutboxType, OutboxFits, Released, BackedOff, Fenced

\* What an attempt and a dispatcher do to their own record.
LEMMA AttemptMoves ==
  ASSUME NEW a \in AttemptType, AttemptFits(a), a.pc # "idle"
  PROVE  /\ \A c \in {"claim", "bytes", "fail"} : /\ [a EXCEPT !.pc = c] \in AttemptType
                                                /\ AttemptFits([a EXCEPT !.pc = c])
         /\ \A v \in Versions :
              /\ [[a EXCEPT !.pc = "activate"] EXCEPT !.v = v] \in AttemptType
              /\ AttemptFits([[a EXCEPT !.pc = "activate"] EXCEPT !.v = v])
BY DEF AttemptType, AttemptFits

\* A dispatcher goes on with its event.
LEMMA ReadMoves ==
  ASSUME NEW e \in ReadType, ReadFits(e), e.pc # "idle"
  PROVE  \A c \in {"add", "added"} : /\ [e EXCEPT !.pc = c] \in ReadType
                                     /\ ReadFits([e EXCEPT !.pc = c])
BY DEF ReadType, ReadFits

\* A claim, an activation and a failure of a source row, and its lease.
LEMMA SourceMoves ==
  ASSUME NEW s \in SourceType
  PROVE  /\ \A w \in Workers : [[[s EXCEPT !.st = "PARSING"] EXCEPT !.tok = w]
                                  EXCEPT !.live = TRUE] \in SourceType
         /\ \A v \in Versions : [[[[s EXCEPT !.st = "DONE"] EXCEPT !.tok = None]
                                   EXCEPT !.live = FALSE] EXCEPT !.key = v] \in SourceType
         /\ [[[s EXCEPT !.st = "FAILED"] EXCEPT !.tok = None] EXCEPT !.live = FALSE] \in SourceType
         /\ [s EXCEPT !.live = FALSE] \in SourceType
BY DEF SourceType, ParseStatus

\* A fault counts.
LEMMA FaultCounts ==
  ASSUME faults \in 0..MaxFaults, Fault \/ UNCHANGED faults
  PROVE  faults' \in 0..MaxFaults
BY FileBounds DEF Fault

\* One row of a table, or one record of a process, changes.
LEMMA OutboxRow ==
  ASSUME RowsTyped, NEW f \in Files, NEW o \in OutboxType, OutboxFits(o),
         UNCHANGED <<src, docs>>, outbox' = [outbox EXCEPT ![f] = o]
  PROVE  RowsTyped'
BY DEF RowsTyped

\* The same for source_files and its documents
LEMMA SourceRow ==
  ASSUME RowsTyped, NEW f \in Files, NEW s \in SourceType,
         NEW d \in [Versions -> {"none", "inactive", "active"}],
         src' = [src EXCEPT ![f] = s],
         docs' = docs \/ docs' = [docs EXCEPT ![f] = d], UNCHANGED outbox
  PROVE  RowsTyped'
<1>1. src' \in [Files -> SourceType] /\ outbox' = outbox
  BY DEF RowsTyped
<1>2. docs' \in [Files -> [Versions -> {"none", "inactive", "active"}]]
  <2>1. CASE docs' = docs
    BY <2>1 DEF RowsTyped
  <2>2. CASE docs' = [docs EXCEPT ![f] = d]
    BY <2>2 DEF RowsTyped
  <2> QED BY <2>1, <2>2
<1> QED BY <1>1, <1>2 DEF RowsTyped

\* The same for the dispatchers
LEMMA PubRow ==
  ASSUME QueueTyped, NEW p \in Publishers, NEW e \in ReadType, ReadFits(e),
         UNCHANGED <<bull, parse>>, pub' = [pub EXCEPT ![p] = e]
  PROVE  QueueTyped'
BY DEF QueueTyped

\* The same for the workers
LEMMA ParseRow ==
  ASSUME QueueTyped, NEW w \in Workers, NEW a \in AttemptType, AttemptFits(a),
         UNCHANGED <<bull, pub>>, parse' = [parse EXCEPT ![w] = a]
  PROVE  QueueTyped'
BY DEF QueueTyped

\* The same for the queue
LEMMA BullRow ==
  ASSUME QueueTyped, NEW f \in Files, NEW g \in Gens, NEW e \in EntryType, EntryFits(e),
         bull' = [bull EXCEPT ![f] = [bull[f] EXCEPT ![g] = e]]
  PROVE  /\ bull' \in [Files -> [Gens -> EntryType]]
         /\ \A h \in Files, k \in Gens : EntryFits(bull'[h][k])
BY DEF QueueTyped

-----------------------------------------------------------------------------
(* Types of the steps of SourceFiles.                                      *)

\* The dispatcher of the outbox
LEMMA PublisherTyped ==
  ASSUME SourcesTyped, NEW p \in Publishers,
         PublisherStep(p) \/ AddRefused(p) \/ PublisherStops(p)
  PROVE  SourcesTyped'
<1> USE DEF SourcesTyped
<1>1. CASE \E f \in Parsed : ClaimEvent(p, f)
  <2>1. PICK f \in Files : ClaimEvent(p, f)
    BY <1>1, ParsedAssumption
  <2>2. /\ outbox[f] \in OutboxType /\ OutboxFits(outbox[f]) /\ outbox[f].st = "pending"
        /\ outbox[f].gen \in Gens /\ outbox[f].gen \in 0..MaxGen
        /\ outbox' = [outbox EXCEPT ![f] = [[outbox[f] EXCEPT !.owner = p] EXCEPT !.live = TRUE]]
        /\ pub' = [pub EXCEPT ![p] = [pc |-> "claimed", f |-> f, g |-> outbox[f].gen]]
        /\ UNCHANGED <<mode, src, docs, bull, parse, faults>>
    BY <2>1 DEF ClaimEvent, RowsTyped, OutboxFits, OutboxType
  <2>3. RowsTyped'
    BY <2>2, OutboxMoves DEF RowsTyped
  <2>4. QueueTyped'
    BY <2>2 DEF QueueTyped, ReadType, ReadFits
  <2> QED BY <2>2, <2>3, <2>4
<1>2. CASE RenewEvent(p)
  <2>1. PICK f \in Files : f = pub[p].f
    BY <1>2 DEF RenewEvent, QueueTyped, ReadFits
  <2>2. RowsTyped'
    <3>1. outbox' = outbox \/ outbox' = [outbox EXCEPT ![f] = [outbox[f] EXCEPT !.live = TRUE]]
      BY <1>2, <2>1 DEF RenewEvent
    <3>2. outbox[f] \in OutboxType /\ OutboxFits(outbox[f])
      BY DEF RowsTyped
    <3>3. UNCHANGED <<src, docs>>
      BY <1>2 DEF RenewEvent
    <3>4. CASE outbox' = [outbox EXCEPT ![f] = [outbox[f] EXCEPT !.live = TRUE]]
      BY <3>2, <3>3, <3>4, OutboxMoves, OutboxRow
    <3> QED BY <3>1, <3>3, <3>4 DEF RowsTyped
  <2>3. QueueTyped'
    <3>1. \/ pub' = [pub EXCEPT ![p] = NoEvent]
          \/ pub' = [pub EXCEPT ![p] = [pub[p] EXCEPT !.pc = "add"]]
      BY <1>2 DEF RenewEvent, QueueTyped
    <3>2. pub[p].pc # "idle" /\ UNCHANGED <<bull, parse>>
      BY <1>2 DEF RenewEvent
    <3>3. pub[p] \in ReadType /\ ReadFits(pub[p])
      BY DEF QueueTyped
    <3>4. PICK e \in ReadType : ReadFits(e) /\ pub' = [pub EXCEPT ![p] = e]
      BY <3>1, <3>2, <3>3, FreshRows, ReadMoves
    <3> QED BY <3>2, <3>4, PubRow
  <2> QED BY <1>2, <2>2, <2>3 DEF RenewEvent
<1>3. CASE AddJob(p)
  <2>1. PICK f \in Files, g \in Gens : f = pub[p].f /\ g = pub[p].g
    BY <1>3 DEF AddJob, QueueTyped, ReadFits
  <2>2. PICK e : e = [bull[f][g] EXCEPT !.st = IF @ = "none" THEN "waiting" ELSE @]
    OBVIOUS
  <2>3. e \in EntryType /\ EntryFits(e)
    BY <2>2 DEF QueueTyped, EntryType, EntryFits
  <2>4. /\ bull' = [bull EXCEPT ![f] = [bull[f] EXCEPT ![g] = e]]
        /\ pub' = [pub EXCEPT ![p] = [pub[p] EXCEPT !.pc = "added"]]
        /\ pub[p].pc # "idle"
        /\ UNCHANGED <<mode, rowVars, parse, faults>>
    BY <1>3, <2>1, <2>2 DEF AddJob
  <2>5. QueueTyped'
    BY <2>1, <2>3, <2>4, ReadMoves DEF QueueTyped
  <2> QED BY <2>4, <2>5 DEF rowVars, RowsTyped
<1>4. CASE AddRefused(p)
  <2>1. PICK f \in Files : f = pub[p].f
    BY <1>4 DEF AddRefused, QueueTyped, ReadFits
  <2>2. RowsTyped'
    <3>1. outbox' = outbox \/ outbox' = [outbox EXCEPT ![f] = BackedOff(outbox[f])]
      BY <1>4, <2>1 DEF AddRefused
    <3> QED BY <1>4, <3>1, OutboxMoves DEF AddRefused, RowsTyped
  <2>3. QueueTyped'
    BY <1>4, FreshRows DEF AddRefused, QueueTyped
  <2> QED BY <1>4, <2>2, <2>3, FaultCounts DEF AddRefused
<1>5. CASE MarkPublished(p)
  <2>1. PICK f \in Files : f = pub[p].f
    BY <1>5 DEF MarkPublished, QueueTyped, ReadFits
  <2>2. RowsTyped'
    <3>1. \/ outbox' = outbox
          \/ /\ Fenced(outbox[f], p)
             /\ outbox' = [outbox EXCEPT ![f] = [Released(outbox[f]) EXCEPT !.st = "published"]]
      BY <1>5, <2>1 DEF MarkPublished
    <3> QED BY <1>5, <3>1, OutboxMoves DEF MarkPublished, RowsTyped
  <2>3. QueueTyped'
    BY <1>5, FreshRows DEF MarkPublished, QueueTyped
  <2> QED BY <1>5, <2>2, <2>3 DEF MarkPublished
<1>6. CASE PublisherStops(p)
  <2>1. QueueTyped'
    BY <1>6, FreshRows DEF PublisherStops, QueueTyped
  <2> QED BY <1>6, <2>1, FaultCounts DEF PublisherStops, rowVars, RowsTyped
<1> QED BY <1>1, <1>2, <1>3, <1>4, <1>5, <1>6 DEF PublisherStep

\* What a handler of Bull leaves behind
LEMMA HandlerEnds ==
  ASSUME QueueTyped, NEW w \in Workers, parse[w].pc # "idle", Returns(w) \/ Throws(w)
  PROVE  /\ bull' \in [Files -> [Gens -> EntryType]]
         /\ \A f \in Files, g \in Gens : EntryFits(bull'[f][g])
         /\ parse' \in [Workers -> AttemptType]
         /\ \A v \in Workers : AttemptFits(parse'[v])
<1>1. PICK f \in Files, g \in Gens : f = parse[w].f /\ g = parse[w].g
  BY DEF QueueTyped, AttemptFits
<1>2. PICK e : e = bull[f][g]
  OBVIOUS
<1>3. e \in EntryType /\ EntryFits(e)
  BY <1>2 DEF QueueTyped
<1>4. parse' = [parse EXCEPT ![w] = NoAttempt]
  BY DEF Returns, Throws
<1>5. PICK thrown : thrown = [[[e EXCEPT !.by = None] EXCEPT !.tries = e.tries + 1]
                                EXCEPT !.st = AfterFailure(e)]
  OBVIOUS
<1>6. e.by = w => thrown \in EntryType /\ EntryFits(thrown)
  <2>1. e.by = w => e.tries < MaxTries
    BY <1>3, NoneAssumption DEF EntryFits
  <2>2. e.tries \in Nat /\ MaxTries \in Nat
    BY <1>3, FileBounds DEF EntryType
  <2>3. e.by = w => e.tries + 1 \in 0..MaxTries
    BY <2>1, <2>2
  <2>4. /\ AfterFailure(e) \in {"waiting", "failed"}
        /\ AfterFailure(e) # "failed" => e.tries + 1 < MaxTries
    BY DEF AfterFailure
  <2>5. e.by = w => thrown \in EntryType
    BY <1>3, <1>5, <2>3, <2>4 DEF EntryType
  <2>6. thrown.st = AfterFailure(e) /\ thrown.tries = e.tries + 1 /\ thrown.by = None
    BY <1>3, <1>5 DEF EntryType
  <2> QED BY <2>4, <2>5, <2>6 DEF EntryFits
<1>7. \/ bull' = bull
      \/ bull' = [bull EXCEPT ![f] = [bull[f] EXCEPT ![g] = NoEntry]]
      \/ e.by = w /\ bull' = [bull EXCEPT ![f] = [bull[f] EXCEPT ![g] = thrown]]
  <2>1. CASE Returns(w)
    BY <1>1, <1>2, <2>1 DEF Returns
  <2>2. CASE Throws(w)
    BY <1>1, <1>2, <1>5, <2>2 DEF Throws
  <2> QED BY <2>1, <2>2
<1>8. /\ bull' \in [Files -> [Gens -> EntryType]]
      /\ \A h \in Files, k \in Gens : EntryFits(bull'[h][k])
  <2>1. CASE bull' = bull
    BY <2>1 DEF QueueTyped
  <2>2. CASE bull' = [bull EXCEPT ![f] = [bull[f] EXCEPT ![g] = NoEntry]]
    BY <2>2, FreshRows, BullRow
  <2>3. CASE e.by = w /\ bull' = [bull EXCEPT ![f] = [bull[f] EXCEPT ![g] = thrown]]
    BY <1>6, <2>3, BullRow
  <2> QED BY <1>7, <2>1, <2>2, <2>3
<1>9. /\ parse' \in [Workers -> AttemptType]
      /\ \A v \in Workers : AttemptFits(parse'[v])
  BY <1>4, FreshRows DEF QueueTyped
<1> QED BY <1>8, <1>9

\* Bull and the parser
LEMMA WorkerTyped ==
  ASSUME SourcesTyped, NEW w \in Workers, ParserStep(w) \/ WorkerStops(w)
  PROVE  SourcesTyped'
<1> USE DEF SourcesTyped
<1>1. CASE \E f \in Parsed, g \in Gens : Deliver(w, f, g)
  <2>1. PICK f \in Files, g \in Gens : Deliver(w, f, g)
    BY <1>1, ParsedAssumption
  <2>2. PICK e : e = [[bull[f][g] EXCEPT !.st = "active"] EXCEPT !.by = w]
    OBVIOUS
  <2>3. PICK a : a = [pc |-> "read", f |-> f, g |-> g, v |-> None]
    OBVIOUS
  <2>4. e \in EntryType /\ EntryFits(e)
    <3>1. bull[f][g] \in EntryType /\ EntryFits(bull[f][g]) /\ bull[f][g].st = "waiting"
      BY <2>1 DEF QueueTyped, Deliver
    <3> QED BY <2>2, <3>1 DEF EntryType, EntryFits
  <2>5. a \in AttemptType /\ AttemptFits(a)
    BY <2>3, FileBounds DEF AttemptType, AttemptFits, Gens
  <2>6. /\ bull' = [bull EXCEPT ![f] = [bull[f] EXCEPT ![g] = e]]
        /\ parse' = [parse EXCEPT ![w] = a]
        /\ UNCHANGED <<mode, rowVars, pub, faults>>
    BY <2>1, <2>2, <2>3 DEF Deliver
  <2>7. QueueTyped'
    BY <2>4, <2>5, <2>6 DEF QueueTyped
  <2> QED BY <2>6, <2>7 DEF rowVars, RowsTyped
<1>2. CASE parse[w].pc = "read" /\ ReadSource(w, Available(parse[w].f))
  <2>1. \/ Returns(w) \/ Throws(w)
        \/ parse' = [parse EXCEPT ![w] = [parse[w] EXCEPT !.pc = "claim"]] /\ UNCHANGED bull
    BY <1>2 DEF ReadSource
  <2>2. UNCHANGED <<mode, rowVars, pub>> /\ faults' \in 0..MaxFaults
    BY <1>2, FaultCounts DEF ReadSource
  <2>3. QueueTyped'
    <3>1. CASE Returns(w) \/ Throws(w)
      BY <1>2, <2>2, <3>1, HandlerEnds DEF QueueTyped
    <3>2. CASE parse' = [parse EXCEPT ![w] = [parse[w] EXCEPT !.pc = "claim"]] /\ UNCHANGED bull
      BY <1>2, <2>2, <3>2, AttemptMoves DEF QueueTyped
    <3> QED BY <2>1, <3>1, <3>2
  <2> QED BY <2>2, <2>3 DEF rowVars, RowsTyped
<1>3. CASE ClaimAttempt(w)
  <2>1. PICK f \in Files : f = parse[w].f /\ parse[w].pc = "claim"
    BY <1>3 DEF ClaimAttempt, QueueTyped, AttemptFits
  <2>2. UNCHANGED <<mode, docs, outbox, pub, faults>>
    BY <1>3 DEF ClaimAttempt
  <2>3. \/ Returns(w) /\ src' = src
        \/ /\ src' = [src EXCEPT ![f] = [[[src[f] EXCEPT !.st = "PARSING"] EXCEPT !.tok = w]
                                           EXCEPT !.live = TRUE]]
           /\ parse' = [parse EXCEPT ![w] = [parse[w] EXCEPT !.pc = "bytes"]]
           /\ UNCHANGED bull
    BY <1>3, <2>1 DEF ClaimAttempt
  <2>4. RowsTyped'
    <3>1. PICK s : s = [[[src[f] EXCEPT !.st = "PARSING"] EXCEPT !.tok = w] EXCEPT !.live = TRUE]
      OBVIOUS
    <3>2. s \in SourceType
      BY <3>1, SourceMoves DEF RowsTyped
    <3>3. CASE src' = [src EXCEPT ![f] = s]
      BY <2>2, <3>2, <3>3, SourceRow DEF RowsTyped
    <3>4. CASE src' = src
      BY <2>2, <3>4 DEF RowsTyped
    <3> QED BY <2>3, <3>1, <3>3, <3>4
  <2>5. QueueTyped'
    <3>1. CASE Returns(w)
      BY <2>1, <2>2, <3>1, HandlerEnds DEF QueueTyped
    <3>2. CASE parse' = [parse EXCEPT ![w] = [parse[w] EXCEPT !.pc = "bytes"]] /\ UNCHANGED bull
      BY <2>1, <2>2, <3>2, AttemptMoves DEF QueueTyped
    <3> QED BY <2>3, <3>1, <3>2
  <2> QED BY <2>2, <2>4, <2>5
<1>4. CASE parse[w].pc = "bytes" /\ ParseBytes(w, Present(parse[w].f))
  <2>1. UNCHANGED <<mode, rowVars, bull, pub>> /\ faults' \in 0..MaxFaults
    BY <1>4, FaultCounts DEF ParseBytes
  <2>2. \/ \E v \in Versions :
             parse' = [parse EXCEPT ![w] = [[parse[w] EXCEPT !.pc = "activate"] EXCEPT !.v = v]]
        \/ parse' = [parse EXCEPT ![w] = [parse[w] EXCEPT !.pc = "fail"]]
    BY <1>4 DEF ParseBytes
  <2>3. QueueTyped'
    <3>1. parse[w] \in AttemptType /\ AttemptFits(parse[w]) /\ parse[w].pc # "idle"
      BY <1>4 DEF QueueTyped
    <3>2. PICK a \in AttemptType : AttemptFits(a) /\ parse' = [parse EXCEPT ![w] = a]
      BY <2>2, <3>1, AttemptMoves
    <3> QED BY <2>1, <3>2, ParseRow
  <2> QED BY <2>1, <2>3 DEF rowVars, RowsTyped
<1>5. CASE Activate(w)
  <2>1. PICK f \in Files, v \in Versions :
          f = parse[w].f /\ v = parse[w].v /\ parse[w].pc = "activate"
    BY <1>5 DEF Activate, QueueTyped, AttemptFits
  <2>2. UNCHANGED <<mode, outbox, pub, faults>>
    BY <1>5 DEF Activate
  <2>3. \/ /\ docs' = [docs EXCEPT ![f] = ActiveVersion(docs[f], v)]
           /\ src' = [src EXCEPT ![f] = [[[[src[f] EXCEPT !.st = "DONE"] EXCEPT !.tok = None]
                                             EXCEPT !.live = FALSE] EXCEPT !.key = v]]
           /\ Returns(w)
        \/ /\ parse' = [parse EXCEPT ![w] = [parse[w] EXCEPT !.pc = "fail"]]
           /\ UNCHANGED <<src, docs, bull>>
    BY <1>5, <2>1 DEF Activate
  <2>4. ActiveVersion(docs[f], v) \in [Versions -> {"none", "inactive", "active"}]
    BY DEF ActiveVersion, RowsTyped
  <2>5. RowsTyped'
    <3>1. CASE docs' = [docs EXCEPT ![f] = ActiveVersion(docs[f], v)]
      <4>1. PICK s : s = [[[[src[f] EXCEPT !.st = "DONE"] EXCEPT !.tok = None]
                             EXCEPT !.live = FALSE] EXCEPT !.key = v]
        OBVIOUS
      <4>2. s \in SourceType
        BY <4>1, SourceMoves DEF RowsTyped
      <4>3. CASE src' = [src EXCEPT ![f] = s]
        BY <2>2, <2>4, <3>1, <4>2, <4>3, SourceRow
      <4> QED BY <2>2, <2>3, <4>1, <4>3 DEF RowsTyped
    <3>2. CASE UNCHANGED <<src, docs>>
      BY <2>2, <3>2 DEF RowsTyped
    <3> QED BY <2>3, <3>1, <3>2
  <2>6. QueueTyped'
    <3>1. CASE Returns(w)
      BY <2>1, <2>2, <3>1, HandlerEnds DEF QueueTyped
    <3>2. CASE parse' = [parse EXCEPT ![w] = [parse[w] EXCEPT !.pc = "fail"]] /\ UNCHANGED bull
      BY <2>1, <2>2, <3>2, AttemptMoves DEF QueueTyped
    <3> QED BY <2>3, <3>1, <3>2
  <2> QED BY <2>2, <2>5, <2>6
<1>6. CASE FailAttempt(w)
  <2>1. PICK f \in Files : f = parse[w].f /\ parse[w].pc = "fail"
    BY <1>6 DEF FailAttempt, QueueTyped, AttemptFits
  <2>2. UNCHANGED <<mode, docs, outbox, pub, faults>> /\ Throws(w)
    BY <1>6 DEF FailAttempt
  <2>3. \/ src' = [src EXCEPT ![f] = [[[src[f] EXCEPT !.st = "FAILED"] EXCEPT !.tok = None]
                                         EXCEPT !.live = FALSE]]
        \/ src' = src
    BY <1>6, <2>1 DEF FailAttempt
  <2>4. RowsTyped'
    <3>1. PICK s : s = [[[src[f] EXCEPT !.st = "FAILED"] EXCEPT !.tok = None] EXCEPT !.live = FALSE]
      OBVIOUS
    <3>2. s \in SourceType
      BY <3>1, SourceMoves DEF RowsTyped
    <3>3. CASE src' = [src EXCEPT ![f] = s]
      BY <2>2, <3>2, <3>3, SourceRow DEF RowsTyped
    <3>4. CASE src' = src
      BY <2>2, <3>4 DEF RowsTyped
    <3> QED BY <2>3, <3>1, <3>3, <3>4
  <2>5. QueueTyped'
    BY <2>1, <2>2, HandlerEnds DEF QueueTyped
  <2> QED BY <2>2, <2>4, <2>5
<1>7. CASE WorkerStops(w)
  <2>1. QueueTyped'
    BY <1>7, FreshRows DEF WorkerStops, QueueTyped
  <2> QED BY <1>7, <2>1, FaultCounts DEF WorkerStops, rowVars, RowsTyped
<1> QED BY <1>1, <1>2, <1>3, <1>4, <1>5, <1>6, <1>7 DEF ParserStep, WorkerStep

\* Time, and reparse
LEMMA TimeTyped ==
  ASSUME SourcesTyped, NEW f \in Parsed, TimeStep(f) \/ Reparse(f)
  PROVE  SourcesTyped'
<1> USE DEF SourcesTyped
<1>0. f \in Files
  BY ParsedAssumption
<1>1. CASE EventLeaseExpires(f) \/ EventDue(f)
  <2>1. /\ UNCHANGED <<mode, src, docs, queueVars>> /\ faults' \in 0..MaxFaults
        /\ \/ outbox' = [outbox EXCEPT ![f] = [outbox[f] EXCEPT !.live = FALSE]]
           \/ outbox' = [outbox EXCEPT ![f] = [outbox[f] EXCEPT !.due = TRUE]]
    BY <1>1, FaultCounts DEF EventLeaseExpires, EventDue
  <2>2. RowsTyped'
    <3>1. UNCHANGED <<src, docs>>
      BY <2>1
    <3>2. outbox[f] \in OutboxType /\ OutboxFits(outbox[f])
      BY <1>0 DEF RowsTyped
    <3>3. CASE outbox' = [outbox EXCEPT ![f] = [outbox[f] EXCEPT !.live = FALSE]]
      BY <1>0, <3>1, <3>2, <3>3, OutboxMoves, OutboxRow
    <3>4. CASE outbox' = [outbox EXCEPT ![f] = [outbox[f] EXCEPT !.due = TRUE]]
      BY <1>0, <3>1, <3>2, <3>4, OutboxMoves, OutboxRow
    <3> QED BY <2>1, <3>3, <3>4
  <2> QED BY <2>1, <2>2 DEF queueVars, QueueTyped
<1>2. CASE AttemptLeaseExpires(f)
  <2>1. RowsTyped'
    <3>1. /\ src' = [src EXCEPT ![f] = [src[f] EXCEPT !.live = FALSE]]
          /\ UNCHANGED <<docs, outbox>>
      BY <1>2 DEF AttemptLeaseExpires
    <3> QED BY <1>0, <3>1, SourceMoves DEF RowsTyped
  <2> QED BY <1>2, <2>1, FaultCounts DEF AttemptLeaseExpires, queueVars, QueueTyped
<1>3. CASE \E g \in Gens : Stall(f, g)
  <2>1. PICK g \in Gens : Stall(f, g)
    BY <1>3
  <2>2. PICK e : e = bull[f][g]
    OBVIOUS
  <2>3. PICK new : new = [[[e EXCEPT !.by = None] EXCEPT !.stalled = TRUE]
                             EXCEPT !.st = IF e.stalled THEN "failed" ELSE "waiting"]
    OBVIOUS
  <2>4. new \in EntryType /\ EntryFits(new)
    <3>1. e \in EntryType /\ EntryFits(e) /\ e.st = "active"
      BY <1>0, <2>1, <2>2 DEF Stall, QueueTyped
    <3> QED BY <2>3, <3>1 DEF EntryType, EntryFits
  <2>5. /\ bull' = [bull EXCEPT ![f] = [bull[f] EXCEPT ![g] = new]]
        /\ UNCHANGED <<mode, rowVars, parse, pub>> /\ faults' \in 0..MaxFaults
    BY <2>1, <2>2, <2>3, FaultCounts DEF Stall
  <2>6. QueueTyped'
    BY <1>0, <2>4, <2>5 DEF QueueTyped
  <2> QED BY <2>5, <2>6 DEF rowVars, RowsTyped
<1>4. CASE Reparse(f)
  <2>1. PICK n : n = src[f].gen + 1
    OBVIOUS
  <2>2. n \in 0..MaxGen /\ n \in Gens
    BY <1>0, <1>4, <2>1, FileBounds DEF Reparse, RowsTyped, SourceType, Gens
  <2>3. PICK s : s = [[[[src[f] EXCEPT !.gen = n] EXCEPT !.st = "PENDING"] EXCEPT !.tok = None]
                        EXCEPT !.live = FALSE]
    OBVIOUS
  <2>4. s \in SourceType
    <3>1. src[f] \in SourceType
      BY <1>0 DEF RowsTyped
    <3> QED BY <2>2, <2>3, <3>1 DEF SourceType, ParseStatus
  <2>5. PICK o : o = [[NoOutbox EXCEPT !.st = "pending"] EXCEPT !.gen = n]
    OBVIOUS
  <2>6. o \in OutboxType /\ OutboxFits(o)
    BY <2>2, <2>5 DEF NoOutbox, OutboxType, OutboxFits
  <2>7. /\ src' = [src EXCEPT ![f] = s] /\ outbox' = [outbox EXCEPT ![f] = o]
        /\ UNCHANGED <<mode, docs, queueVars, faults>>
    BY <1>4, <2>1, <2>3, <2>5 DEF Reparse, Requeued
  <2>8. RowsTyped'
    BY <2>4, <2>6, <2>7 DEF RowsTyped
  <2> QED BY <2>7, <2>8 DEF queueVars, QueueTyped
<1> QED BY <1>1, <1>2, <1>3, <1>4 DEF TimeStep

\* Every step on the rows and in the queue
LEMMA RowTyped ==
  ASSUME SourcesTyped, RowStep
  PROVE  SourcesTyped'
BY PublisherTyped, WorkerTyped, TimeTyped DEF RowStep, FaultStep

-----------------------------------------------------------------------------
(* What the steps of SourceFiles leave alone: no row comes or goes, none   *)
(* is buried, and one that becomes DONE has just its version active.       *)

ActiveIs(f, v) == {u \in Versions : docs[f][u] = "active"} = {v}

RowKept(f) ==
  /\ src'[f].st = "none" <=> src[f].st = "none"
  /\ outbox[f].st # "none" => outbox'[f].st # "none"
  /\ src'[f].tomb = src[f].tomb
  /\ src[f].st = "DONE" /\ src'[f].st # "DONE" => src'[f].gen > src[f].gen
  /\ \/ /\ docs'[f] = docs[f]
        /\ src'[f].st = "DONE" => src[f].st = "DONE" /\ src'[f].key = src[f].key
     \/ ActiveIs(f, src[f].key)'

RowsKept == mode' = mode /\ \A f \in Files : RowKept(f)

\* The dispatcher of the outbox
LEMMA PublisherKeeps ==
  ASSUME SourcesTyped, NEW p \in Publishers,
         PublisherStep(p) \/ AddRefused(p) \/ PublisherStops(p)
  PROVE  RowsKept
<1>1. UNCHANGED <<mode, src, docs>>
  BY DEF PublisherStep, ClaimEvent, RenewEvent, AddJob, MarkPublished, AddRefused,
         PublisherStops, rowVars
<1>2. ASSUME NEW f \in Files, outbox[f].st # "none" PROVE outbox'[f].st # "none"
  <2>0. outbox \in [Files -> OutboxType] /\ outbox[f] \in OutboxType
    BY DEF SourcesTyped, RowsTyped
  <2>1. CASE \E g \in Parsed : ClaimEvent(p, g)
    BY <1>2, <2>0, <2>1 DEF ClaimEvent, OutboxType
  <2>2. CASE RenewEvent(p)
    BY <1>2, <2>0, <2>2 DEF RenewEvent, OutboxType
  <2>3. CASE AddJob(p) \/ PublisherStops(p)
    BY <1>2, <2>3 DEF AddJob, PublisherStops, rowVars
  <2>4. CASE AddRefused(p)
    <3>1. BackedOff(outbox[f]).st = outbox[f].st
      BY <2>0 DEF BackedOff, Released, OutboxType
    <3>2. outbox'[f] = outbox[f] \/ outbox'[f] = BackedOff(outbox[f])
      BY <2>0, <2>4 DEF AddRefused
    <3> QED BY <1>2, <3>1, <3>2
  <2>5. CASE MarkPublished(p)
    <3>1. [Released(outbox[f]) EXCEPT !.st = "published"].st = "published"
      BY <2>0 DEF Released, OutboxType
    <3>2. \/ outbox'[f] = outbox[f]
          \/ outbox'[f] = [Released(outbox[f]) EXCEPT !.st = "published"]
      BY <2>0, <2>5 DEF MarkPublished
    <3> QED BY <1>2, <3>1, <3>2
  <2> QED BY <2>1, <2>2, <2>3, <2>4, <2>5 DEF PublisherStep
<1> QED BY <1>1, <1>2 DEF RowsKept, RowKept

\* Bull and the parser
LEMMA WorkerKeeps ==
  ASSUME SourcesTyped, NEW w \in Workers, ParserStep(w) \/ WorkerStops(w)
  PROVE  RowsKept
<1>0. UNCHANGED <<mode, outbox>> /\ src \in [Files -> SourceType]
  BY DEF ParserStep, WorkerStep, Deliver, ReadSource, ClaimAttempt, ParseBytes,
         Activate, FailAttempt, WorkerStops, rowVars, SourcesTyped, RowsTyped
<1>1. CASE UNCHANGED <<src, docs>>
  BY <1>0, <1>1 DEF RowsKept, RowKept
<1>2. CASE ClaimAttempt(w)
  <2>1. PICK f \in Files : f = parse[w].f
    BY <1>2 DEF ClaimAttempt, SourcesTyped, QueueTyped, AttemptFits
  <2>2. PICK s : s = [[[src[f] EXCEPT !.st = "PARSING"] EXCEPT !.tok = w] EXCEPT !.live = TRUE]
    OBVIOUS
  <2>3. s.st = "PARSING" /\ s.tomb = src[f].tomb /\ s.gen = src[f].gen
    BY <1>0, <2>2 DEF SourceType
  <2>4. docs' = docs
    BY <1>2 DEF ClaimAttempt
  <2>5. \/ src' = src
        \/ src' = [src EXCEPT ![f] = s] /\ src[f].st \in {"PENDING", "FAILED", "PARSING"}
    BY <1>2, <2>1, <2>2 DEF ClaimAttempt
  <2>6. CASE src' = [src EXCEPT ![f] = s] /\ src[f].st \in {"PENDING", "FAILED", "PARSING"}
    BY <1>0, <2>3, <2>4, <2>6 DEF RowsKept, RowKept
  <2> QED BY <1>1, <2>4, <2>5, <2>6
<1>3. CASE FailAttempt(w)
  <2>1. PICK f \in Files : f = parse[w].f
    BY <1>3 DEF FailAttempt, SourcesTyped, QueueTyped, AttemptFits
  <2>2. PICK s : s = [[[src[f] EXCEPT !.st = "FAILED"] EXCEPT !.tok = None] EXCEPT !.live = FALSE]
    OBVIOUS
  <2>3. s.st = "FAILED" /\ s.tomb = src[f].tomb /\ s.gen = src[f].gen
    BY <1>0, <2>2 DEF SourceType
  <2>4. docs' = docs
    BY <1>3 DEF FailAttempt
  <2>5. \/ src' = src
        \/ src' = [src EXCEPT ![f] = s] /\ src[f].st = "PARSING"
    BY <1>3, <2>1, <2>2 DEF FailAttempt, Owns
  <2>6. CASE src' = [src EXCEPT ![f] = s] /\ src[f].st = "PARSING"
    BY <1>0, <2>3, <2>4, <2>6 DEF RowsKept, RowKept
  <2> QED BY <1>1, <2>4, <2>5, <2>6
<1>4. CASE Activate(w)
  <2>1. PICK f \in Files, v \in Versions : f = parse[w].f /\ v = parse[w].v
    BY <1>4 DEF Activate, SourcesTyped, QueueTyped, AttemptFits
  <2>2. PICK s : s = [[[[src[f] EXCEPT !.st = "DONE"] EXCEPT !.tok = None]
                         EXCEPT !.live = FALSE] EXCEPT !.key = v]
    OBVIOUS
  <2>3. s.st = "DONE" /\ s.tomb = src[f].tomb /\ s.key = v
    BY <1>0, <2>2 DEF SourceType
  <2>4. \/ UNCHANGED <<src, docs>>
        \/ /\ src' = [src EXCEPT ![f] = s] /\ src[f].st = "PARSING"
           /\ docs' = [docs EXCEPT ![f] = ActiveVersion(docs[f], v)]
    BY <1>4, <2>1, <2>2 DEF Activate, Owns
  <2>5. CASE /\ src' = [src EXCEPT ![f] = s] /\ src[f].st = "PARSING"
             /\ docs' = [docs EXCEPT ![f] = ActiveVersion(docs[f], v)]
    <3>0. docs \in [Files -> [Versions -> {"none", "inactive", "active"}]]
      BY DEF SourcesTyped, RowsTyped
    <3>1. docs'[f] = ActiveVersion(docs[f], v) /\ src'[f] = s
      BY <1>0, <2>5, <3>0
    <3>2. {u \in Versions : ActiveVersion(docs[f], v)[u] = "active"} = {v}
      BY DEF ActiveVersion
    <3>3. ActiveIs(f, src[f].key)'
      BY <2>3, <3>1, <3>2 DEF ActiveIs
    <3>4. RowKept(f)
      BY <1>0, <2>3, <2>5, <3>1, <3>3 DEF RowKept
    <3>5. ASSUME NEW h \in Files, h # f PROVE RowKept(h)
      BY <1>0, <2>5, <3>0, <3>5 DEF RowKept
    <3> QED BY <1>0, <3>4, <3>5 DEF RowsKept
  <2> QED BY <1>1, <2>4, <2>5
<1> QED BY <1>1, <1>2, <1>3, <1>4
     DEF ParserStep, WorkerStep, Deliver, ReadSource, ParseBytes, WorkerStops, rowVars

\* Time, and reparse
LEMMA TimeKeeps ==
  ASSUME SourcesTyped, NEW f \in Parsed, TimeStep(f) \/ Reparse(f)
  PROVE  RowsKept
<1>0. /\ f \in Files /\ src \in [Files -> SourceType] /\ outbox \in [Files -> OutboxType]
      /\ src[f] \in SourceType /\ outbox[f] \in OutboxType
  BY ParsedAssumption DEF SourcesTyped, RowsTyped
<1>1. CASE EventLeaseExpires(f) \/ EventDue(f)
  <2>1. UNCHANGED <<mode, src, docs>>
    BY <1>1 DEF EventLeaseExpires, EventDue
  <2>2. outbox' = [outbox EXCEPT ![f].live = FALSE] \/ outbox' = [outbox EXCEPT ![f].due = TRUE]
    BY <1>1 DEF EventLeaseExpires, EventDue
  <2>3. \A h \in Files : outbox'[h].st = outbox[h].st
    BY <1>0, <2>2 DEF OutboxType
  <2> QED BY <2>1, <2>3 DEF RowsKept, RowKept
<1>2. CASE AttemptLeaseExpires(f)
  <2>1. UNCHANGED <<mode, outbox, docs>> /\ src' = [src EXCEPT ![f].live = FALSE]
    BY <1>2 DEF AttemptLeaseExpires
  <2>2. \A h \in Files : /\ src'[h].st = src[h].st /\ src'[h].tomb = src[h].tomb
                        /\ src'[h].key = src[h].key
    BY <1>0, <2>1 DEF SourceType
  <2> QED BY <2>1, <2>2 DEF RowsKept, RowKept
<1>3. CASE \E g \in Gens : Stall(f, g)
  BY <1>3 DEF Stall, rowVars, RowsKept, RowKept
<1>4. CASE Reparse(f)
  <2>1. PICK n : n = src[f].gen + 1
    OBVIOUS
  <2>2. n > src[f].gen
    BY <1>0, <2>1, FileBounds DEF SourceType
  <2>3. PICK s : s = [[[[src[f] EXCEPT !.gen = n] EXCEPT !.st = "PENDING"] EXCEPT !.tok = None]
                        EXCEPT !.live = FALSE]
    OBVIOUS
  <2>4. s.st = "PENDING" /\ s.tomb = src[f].tomb /\ s.gen = n
    BY <1>0, <2>3 DEF SourceType
  <2>5. PICK o : o = [[NoOutbox EXCEPT !.st = "pending"] EXCEPT !.gen = n]
    OBVIOUS
  <2>6. o.st = "pending"
    BY <2>5 DEF NoOutbox
  <2>7. /\ src' = [src EXCEPT ![f] = s] /\ outbox' = [outbox EXCEPT ![f] = o]
        /\ UNCHANGED <<mode, docs>> /\ src[f].st # "none"
    BY <1>4, <2>1, <2>3, <2>5 DEF Reparse, Requeued
  <2>8. ASSUME NEW h \in Files PROVE RowKept(h)
    <3>1. CASE h = f
      <4>1. src'[h] = s /\ outbox'[h] = o /\ docs'[h] = docs[h]
        BY <1>0, <2>7, <3>1
      <4> QED BY <2>2, <2>4, <2>6, <2>7, <3>1, <4>1 DEF RowKept
    <3>2. CASE h # f
      <4>1. src'[h] = src[h] /\ outbox'[h] = outbox[h] /\ docs'[h] = docs[h]
        BY <1>0, <2>7, <3>2
      <4> QED BY <4>1 DEF RowKept
    <3> QED BY <3>1, <3>2
  <2> QED BY <2>7, <2>8 DEF RowsKept
<1> QED BY <1>1, <1>2, <1>3, <1>4 DEF TimeStep

\* Every step on the rows and in the queue
LEMMA RowKeeps ==
  ASSUME SourcesTyped, RowStep
  PROVE  RowsKept
BY PublisherKeeps, WorkerKeeps, TimeKeeps DEF RowStep, FaultStep

-----------------------------------------------------------------------------
(* LegacyUpload: the steps of the other mode are disabled, and types.      *)

\* The files of the request are counted.
LEMMA OrderFacts ==
  /\ Len(Order) \in Nat /\ Len(Order) >= 1
  /\ \A k \in 1..Len(Order) : Order[k] \in Files
  /\ \A f \in Files : \E k \in 1..Len(Order) : Order[k] = f
<1>1. Order \in Seq(Files) /\ Order # <<>>
  BY OrderAssumption
<1>2. DOMAIN Order = 1..Len(Order)
  BY <1>1
<1>3. {Order[k] : k \in DOMAIN Order} = Files
  BY OrderAssumption DEF ToSet
<1>4. Len(Order) \in Nat /\ Len(Order) >= 1
  BY <1>1
<1> QED BY <1>2, <1>3, <1>4

\* No intent, no recovery
LEMMA FreshIntents ==
  /\ NoIntent \in IntentType /\ NoIntent.st = "none" /\ NoIntent.owner # "writer"
  /\ ~NoIntent.live /\ NoIntent.due
  /\ NewIntent \in IntentType /\ Uncertain \in IntentType /\ NewIntent.owner = "writer"
  /\ NoRecovery \in RecoveryType /\ NoRecovery.pc = "idle"
BY RecovererAssumption DEF NoIntent, NewIntent, Uncertain, NoRecovery, IntentType,
   RecoveryType, RecoveryPhases

\* A step of uploadFiles or of its dispatchers is one of the legacy mode.
LEMMA LegacyOnly ==
  ASSUME SourcesTyped, ModesApart, LegacyStep
  PROVE  mode = "legacy"
<1>1. SUFFICES ASSUME mode = "broker" PROVE FALSE
  BY DEF SourcesTyped
<1>2. LegacyIdle
  BY <1>1 DEF ModesApart
<1>3. ~UploadStep
  BY <1>1, <1>2 DEF LegacyIdle, UploadStep, Begin, PlanMove, RenewBeforeMove, MoveFile,
     SaveRows, DeleteIntents, CommitUpload, PreserveUncertain, Rollback, CleanPaths,
     PersistCleanup, ClearIntents
<1>4. ~LimboEnds /\ ~CommitError /\ ~UploadError /\ ~UploadStops
  BY <1>2 DEF LegacyIdle, LimboEnds, CommitError, UploadError, UploadStops
<1>5. ASSUME NEW r \in Recoverers PROVE ~RecoverStep(r) /\ ~RecoveryError(r) /\ ~RecovererStops(r)
  <2>1. rec[r].pc = "idle"
    BY <1>2, FreshIntents DEF LegacyIdle
  <2>2. \A f \in Files : ~ClaimIntent(r, f)
    BY <1>2, FreshIntents DEF LegacyIdle, ClaimIntent
  <2> QED BY <2>1, <2>2 DEF RecoverStep, RenewClaim, LookUp, Inspect, RenewPath, UnlinkPath,
       EndRecovery, RecoveryError, RecovererStops
<1>6. ASSUME NEW f \in Files
      PROVE  /\ ~IntentExpires(f) /\ ~DeleteDocuments(f) /\ ~DeleteRow(f)
             /\ ~DeletePhysical(f) /\ \A p \in {"temp", "dest"} : ~CleanRecord(p, f)
  <2>1. ~intents[f].live /\ intents[f].due
    BY <1>2, FreshIntents DEF LegacyIdle
  <2>2. \A p \in {"temp", "dest"} : cleanup[p] = {}
    BY <1>2 DEF LegacyIdle
  <2> QED BY <1>1, <1>2, <2>1, <2>2 DEF LegacyIdle, IntentExpires, DeleteDocuments,
       DeleteRow, DeletePhysical, CleanRecord
<1> QED BY <1>3, <1>4, <1>5, <1>6 DEF LegacyStep, LegacyFault

\* What a recoverer can do: its own record, perhaps one intent, which is not
\* the writer's then, and a file whose row it found missing.
RecoveryMove(r, e, f, i) ==
  /\ UNCHANGED <<mode, rowVars, queueVars, uploadVars, cleanup, del>>
  /\ faults' \in 0..MaxFaults
  /\ rec' = [rec EXCEPT ![r] = e]
  /\ e.pc # "idle" /\ rec[r].pc # "idle" => e.f = rec[r].f
  /\ rec[r].pc = "idle" =>
       ~Locked /\ e.f = f /\ intents[f].st # "none" /\ intents' = [intents EXCEPT ![f] = i]
  /\ e.pc \in Removing /\ rec[r].pc \notin Removing => src[e.f].st = "none"
  /\ temp' \subseteq temp
  /\ dest' = dest \/ (rec[r].pc = "undest" /\ dest' = dest \ {rec[r].f})
  /\ i.owner # "writer" /\ (rec[r].pc # "idle" => f = rec[r].f)
  /\ intents' = intents \/ intents' = [intents EXCEPT ![f] = i]

\* The record of a recoverer that goes on
LEMMA RecoveryGoes ==
  ASSUME NEW e \in RecoveryType, e.pc # "idle", RecoveryFits(e)
  PROVE  \A c \in RecoveryPhases :
           /\ [e EXCEPT !.pc = c] \in RecoveryType
           /\ [e EXCEPT !.pc = c].pc = c /\ [e EXCEPT !.pc = c].f = e.f /\ e.f \in Files
BY DEF RecoveryType, RecoveryFits

\* Its intent: kept under its lease, backed off or rejected
LEMMA IntentMoves ==
  ASSUME NEW i \in IntentType
  PROVE  /\ \A r \in Recoverers :
              /\ [[i EXCEPT !.owner = r] EXCEPT !.live = TRUE] \in IntentType
              /\ [[i EXCEPT !.owner = r] EXCEPT !.live = TRUE].owner # "writer"
              /\ [[i EXCEPT !.owner = r] EXCEPT !.live = TRUE].st = i.st
         /\ [i EXCEPT !.live = TRUE] \in IntentType
         /\ [i EXCEPT !.live = TRUE].owner = i.owner /\ [i EXCEPT !.live = TRUE].st = i.st
         /\ BackedOff(i) \in IntentType /\ BackedOff(i).owner # "writer" /\ BackedOff(i).st = i.st
         /\ [Released(i) EXCEPT !.st = "REJECTED"] \in IntentType
         /\ [Released(i) EXCEPT !.st = "REJECTED"].owner # "writer"
         /\ [[i EXCEPT !.live = FALSE] EXCEPT !.due = TRUE] \in IntentType
         /\ [[i EXCEPT !.live = FALSE] EXCEPT !.due = TRUE].owner = i.owner
         /\ [[i EXCEPT !.live = FALSE] EXCEPT !.due = TRUE].st = i.st
<1>1. \A r \in Recoverers : r # "writer"
  BY RecovererAssumption
<1>2. None # "writer"
  BY RecovererAssumption
<1>3. Released(i) = [[i EXCEPT !.owner = None] EXCEPT !.live = FALSE]
  BY DEF Released
<1>4. BackedOff(i) = [[[i EXCEPT !.owner = None] EXCEPT !.live = FALSE] EXCEPT !.due = FALSE]
  BY DEF BackedOff, Released
<1> QED BY <1>1, <1>2, <1>3, <1>4 DEF IntentType

\* A renewal either keeps the lease and goes on or gives up.
LEMMA RenewalMoves ==
  ASSUME LegacyTyped, NEW r \in Recoverers, rec[r].pc # "idle",
         NEW next \in RecoveryPhases, RenewIntent(r, next)
  PROVE  \E e \in RecoveryType, i \in IntentType :
           /\ rec' = [rec EXCEPT ![r] = e]
           /\ e.pc = "idle" \/ (e.pc = next /\ e.f = rec[r].f)
           /\ i.owner # "writer"
           /\ intents' = intents \/ intents' = [intents EXCEPT ![rec[r].f] = i]
<1>1. rec[r] \in RecoveryType /\ RecoveryFits(rec[r]) /\ rec[r].f \in Files
  BY DEF LegacyTyped, RecoveryFits
<1>2. PICK f \in Files : f = rec[r].f
  BY <1>1
<1>3. intents[f] \in IntentType
  BY DEF LegacyTyped
<1>4. CASE Fenced(intents[f], r)
  <2>1. /\ intents' = [intents EXCEPT ![f] = [intents[f] EXCEPT !.live = TRUE]]
        /\ rec' = [rec EXCEPT ![r] = [rec[r] EXCEPT !.pc = next]]
    BY <1>2, <1>4 DEF RenewIntent
  <2>2. intents[f].owner # "writer"
    BY <1>4, RecovererAssumption DEF Fenced
  <2>3. PICK e \in RecoveryType : e = [rec[r] EXCEPT !.pc = next] /\ e.pc = next /\ e.f = rec[r].f
    BY <1>1, RecoveryGoes
  <2>4. PICK i \in IntentType : i = [intents[f] EXCEPT !.live = TRUE] /\ i.owner # "writer"
    BY <1>3, <2>2, IntentMoves
  <2> QED BY <1>2, <2>1, <2>3, <2>4
<1>5. CASE ~Fenced(intents[f], r)
  <2>1. intents' = intents /\ rec' = [rec EXCEPT ![r] = NoRecovery]
    BY <1>2, <1>5 DEF RenewIntent
  <2> QED BY <2>1, FreshIntents
<1> QED BY <1>4, <1>5

\* Every step of a recoverer is of that form.
LEMMA RecoveryMoves ==
  ASSUME SourcesTyped, LegacyTyped, NEW r \in Recoverers,
         RecoverStep(r) \/ RecoveryError(r) \/ RecovererStops(r)
  PROVE  \E e \in RecoveryType, f \in Files, i \in IntentType : RecoveryMove(r, e, f, i)
<1>0. rec[r] \in RecoveryType /\ RecoveryFits(rec[r]) /\ faults \in 0..MaxFaults
  BY DEF LegacyTyped, SourcesTyped
<1>1. CASE \E f \in Files : ClaimIntent(r, f)
  <2>1. PICK f \in Files : ClaimIntent(r, f)
    BY <1>1
  <2>2. PICK i : i = [[intents[f] EXCEPT !.owner = r] EXCEPT !.live = TRUE]
    OBVIOUS
  <2>3. i \in IntentType /\ i.owner # "writer" /\ i.st = intents[f].st
    <3>1. intents[f] \in IntentType
      BY DEF LegacyTyped
    <3> QED BY <2>2, <3>1, IntentMoves
  <2>4. PICK e : e = [pc |-> "claimed", f |-> f, st |-> intents[f].st, seen |-> {}]
    OBVIOUS
  <2>5. e \in RecoveryType /\ e.pc = "claimed" /\ e.f = f
    BY <2>1, <2>4 DEF ClaimIntent, RecoveryType, RecoveryPhases
  <2>6. /\ intents' = [intents EXCEPT ![f] = i] /\ rec' = [rec EXCEPT ![r] = e]
        /\ intents[f].st # "none" /\ ~Locked /\ rec[r].pc = "idle"
        /\ UNCHANGED <<fileVars, uploadVars, diskVars, cleanup, del>>
    BY <2>1, <2>2, <2>4 DEF ClaimIntent
  <2>7. RecoveryMove(r, e, f, i)
    BY <1>0, <2>3, <2>5, <2>6 DEF RecoveryMove, Removing, fileVars, diskVars
  <2> QED BY <2>3, <2>5, <2>7
<1> SUFFICES ASSUME rec[r].pc # "idle", ~ \E f \in Files : ClaimIntent(r, f)
             PROVE  \E e \in RecoveryType, f \in Files, i \in IntentType : RecoveryMove(r, e, f, i)
  BY <1>1 DEF RecoverStep, RenewClaim, LookUp, Inspect, RenewPath, UnlinkPath, EndRecovery,
     RecoveryError, RecovererStops
<1> DEFINE f == rec[r].f
<1>2. f \in Files /\ intents[f] \in IntentType
  BY <1>0 DEF RecoveryFits, LegacyTyped
<1>3. NoIntent \in IntentType /\ NoIntent.owner # "writer" /\ NoIntent.st = "none"
  BY FreshIntents
<1>a. \A c \in RecoveryPhases :
        /\ [rec[r] EXCEPT !.pc = c] \in RecoveryType
        /\ [rec[r] EXCEPT !.pc = c].pc = c /\ [rec[r] EXCEPT !.pc = c].f = f
  BY <1>0, RecoveryGoes
<1>b. {"drop", "inspect", "review", "dest"} \subseteq RecoveryPhases
  BY DEF RecoveryPhases
<1>4. CASE RenewClaim(r)
  <2>1. PICK e \in RecoveryType, i \in IntentType :
           /\ rec' = [rec EXCEPT ![r] = e]
           /\ e.pc = "idle" \/ (e.pc = "lookup" /\ e.f = rec[r].f)
           /\ i.owner # "writer"
           /\ intents' = intents \/ intents' = [intents EXCEPT ![rec[r].f] = i]
    BY <1>4, RenewalMoves DEF RenewClaim, RecoveryPhases
  <2>2. UNCHANGED <<fileVars, uploadVars, diskVars, cleanup, del>>
    BY <1>4 DEF RenewClaim
  <2>3. RecoveryMove(r, e, f, i)
    BY <1>0, <2>1, <2>2 DEF RecoveryMove, Removing, fileVars, diskVars
  <2> QED BY <1>2, <2>3
<1>5. CASE LookUp(r)
  <2>1. PICK c \in {"drop", "inspect", "review"} :
          /\ rec' = [rec EXCEPT ![r] = [rec[r] EXCEPT !.pc = c]]
          /\ c = "inspect" => src[f].st = "none"
    BY <1>5 DEF LookUp
  <2>2. PICK e : e = [rec[r] EXCEPT !.pc = c]
    OBVIOUS
  <2>3. e \in RecoveryType /\ e.pc = c /\ e.f = f
    BY <1>a, <1>b, <2>2
  <2>4. UNCHANGED <<fileVars, uploadVars, diskVars, intents, cleanup, del>>
    BY <1>5 DEF LookUp
  <2>5. RecoveryMove(r, e, f, NoIntent)
    BY <1>0, <1>3, <2>1, <2>2, <2>3, <2>4 DEF RecoveryMove, Removing, fileVars, diskVars
  <2> QED BY <1>2, <1>3, <2>3, <2>5
<1>6. CASE Inspect(r)
  <2>1. PICK S \in SUBSET {"temp", "dest"} :
          rec' = [rec EXCEPT ![r] = [[rec[r] EXCEPT !.pc = "temp"] EXCEPT !.seen = S]]
    BY <1>6 DEF Inspect
  <2>2. PICK e : e = [[rec[r] EXCEPT !.pc = "temp"] EXCEPT !.seen = S]
    OBVIOUS
  <2>3. e \in RecoveryType /\ e.pc = "temp" /\ e.f = f
    BY <1>0, <2>2 DEF RecoveryType, RecoveryPhases
  <2>4. UNCHANGED <<fileVars, uploadVars, diskVars, intents, cleanup, del>> /\ rec[r].pc = "inspect"
    BY <1>6 DEF Inspect
  <2>5. RecoveryMove(r, e, f, NoIntent)
    BY <1>0, <1>3, <2>1, <2>2, <2>3, <2>4 DEF RecoveryMove, Removing, fileVars, diskVars
  <2> QED BY <1>2, <1>3, <2>3, <2>5
<1>7. ASSUME NEW p \in {"temp", "dest"}, NEW u \in {"untemp", "undest"},
             NEW c \in {"dest", "drop"}, RenewPath(r, p, u, c)
      PROVE  \E e \in RecoveryType, h \in Files, i \in IntentType : RecoveryMove(r, e, h, i)
  <2>1. rec[r].pc \in Removing /\ UNCHANGED <<fileVars, uploadVars, diskVars, cleanup, del>>
    BY <1>7 DEF RenewPath, Removing
  <2>2. CASE RenewIntent(r, u)
    <3>1. PICK e \in RecoveryType, i \in IntentType :
             /\ rec' = [rec EXCEPT ![r] = e]
             /\ e.pc = "idle" \/ (e.pc = u /\ e.f = rec[r].f)
             /\ i.owner # "writer"
             /\ intents' = intents \/ intents' = [intents EXCEPT ![rec[r].f] = i]
      BY <2>2, RenewalMoves DEF RecoveryPhases
    <3>2. RecoveryMove(r, e, f, i)
      BY <1>0, <2>1, <3>1 DEF RecoveryMove, fileVars, diskVars
    <3> QED BY <1>2, <3>2
  <2>3. CASE rec' = [rec EXCEPT ![r] = [rec[r] EXCEPT !.pc = c]] /\ UNCHANGED intents
    <3>1. PICK e : e = [rec[r] EXCEPT !.pc = c]
      OBVIOUS
    <3>2. e \in RecoveryType /\ e.f = f
      BY <1>a, <1>b, <3>1
    <3>3. RecoveryMove(r, e, f, NoIntent)
      BY <1>0, <1>3, <2>1, <2>3, <3>1, <3>2 DEF RecoveryMove, fileVars, diskVars
    <3> QED BY <1>2, <1>3, <3>2, <3>3
  <2> QED BY <1>7, <2>2, <2>3 DEF RenewPath
<1>8. CASE UnlinkPath(r)
  <2>1. PICK c \in {"dest", "drop"} : rec' = [rec EXCEPT ![r] = [rec[r] EXCEPT !.pc = c]]
    BY <1>8 DEF UnlinkPath
  <2>2. PICK e : e = [rec[r] EXCEPT !.pc = c]
    OBVIOUS
  <2>3. e \in RecoveryType /\ e.f = f
    BY <1>a, <1>b, <2>2
  <2>4. /\ UNCHANGED <<fileVars, uploadVars, intents, cleanup, del>> /\ rec[r].pc \in Removing
        /\ temp' \subseteq temp
        /\ dest' = dest \/ (rec[r].pc = "undest" /\ dest' = dest \ {rec[r].f})
    BY <1>8 DEF UnlinkPath, Removing
  <2>5. RecoveryMove(r, e, f, NoIntent)
    BY <1>0, <1>3, <2>1, <2>2, <2>3, <2>4 DEF RecoveryMove, fileVars
  <2> QED BY <1>2, <1>3, <2>3, <2>5
<1>9. ASSUME EndRecovery(r) \/ RecoveryError(r) \/ RecovererStops(r)
      PROVE  \E e \in RecoveryType, h \in Files, i \in IntentType : RecoveryMove(r, e, h, i)
  <2>1. /\ UNCHANGED <<mode, rowVars, queueVars, uploadVars, diskVars, cleanup, del>>
        /\ rec' = [rec EXCEPT ![r] = NoRecovery] /\ faults' \in 0..MaxFaults
    <3>1. CASE EndRecovery(r)
      BY <1>0, <3>1 DEF EndRecovery, fileVars
    <3>2. CASE RecoveryError(r) \/ RecovererStops(r)
      BY <1>0, <3>2, FaultCounts DEF RecoveryError, RecovererStops
    <3> QED BY <1>9, <3>1, <3>2
  <2>2. PICK i : /\ i \in IntentType /\ i.owner # "writer"
                 /\ intents' = intents \/ intents' = [intents EXCEPT ![f] = i]
    <3>1. CASE intents' = intents
      BY <1>3, <3>1
    <3>2. CASE intents' = [intents EXCEPT ![f] = NoIntent]
      BY <1>3, <3>2
    <3>3. CASE intents' = [intents EXCEPT ![f] = BackedOff(intents[f])]
      BY <1>2, <3>3, IntentMoves
    <3>4. CASE RecoveryError(r) /\ intents' = [intents EXCEPT ![f] = [Released(intents[f]) EXCEPT !.st = "REJECTED"]]
      BY <1>2, <3>4, IntentMoves
    <3>5. CASE EndRecovery(r)
      BY <3>1, <3>2, <3>3, <3>5 DEF EndRecovery
    <3>6. CASE RecoveryError(r)
      BY <3>1, <3>3, <3>4, <3>6 DEF RecoveryError
    <3>7. CASE RecovererStops(r)
      BY <3>1, <3>7 DEF RecovererStops
    <3> QED BY <1>9, <3>5, <3>6, <3>7
  <2>3. RecoveryMove(r, NoRecovery, f, i)
    BY <2>1, <2>2, FreshIntents DEF RecoveryMove, Removing, diskVars
  <2> QED BY <1>2, <2>2, <2>3, FreshIntents
<1> QED BY <1>4, <1>5, <1>6, <1>7, <1>8, <1>9 DEF RecoverStep

\* The steps of uploadFiles, its faults and the commit of its transaction
UploadMove == UploadStep \/ LimboEnds \/ CommitError \/ UploadError \/ UploadStops

\* Where the upload is, and its intents
LEMMA UploadTyped ==
  ASSUME LegacyTyped, UploadMove
  PROVE  /\ up' \in [pc : UploadPhases, i : 1..Len(Order)]
         /\ intents' \in [Files -> IntentType]
<1>0. /\ up \in [pc : UploadPhases, i : 1..Len(Order)] /\ intents \in [Files -> IntentType]
      /\ Len(Order) \in Nat
  BY OrderFacts DEF LegacyTyped
<1>1. up' \in [pc : UploadPhases, i : 1..Len(Order)]
  <2>1. \A c \in UploadPhases : Goto(c) => up' \in [pc : UploadPhases, i : 1..Len(Order)]
    BY <1>0 DEF Goto
  <2>2. {"plan", "renew", "rename", "save", "finish", "commit", "uncertain", "rollback",
         "clean", "clear", "record", "over"} \subseteq UploadPhases
    BY DEF UploadPhases
  <2>3. CASE SaveRows
    <3>1. \/ Goto("rollback") \/ Goto("finish")
          \/ up.i < Len(Order) /\ up' = [pc |-> "plan", i |-> up.i + 1]
      BY <2>3 DEF SaveRows, Goto
    <3>2. up.i < Len(Order) => up.i + 1 \in 1..Len(Order)
      BY <1>0
    <3> QED BY <2>1, <2>2, <3>1, <3>2
  <2>4. CASE LimboEnds
    BY <1>0, <2>4 DEF LimboEnds
  <2>5. CASE Begin \/ PlanMove \/ RenewBeforeMove \/ MoveFile \/ DeleteIntents \/ CommitUpload
    BY <2>1, <2>2, <2>5
       DEF Begin, PlanMove, RenewBeforeMove, MoveFile, DeleteIntents, CommitUpload
  <2>6. CASE PreserveUncertain \/ Rollback \/ CleanPaths \/ PersistCleanup \/ ClearIntents
    BY <2>1, <2>2, <2>6 DEF PreserveUncertain, Rollback, CleanPaths, PersistCleanup, ClearIntents
  <2>7. CASE CommitError \/ UploadError \/ UploadStops
    BY <2>1, <2>2, <2>7 DEF CommitError, UploadError, UploadStops
  <2> QED BY <2>3, <2>4, <2>5, <2>6, <2>7 DEF UploadMove, UploadStep
<1>2. intents' \in [Files -> IntentType]
  <2>1. \A S \in SUBSET Files : intents' = Renewed(S) => intents' \in [Files -> IntentType]
    BY <1>0, FreshIntents DEF Renewed
  <2>2. Committed => intents' \in [Files -> IntentType]
    BY FreshIntents DEF Committed
  <2>3. Planned \subseteq Files /\ Current \in Files
    <3>1. up.i \in 1..Len(Order)
      BY <1>0
    <3> QED BY <1>0, <3>1, OrderFacts DEF Planned, Current
  <2>4. CASE PreserveUncertain
    <3>1. \/ intents' = intents
          \/ intents' = [f \in Files |-> IF f \in Planned THEN Uncertain ELSE intents[f]]
      BY <2>4 DEF PreserveUncertain
    <3> QED BY <1>0, <3>1, FreshIntents
  <2>5. CASE ClearIntents
    BY <1>0, <2>5, FreshIntents DEF ClearIntents
  <2>6. CASE PlanMove \/ RenewBeforeMove \/ SaveRows
    <3>1. \/ intents' = intents \/ intents' = Renewed(Planned)
          \/ intents' = Renewed(Planned \cup {Current})
      BY <2>6 DEF PlanMove, RenewBeforeMove, SaveRows
    <3> QED BY <1>0, <2>1, <2>3, <3>1
  <2>7. CASE CommitUpload \/ CommitError \/ LimboEnds
    BY <1>0, <2>2, <2>7 DEF CommitUpload, CommitError, LimboEnds
  <2>8. CASE Begin \/ MoveFile \/ DeleteIntents \/ Rollback \/ CleanPaths \/ PersistCleanup
    BY <1>0, <2>8 DEF Begin, MoveFile, DeleteIntents, Rollback, CleanPaths, PersistCleanup
  <2>9. CASE UploadError \/ UploadStops
    BY <1>0, <2>9 DEF UploadError, UploadStops
  <2> QED BY <2>4, <2>5, <2>6, <2>7, <2>8, <2>9 DEF UploadMove, UploadStep
<1> QED BY <1>1, <1>2

\* Its paths and its transaction
LEMMA UploadPathsTyped ==
  ASSUME LegacyTyped, UploadMove
  PROVE  /\ temp' \subseteq Files /\ dest' \subseteq Files /\ moved' \subseteq Files
         /\ txn' \in TxnStates
         /\ cleanup' \in [{"temp", "dest"} -> SUBSET Files]
         /\ rec' = rec /\ del' = del
<1>0. /\ temp \subseteq Files /\ dest \subseteq Files /\ moved \subseteq Files
      /\ txn \in TxnStates
      /\ cleanup \in [{"temp", "dest"} -> SUBSET Files]
      /\ up.i \in 1..Len(Order)
  BY DEF LegacyTyped
<1>1. {"open", "deleting", "committed", "aborted", "limbo"} \subseteq TxnStates
  BY DEF TxnStates
<1>2. CASE Begin \/ Rollback \/ DeleteIntents
  BY <1>0, <1>1, <1>2 DEF Begin, Rollback, DeleteIntents, diskVars
<1>3. CASE MoveFile
  <2>1. Current \in Files
    BY <1>0, OrderFacts DEF Current
  <2> QED BY <1>0, <1>3, <2>1 DEF MoveFile, diskVars
<1>4. CASE CleanPaths
  BY <1>0, <1>4 DEF CleanPaths
<1>5. CASE PersistCleanup
  BY <1>0, <1>5 DEF PersistCleanup, diskVars
<1>6. CASE CommitUpload \/ CommitError \/ LimboEnds
  BY <1>0, <1>1, <1>6 DEF CommitUpload, CommitError, LimboEnds, Committed, diskVars
<1>7. CASE PlanMove \/ RenewBeforeMove \/ SaveRows \/ PreserveUncertain \/ ClearIntents
  BY <1>0, <1>7 DEF PlanMove, RenewBeforeMove, SaveRows, PreserveUncertain, ClearIntents, diskVars
<1>8. CASE UploadError \/ UploadStops
  BY <1>0, <1>1, <1>8 DEF UploadError, UploadStops, diskVars
<1> QED BY <1>2, <1>3, <1>4, <1>5, <1>6, <1>7, <1>8 DEF UploadMove, UploadStep

\* The rows it commits
LEMMA UploadSources ==
  ASSUME SourcesTyped, UploadMove
  PROVE  /\ SourcesTyped'
         /\ UNCHANGED <<mode, docs, queueVars>>
         /\ UNCHANGED <<src, outbox>> \/ Committed
<1>1. /\ UNCHANGED <<mode, docs, queueVars>> /\ faults' \in 0..MaxFaults
      /\ UNCHANGED <<src, outbox>> \/ Committed
  <2>0. faults \in 0..MaxFaults
    BY DEF SourcesTyped
  <2>1. CASE CommitUpload \/ LimboEnds
    BY <2>0, <2>1 DEF CommitUpload, LimboEnds
  <2>2. CASE CommitError \/ UploadError \/ UploadStops
    BY <2>0, <2>2, FaultCounts DEF CommitError, UploadError, UploadStops, rowVars
  <2>3. CASE CleanPaths
    BY <2>0, <2>3, FaultCounts DEF CleanPaths, rowVars
  <2>4. CASE PlanMove \/ RenewBeforeMove \/ SaveRows \/ PreserveUncertain \/ ClearIntents
    BY <2>0, <2>4
       DEF PlanMove, RenewBeforeMove, SaveRows, PreserveUncertain, ClearIntents, fileVars, rowVars
  <2>5. CASE Begin \/ Rollback \/ DeleteIntents \/ MoveFile \/ PersistCleanup
    BY <2>0, <2>5 DEF Begin, Rollback, DeleteIntents, MoveFile, PersistCleanup, fileVars, rowVars
  <2> QED BY <2>1, <2>2, <2>3, <2>4, <2>5 DEF UploadMove, UploadStep
<1>2. RowsTyped'
  <2>1. CASE UNCHANGED <<src, outbox>>
    BY <1>1, <2>1 DEF SourcesTyped, RowsTyped
  <2>2. CASE Committed
    <3>1. /\ NewSource \in SourceType /\ NewOutbox("pending") \in OutboxType
          /\ OutboxFits(NewOutbox("pending"))
      BY FreshRows
    <3>2. src' \in [Files -> SourceType]
      BY <2>2, <3>1 DEF Committed
    <3>3. outbox' \in [Files -> OutboxType] /\ \A f \in Files : OutboxFits(outbox'[f])
      BY <2>2, <3>1 DEF Committed
    <3> QED BY <1>1, <3>2, <3>3 DEF SourcesTyped, RowsTyped
  <2> QED BY <1>1, <2>1, <2>2
<1> QED BY <1>1, <1>2 DEF SourcesTyped, queueVars, QueueTyped

\* Together
LEMMA UploadMoveTyped ==
  ASSUME SourcesTyped, LegacyTyped, UploadMove
  PROVE  SourcesTyped' /\ LegacyTyped'
<1>1. rec' \in [Recoverers -> RecoveryType] /\ (\A r \in Recoverers : RecoveryFits(rec'[r]))
      /\ del' \subseteq Files
  BY UploadPathsTyped DEF LegacyTyped
<1> QED BY <1>1, UploadTyped, UploadPathsTyped, UploadSources DEF LegacyTyped

\* The recoverers
LEMMA RecoveryTyped ==
  ASSUME SourcesTyped, LegacyTyped, NEW r \in Recoverers, NEW e \in RecoveryType,
         NEW f \in Files, NEW i \in IntentType, RecoveryMove(r, e, f, i)
  PROVE  SourcesTyped' /\ LegacyTyped'
<1>1. SourcesTyped'
  BY DEF RecoveryMove, SourcesTyped, rowVars, RowsTyped, queueVars, QueueTyped
<1>2. RecoveryFits(e)
  BY DEF RecoveryMove, LegacyTyped, RecoveryFits
<1>3. rec' \in [Recoverers -> RecoveryType] /\ \A q \in Recoverers : RecoveryFits(rec'[q])
  BY <1>2 DEF RecoveryMove, LegacyTyped
<1>4. intents' \in [Files -> IntentType]
  <2>1. CASE intents' = intents
    BY <2>1 DEF LegacyTyped
  <2>2. CASE intents' = [intents EXCEPT ![f] = i]
    BY <2>2 DEF LegacyTyped
  <2> QED BY <2>1, <2>2 DEF RecoveryMove
<1>5. temp' \subseteq Files /\ dest' \subseteq Files
  BY DEF RecoveryMove, LegacyTyped
<1>6. /\ up' \in [pc : UploadPhases, i : 1..Len(Order)] /\ moved' \subseteq Files
      /\ txn' \in TxnStates /\ cleanup' \in [{"temp", "dest"} -> SUBSET Files] /\ del' \subseteq Files
  BY DEF RecoveryMove, LegacyTyped, uploadVars
<1> QED BY <1>1, <1>3, <1>4, <1>5, <1>6 DEF LegacyTyped

\* Time for an intent, the retried clean-up and deleteFile
FileMove(f) == \/ IntentExpires(f) \/ \E p \in {"temp", "dest"} : CleanRecord(p, f)
               \/ DeleteDocuments(f) \/ DeleteRow(f) \/ DeletePhysical(f)

\* The same for them
LEMMA FileMoveTyped ==
  ASSUME SourcesTyped, LegacyTyped, NEW f \in Files, FileMove(f)
  PROVE  SourcesTyped' /\ LegacyTyped'
<1>1. CASE IntentExpires(f)
  <2>1. intents' = [intents EXCEPT ![f] = [[intents[f] EXCEPT !.live = FALSE] EXCEPT !.due = TRUE]]
    BY <1>1 DEF IntentExpires
  <2>2. PICK i : i = [[intents[f] EXCEPT !.live = FALSE] EXCEPT !.due = TRUE]
    OBVIOUS
  <2>3. i \in IntentType
    BY <2>2, IntentMoves DEF LegacyTyped
  <2>4. intents' \in [Files -> IntentType]
    BY <2>1, <2>2, <2>3 DEF LegacyTyped
  <2>5. faults' \in 0..MaxFaults /\ UNCHANGED <<mode, rowVars, queueVars, uploadVars, diskVars, cleanup, rec, del>>
    BY <1>1, FaultCounts DEF IntentExpires, SourcesTyped
  <2>6. LegacyTyped'
    BY <2>4, <2>5 DEF LegacyTyped, uploadVars, diskVars
  <2> QED BY <2>5, <2>6 DEF SourcesTyped, rowVars, RowsTyped, queueVars, QueueTyped
<1>2. CASE \E p \in {"temp", "dest"} : CleanRecord(p, f)
  <2>1. PICK p \in {"temp", "dest"} : CleanRecord(p, f)
    BY <1>2
  <2>2. cleanup' \in [{"temp", "dest"} -> SUBSET Files]
    BY <2>1 DEF CleanRecord, LegacyTyped
  <2>3. temp' \subseteq Files /\ dest' \subseteq Files
    BY <2>1 DEF CleanRecord, LegacyTyped
  <2>4. UNCHANGED <<fileVars, uploadVars, intents, rec, del>>
    BY <2>1 DEF CleanRecord
  <2>5. LegacyTyped'
    BY <2>2, <2>3, <2>4 DEF LegacyTyped, uploadVars
  <2> QED BY <2>4, <2>5 DEF fileVars, SourcesTyped, rowVars, RowsTyped, queueVars, QueueTyped
<1>3. CASE DeleteDocuments(f)
  <2>1. /\ UNCHANGED <<mode, src, outbox, queueVars, faults, uploadVars, diskVars, intents, cleanup, rec>>
        /\ docs' = [docs EXCEPT ![f] = [v \in Versions |-> "none"]] /\ del' = del \cup {f}
    BY <1>3 DEF DeleteDocuments
  <2>2. RowsTyped'
    BY <2>1 DEF SourcesTyped, RowsTyped
  <2>3. LegacyTyped'
    BY <2>1 DEF LegacyTyped, uploadVars, diskVars
  <2> QED BY <2>1, <2>2, <2>3 DEF SourcesTyped, queueVars, QueueTyped
<1>4. CASE DeleteRow(f)
  <2>1. /\ src' = [src EXCEPT ![f] = NoSource] /\ outbox' = [outbox EXCEPT ![f] = NoOutbox]
        /\ docs' = [docs EXCEPT ![f] = [v \in Versions |-> "none"]]
        /\ UNCHANGED <<mode, queueVars, faults, legacyVars>>
    BY <1>4 DEF DeleteRow
  <2>2. NoSource \in SourceType /\ NoOutbox \in OutboxType /\ OutboxFits(NoOutbox)
    BY FreshRows
  <2>3. RowsTyped'
    <3>1. src' \in [Files -> SourceType]
      BY <2>1, <2>2 DEF SourcesTyped, RowsTyped
    <3>2. docs' \in [Files -> [Versions -> {"none", "inactive", "active"}]]
      BY <2>1 DEF SourcesTyped, RowsTyped
    <3>3. outbox' \in [Files -> OutboxType] /\ \A h \in Files : OutboxFits(outbox'[h])
      BY <2>1, <2>2 DEF SourcesTyped, RowsTyped
    <3> QED BY <3>1, <3>2, <3>3 DEF RowsTyped
  <2>4. LegacyTyped'
    BY <2>1 DEF LegacyTyped, legacyVars, uploadVars, diskVars
  <2> QED BY <2>1, <2>3, <2>4 DEF SourcesTyped, queueVars, QueueTyped
<1>5. CASE DeletePhysical(f)
  <2>1. UNCHANGED <<fileVars, uploadVars, temp, intents, cleanup, rec, del>> /\ dest' = dest \ {f}
    BY <1>5 DEF DeletePhysical
  <2>2. LegacyTyped'
    BY <2>1 DEF LegacyTyped, uploadVars
  <2> QED BY <2>1, <2>2 DEF fileVars, SourcesTyped, rowVars, RowsTyped, queueVars, QueueTyped
<1> QED BY <1>1, <1>2, <1>3, <1>4, <1>5 DEF FileMove

\* Every step of the legacy mode is one of the three.
LEMMA LegacyMoves ==
  ASSUME LegacyStep
  PROVE  \/ UploadMove
         \/ \E r \in Recoverers : RecoverStep(r) \/ RecoveryError(r) \/ RecovererStops(r)
         \/ \E f \in Files : FileMove(f)
BY DEF LegacyStep, LegacyFault, UploadMove, FileMove

-----------------------------------------------------------------------------
(* LegacyUpload: a committed row keeps its file.                           *)

\* A writer that owns all its intents is alone with them.
LEMMA RenewableAlone ==
  ASSUME LegacyTyped, MovesFit, up.pc \in Moving,
         \A f \in Planned : intents[f].owner = "writer"
  PROVE  /\ \A r \in Recoverers : rec[r].pc = "idle"
         /\ moved \subseteq dest /\ moved \subseteq Planned
BY DEF MovesFit

\* No step of a recoverer takes a file whose row is there.
LEMMA RecoveryKeeps ==
  ASSUME LegacyTyped, MoveFits, NEW r \in Recoverers, NEW e \in RecoveryType,
         NEW f \in Files, NEW i \in IntentType, RecoveryMove(r, e, f, i)
  PROVE  MoveFits'
<1>1. /\ UNCHANGED <<src, up, txn, moved, cleanup, del>> /\ UNCHANGED Planned
      /\ rec' = [rec EXCEPT ![r] = e] /\ rec \in [Recoverers -> RecoveryType]
      /\ i.owner # "writer" /\ intents \in [Files -> IntentType]
      /\ dest' = dest \/ (rec[r].pc = "undest" /\ dest' = dest \ {rec[r].f})
  BY DEF RecoveryMove, rowVars, uploadVars, Planned, LegacyTyped
<1>2. rec[r].pc # "idle" => rec[r].f \in Files
  BY DEF LegacyTyped, RecoveryFits
<1>3. ~Locked
  BY DEF RecoveryMove, MoveFits, LockedFits
<1>4. TxnFits' /\ AtRest'
  BY <1>1 DEF MoveFits, TxnFits, AtRest, NoRows
<1>5. LockedFits'
  BY <1>1, <1>3 DEF LockedFits, Locked
<1>6. IdleFits'
  <2>1. up.pc = "idle" => FALSE
    BY DEF RecoveryMove, MoveFits, IdleFits
  <2> QED BY <1>1, <2>1 DEF IdleFits
<1>7. CommittedFits'
  <2>1. SUFFICES ASSUME txn = "committed" PROVE CommittedFits'
    BY <1>1 DEF CommittedFits
  <2>2. \A h \in Files : src[h].st # "none" => h \in dest'
    BY <1>1, <1>2, <2>1 DEF MoveFits, CommittedFits, Removing
  <2>3. \A q \in Recoverers : rec'[q].pc \in Removing => src[rec'[q].f].st = "none"
    <3>1. e.pc \in Removing => src[e.f].st = "none"
      BY <2>1 DEF RecoveryMove, MoveFits, CommittedFits, Removing
    <3> QED BY <1>1, <2>1, <3>1 DEF MoveFits, CommittedFits
  <2> QED BY <1>1, <2>2, <2>3 DEF CommittedFits
<1>8. MovesFit'
  <2>1. SUFFICES ASSUME up.pc \in Moving PROVE MovesFit'
    BY <1>1 DEF MovesFit
  <2>2. /\ \A h \in Files : intents[h].st # "none" => h \in Planned
        /\ \A q \in Recoverers : rec[q].pc # "idle" =>
             rec[q].f \in Planned /\ intents[rec[q].f].owner # "writer"
        /\ \A h \in moved : h \in Planned /\ (h \in dest \/ intents[h].owner # "writer")
        /\ \A k \in 1..Len(Order) : Done(k) => Order[k] \in moved
        /\ up.pc = "finish" => up.i = Len(Order)
    BY <2>1 DEF MoveFits, MovesFit
  <2>3. intents' = intents \/ intents' = [intents EXCEPT ![f] = i]
    BY DEF RecoveryMove
  <2>4. /\ \A h \in Files : intents[h].owner # "writer" => intents'[h].owner # "writer"
        /\ intents' # intents => f \in Planned
    <3>1. f \in Planned \/ intents' = intents
      BY <2>2, <2>3 DEF RecoveryMove
    <3>2. \A h \in Files : intents'[h] = intents[h] \/ (h = f /\ intents'[h] = i)
      BY <1>1, <2>3
    <3> QED BY <1>1, <3>1, <3>2
  <2>5. \A h \in Files : intents'[h].st # "none" => h \in Planned
    BY <1>1, <2>2, <2>3, <2>4
  <2>6. e.pc # "idle" => e.f \in Planned /\ e.f \in Files /\ intents'[e.f].owner # "writer"
    <3>1. CASE rec[r].pc = "idle"
      <4>1. e.f = f /\ intents[f].st # "none" /\ intents' = [intents EXCEPT ![f] = i]
        BY <3>1 DEF RecoveryMove
      <4> QED BY <1>1, <2>2, <4>1
    <3>2. CASE rec[r].pc # "idle"
      <4>1. e.pc # "idle" => e.f = rec[r].f
        BY <3>2 DEF RecoveryMove
      <4> QED BY <1>2, <2>2, <2>4, <3>2, <4>1
    <3> QED BY <3>1, <3>2
  <2>7. \A q \in Recoverers : rec'[q].pc # "idle" =>
          rec'[q].f \in Planned /\ intents'[rec'[q].f].owner # "writer"
    <3>1. \A q \in Recoverers : rec[q].pc # "idle" => rec[q].f \in Files
      BY DEF LegacyTyped, RecoveryFits
    <3> QED BY <1>1, <2>2, <2>4, <2>6, <3>1
  <2>8. \A h \in moved : h \in Planned /\ (h \in dest' \/ intents'[h].owner # "writer")
    <3>1. moved \subseteq Files
      BY DEF LegacyTyped
    <3>2. \A h \in moved : h \in dest' \/ h \notin dest \/ (h = rec[r].f /\ rec[r].pc # "idle")
      BY <1>1
    <3> QED BY <1>2, <2>2, <2>4, <3>1, <3>2
  <2> QED BY <1>1, <2>2, <2>5, <2>7, <2>8 DEF MovesFit, Done
<1> QED BY <1>4, <1>5, <1>6, <1>7, <1>8 DEF MoveFits

\* While files are moved, the upload's steps keep what is moved.
LEMMA MovingKeeps ==
  ASSUME LegacyTyped, MoveFits,
         Begin \/ PlanMove \/ RenewBeforeMove \/ MoveFile \/ SaveRows \/ DeleteIntents
  PROVE  MoveFits'
<1>0. /\ up \in [pc : UploadPhases, i : 1..Len(Order)] /\ up.i \in 1..Len(Order)
      /\ Len(Order) \in Nat /\ intents \in [Files -> IntentType]
  BY OrderFacts DEF LegacyTyped
<1>1. UNCHANGED <<src, cleanup, rec, del>>
  BY DEF Begin, PlanMove, RenewBeforeMove, MoveFile, SaveRows, DeleteIntents, fileVars, rowVars
<1>2. \A c \in UploadPhases : Goto(c) => up'.pc = c /\ up'.i = up.i
  BY <1>0 DEF Goto
<1>3. {"plan", "renew", "rename", "save", "finish", "commit", "rollback"} \subseteq UploadPhases
  BY DEF UploadPhases
<1>a. ASSUME txn \in {"open", "none"}, txn' \in {"open", "deleting"} PROVE AtRest'
  <2>1. NoRows /\ del = {} /\ cleanup = [p \in {"temp", "dest"} |-> {}]
    BY <1>a DEF MoveFits, AtRest
  <2>2. NoRows'
    BY <1>1, <2>1 DEF NoRows
  <2> QED BY <1>1, <2>1, <2>2 DEF AtRest
<1>b. ASSUME txn' = "open" PROVE LockedFits' /\ CommittedFits'
  BY <1>b DEF LockedFits, Locked, CommittedFits
<1>4. ASSUME up.pc \in Moving, Goto("rollback"), UNCHANGED txn PROVE MoveFits'
  <2>1. txn = "open" /\ txn' = "open" /\ up'.pc = "rollback"
    BY <1>2, <1>3, <1>4 DEF MoveFits, TxnFits, Moving
  <2>2. TxnFits' /\ IdleFits' /\ MovesFit'
    BY <2>1 DEF TxnFits, IdleFits, MovesFit, Moving
  <2>3. LockedFits' /\ CommittedFits' /\ AtRest'
    BY <1>a, <1>b, <2>1
  <2> QED BY <2>2, <2>3 DEF MoveFits
<1>5. ASSUME txn = "open" \/ txn = "none", txn' = "open", up'.pc \in Moving, MovesFit'
      PROVE  MoveFits'
  <2>1. TxnFits' /\ IdleFits'
    BY <1>5 DEF TxnFits, IdleFits, Moving
  <2>2. LockedFits' /\ CommittedFits' /\ AtRest'
    BY <1>a, <1>b, <1>5
  <2> QED BY <1>5, <2>1, <2>2 DEF MoveFits
<1>6. CASE Begin
  <2>1. /\ up.pc = "idle" /\ txn = "none" /\ txn' = "open" /\ up'.pc = "plan" /\ up'.i = up.i
        /\ UNCHANGED <<dest, moved, intents, rec>>
    <3>1. up.pc = "idle" /\ txn' = "open" /\ Goto("plan") /\ UNCHANGED <<dest, moved, intents, rec>>
      BY <1>6 DEF Begin
    <3>2. up'.pc = "plan" /\ up'.i = up.i
      BY <1>2, <1>3, <3>1
    <3>3. txn = "none"
      BY <3>1 DEF MoveFits, TxnFits, Moving
    <3> QED BY <3>1, <3>2, <3>3
  <2>2. /\ up.i = 1 /\ moved = {} /\ (\A f \in Files : intents[f].st = "none")
        /\ \A r \in Recoverers : rec[r].pc = "idle"
    BY <2>1 DEF MoveFits, IdleFits
  <2>3. MovesFit'
    BY <2>1, <2>2 DEF MovesFit, Done
  <2> QED BY <1>5, <2>1, <2>3 DEF Moving
<1>7. CASE PlanMove
  <2>1. up.pc = "plan" /\ txn = "open" /\ UNCHANGED <<txn, moved, dest, rec>> /\ MovesFit
    BY <1>7 DEF PlanMove, diskVars, MoveFits, TxnFits, Moving
  <2>2. CASE ~Renewable
    BY <1>4, <1>7, <2>1, <2>2 DEF PlanMove, Moving
  <2>3. CASE Renewable
    <3>1. /\ intents' = Renewed(Planned \cup {Current}) /\ up'.pc = "renew" /\ up'.i = up.i
      BY <1>2, <1>3, <1>7, <2>3 DEF PlanMove
    <3>2. Planned' = Planned \cup {Current}
      <4>1. 1..up.i = (1..(up.i - 1)) \cup {up.i}
        BY <1>0
      <4>2. Planned = {Order[k] : k \in 1..(up.i - 1)}
        BY <2>1 DEF Planned
      <4>3. Planned' = {Order[k] : k \in 1..up.i}
        BY <3>1 DEF Planned
      <4> QED BY <4>1, <4>2, <4>3 DEF Current
    <3>3. /\ \A r \in Recoverers : rec[r].pc = "idle"
          /\ moved \subseteq dest /\ moved \subseteq Planned
      BY <2>1, <2>3, RenewableAlone DEF Renewable, Moving
    <3>4. \A f \in Files : intents[f].st # "none" => f \in Planned
      BY <2>1 DEF MovesFit, Moving
    <3>5. \A f \in Files : intents'[f].st # "none" => f \in Planned'
      BY <3>1, <3>2, <3>4 DEF Renewed
    <3>6. \A k \in 1..Len(Order) : Done(k)' => Order[k] \in moved
      BY <1>0, <2>1, <3>1 DEF MovesFit, Moving, Done
    <3>7. MovesFit'
      BY <2>1, <3>1, <3>2, <3>3, <3>5, <3>6 DEF MovesFit
    <3> QED BY <1>5, <2>1, <3>1, <3>7 DEF Moving
  <2> QED BY <2>2, <2>3
<1>8. CASE RenewBeforeMove
  <2>1. up.pc = "renew" /\ txn = "open" /\ UNCHANGED <<txn, moved, dest, rec>> /\ MovesFit
    BY <1>8 DEF RenewBeforeMove, diskVars, MoveFits, TxnFits, Moving
  <2>2. CASE ~Renewable
    BY <1>4, <1>8, <2>1, <2>2 DEF RenewBeforeMove, Moving
  <2>3. CASE Renewable
    <3>1. /\ intents' = Renewed(Planned) /\ up'.pc = "rename" /\ up'.i = up.i
      BY <1>2, <1>3, <1>8, <2>3 DEF RenewBeforeMove
    <3>2. Planned' = Planned
      BY <2>1, <3>1 DEF Planned
    <3>3. /\ \A r \in Recoverers : rec[r].pc = "idle"
          /\ moved \subseteq dest /\ moved \subseteq Planned
      BY <2>1, <2>3, RenewableAlone DEF Renewable, Moving
    <3>4. \A f \in Files : intents[f].st # "none" => f \in Planned
      BY <2>1 DEF MovesFit, Moving
    <3>5. \A f \in Files : intents'[f].st # "none" => f \in Planned'
      BY <3>1, <3>2, <3>4 DEF Renewed
    <3>6. \A k \in 1..Len(Order) : Done(k)' => Order[k] \in moved
      BY <1>0, <2>1, <3>1 DEF MovesFit, Moving, Done
    <3>7. MovesFit'
      BY <2>1, <3>1, <3>2, <3>3, <3>5, <3>6 DEF MovesFit
    <3> QED BY <1>5, <2>1, <3>1, <3>7 DEF Moving
  <2> QED BY <2>2, <2>3
<1>9. CASE MoveFile
  <2>1. up.pc = "rename" /\ txn = "open" /\ UNCHANGED <<txn, intents, rec>> /\ MovesFit
    BY <1>9 DEF MoveFile, MoveFits, TxnFits, Moving
  <2>2. CASE Current \notin temp
    BY <1>4, <1>9, <2>1, <2>2 DEF MoveFile, Moving
  <2>3. CASE Current \in temp
    <3>1. /\ up'.pc = "save" /\ up'.i = up.i
          /\ dest' = dest \cup {Current} /\ moved' = moved \cup {Current}
      BY <1>2, <1>3, <1>9, <2>3 DEF MoveFile
    <3>2. Planned' = Planned /\ Current \in Planned
      BY <1>0, <2>1, <3>1 DEF Planned, Current
    <3>3. /\ \A f \in Files : intents[f].st # "none" => f \in Planned
          /\ \A r \in Recoverers : rec[r].pc # "idle" =>
               rec[r].f \in Planned /\ intents[rec[r].f].owner # "writer"
          /\ \A f \in moved : f \in Planned /\ (f \in dest \/ intents[f].owner # "writer")
      BY <2>1 DEF MovesFit, Moving
    <3>4. \A f \in moved' : f \in Planned /\ (f \in dest' \/ intents[f].owner # "writer")
      BY <3>1, <3>2, <3>3
    <3>5. \A k \in 1..Len(Order) : Done(k)' => Order[k] \in moved'
      BY <1>0, <2>1, <3>1 DEF MovesFit, Moving, Done, Current
    <3>6. MovesFit'
      BY <2>1, <3>1, <3>2, <3>3, <3>4, <3>5 DEF MovesFit
    <3> QED BY <1>5, <2>1, <3>1, <3>6 DEF Moving
  <2> QED BY <2>2, <2>3
<1>10. CASE SaveRows
  <2>1. up.pc = "save" /\ txn = "open" /\ UNCHANGED <<txn, moved, dest, rec>> /\ MovesFit
    BY <1>10 DEF SaveRows, diskVars, MoveFits, TxnFits, Moving
  <2>2. CASE ~Renewable
    BY <1>4, <1>10, <2>1, <2>2 DEF SaveRows, Moving
  <2>3. CASE Renewable
    <3>1. /\ intents' = Renewed(Planned)
          /\ \/ up'.pc = "plan" /\ up'.i = up.i + 1
             \/ up'.pc = "finish" /\ up'.i = up.i /\ ~(up.i < Len(Order))
      <4>1. up' = IF up.i < Len(Order) THEN [pc |-> "plan", i |-> up.i + 1]
                                       ELSE [up EXCEPT !.pc = "finish"]
        BY <1>10, <2>3 DEF SaveRows
      <4> QED BY <1>0, <1>10, <2>3, <4>1 DEF SaveRows
    <3>2. Planned' = Planned
      BY <1>0, <2>1, <3>1 DEF Planned
    <3>3. /\ \A r \in Recoverers : rec[r].pc = "idle"
          /\ moved \subseteq dest /\ moved \subseteq Planned
      BY <2>1, <2>3, RenewableAlone DEF Renewable, Moving
    <3>4. \A f \in Files : intents[f].st # "none" => f \in Planned
      BY <2>1 DEF MovesFit, Moving
    <3>5. \A f \in Files : intents'[f].st # "none" => f \in Planned'
      BY <3>1, <3>2, <3>4 DEF Renewed
    <3>6. \A k \in 1..Len(Order) : Done(k)' => Done(k)
      BY <1>0, <2>1, <3>1 DEF Done
    <3>7. \A k \in 1..Len(Order) : Done(k)' => Order[k] \in moved
      BY <2>1, <3>6 DEF MovesFit, Moving
    <3>8. up'.pc = "finish" => up'.i = Len(Order)
      BY <1>0, <3>1
    <3>9. MovesFit'
      BY <2>1, <3>1, <3>2, <3>3, <3>5, <3>7, <3>8 DEF MovesFit
    <3> QED BY <1>5, <2>1, <3>1, <3>9 DEF Moving
  <2> QED BY <2>2, <2>3
<1>11. CASE DeleteIntents
  <2>1. up.pc = "finish" /\ txn = "open" /\ UNCHANGED <<moved, dest, intents, rec>> /\ MovesFit
    BY <1>11 DEF DeleteIntents, diskVars, MoveFits, TxnFits, Moving
  <2>2. CASE ~StillOwned
    BY <1>4, <1>11, <2>1, <2>2 DEF DeleteIntents, Moving
  <2>3. CASE StillOwned
    <3>1. txn' = "deleting" /\ up'.pc = "commit"
      BY <1>2, <1>3, <1>11, <2>3 DEF DeleteIntents
    <3>2. (\A r \in Recoverers : rec[r].pc = "idle") /\ moved \subseteq dest
      BY <2>1, <2>3, RenewableAlone DEF StillOwned, Moving
    <3>3. \A k \in 1..Len(Order) : Order[k] \in moved
      <4>1. up.i = Len(Order) /\ \A k \in 1..Len(Order) : Done(k) => Order[k] \in moved
        BY <2>1 DEF MovesFit, Moving
      <4>2. \A k \in 1..Len(Order) : Done(k)
        BY <1>0, <2>1, <4>1 DEF Done
      <4> QED BY <4>1, <4>2
    <3>4. Files \subseteq dest
      BY <3>2, <3>3, OrderFacts
    <3>5. LockedFits'
      BY <2>1, <3>2, <3>4 DEF LockedFits
    <3>6. TxnFits' /\ IdleFits' /\ MovesFit' /\ CommittedFits'
      BY <3>1 DEF TxnFits, IdleFits, MovesFit, CommittedFits, Moving
    <3>7. AtRest'
      BY <1>a, <2>1, <3>1
    <3> QED BY <3>5, <3>6, <3>7 DEF MoveFits
  <2> QED BY <2>2, <2>3
<1> QED BY <1>6, <1>7, <1>8, <1>9, <1>10, <1>11

\* The rows come when all files are there and nobody recovers anything.
LEMMA CommitKeeps ==
  ASSUME LegacyTyped, MoveFits, Locked, UNCHANGED <<rec, dest, cleanup, del>>,
         Committed, up'.pc \in {"uncertain", "over"}
  PROVE  MoveFits'
<1>1. txn' = "committed" /\ txn # "aborted" /\ txn # "committed"
  BY DEF Committed, Locked
<1>2. Files \subseteq dest /\ \A r \in Recoverers : rec[r].pc = "idle"
  BY DEF MoveFits, LockedFits
<1>3. TxnFits' /\ IdleFits' /\ MovesFit' /\ LockedFits'
  BY <1>1 DEF TxnFits, IdleFits, MovesFit, LockedFits, Locked, Moving
<1>4. CommittedFits'
  BY <1>2 DEF CommittedFits, Removing
<1>5. AtRest'
  BY <1>1 DEF MoveFits, AtRest
<1> QED BY <1>3, <1>4, <1>5 DEF MoveFits

\* After that, or without it, nothing that has a row is removed.
LEMMA UploadKeeps ==
  ASSUME SourcesTyped, LegacyTyped, MoveFits, UploadMove
  PROVE  MoveFits'
<1>0. up \in [pc : UploadPhases, i : 1..Len(Order)] /\ up.pc \in UploadPhases
  BY DEF LegacyTyped
<1>1. \A c \in UploadPhases : Goto(c) => up'.pc = c
  BY <1>0 DEF Goto
<1>2. {"uncertain", "rollback", "clean", "clear", "record", "over"} \subseteq UploadPhases
  BY DEF UploadPhases
<1>3. rec' = rec /\ del' = del
  BY UploadPathsTyped
<1>4. ASSUME up'.pc \notin Moving \cup {"idle"}, TxnFits', UNCHANGED src,
             txn' = txn \/ (txn = "open" /\ txn' = "aborted")
               \/ (txn = "deleting" /\ txn' \in {"limbo", "aborted"}) \/ (txn = "limbo" /\ txn' = "aborted"),
             cleanup' = cleanup \/ txn' = "aborted", dest' = dest \/ txn' = "aborted"
      PROVE  MoveFits'
  <2>1. IdleFits' /\ MovesFit'
    BY <1>4 DEF IdleFits, MovesFit
  <2>2. LockedFits'
    BY <1>3, <1>4 DEF MoveFits, LockedFits, Locked
  <2>3. CommittedFits'
    BY <1>3, <1>4 DEF MoveFits, CommittedFits
  <2>4. AtRest'
    BY <1>3, <1>4 DEF MoveFits, AtRest, NoRows
  <2> QED BY <1>4, <2>1, <2>2, <2>3, <2>4 DEF MoveFits
<1>5. CASE CommitUpload
  <2>1. up'.pc = "over" /\ Committed /\ UNCHANGED <<dest, cleanup>>
    BY <1>1, <1>2, <1>5 DEF CommitUpload, diskVars
  <2>2. Locked
    BY <1>5 DEF CommitUpload, MoveFits, TxnFits, Locked, Moving
  <2> QED BY <1>3, <2>1, <2>2, CommitKeeps
<1>6. CASE CommitError
  <2>1. up'.pc = "uncertain" /\ UNCHANGED <<dest, cleanup>>
    BY <1>1, <1>2, <1>6 DEF CommitError, diskVars
  <2>2. txn = "deleting"
    BY <1>6 DEF CommitError, MoveFits, TxnFits, Moving
  <2>3. CASE Committed
    BY <1>3, <2>1, <2>2, <2>3, CommitKeeps DEF Locked
  <2>4. CASE txn' \in {"aborted", "limbo"} /\ UNCHANGED <<src, outbox, intents>>
    <3>1. TxnFits'
      BY <2>1, <2>4 DEF TxnFits, Moving
    <3> QED BY <1>4, <2>1, <2>2, <2>4, <3>1 DEF Moving
  <2> QED BY <1>6, <2>3, <2>4 DEF CommitError
<1>7. CASE LimboEnds
  <2>1. txn = "limbo" /\ UNCHANGED <<up, dest, cleanup>>
    BY <1>7 DEF LimboEnds, diskVars
  <2>2. up.pc \in {"uncertain", "over"}
    BY <1>0, <2>1 DEF MoveFits, TxnFits, Moving, UploadPhases
  <2>3. CASE Committed
    BY <1>3, <2>1, <2>2, <2>3, CommitKeeps DEF Locked
  <2>4. CASE txn' = "aborted" /\ UNCHANGED <<src, outbox, intents>>
    <3>1. TxnFits'
      BY <2>1, <2>2, <2>4 DEF TxnFits, Moving
    <3> QED BY <1>4, <2>1, <2>2, <2>4, <3>1 DEF Moving
  <2> QED BY <1>7, <2>3, <2>4 DEF LimboEnds
<1>8. CASE PreserveUncertain
  <2>1. up.pc = "uncertain" /\ up'.pc = "over" /\ UNCHANGED <<src, txn, dest, cleanup>>
    BY <1>1, <1>2, <1>8 DEF PreserveUncertain, diskVars, fileVars, rowVars
  <2>2. TxnFits'
    BY <2>1 DEF MoveFits, TxnFits, Moving
  <2> QED BY <1>4, <2>1, <2>2 DEF Moving
<1>9. CASE Rollback
  <2>1. /\ up.pc = "rollback" /\ up'.pc = "clean" /\ txn' = "aborted"
        /\ UNCHANGED <<src, dest, cleanup>>
    BY <1>1, <1>2, <1>9 DEF Rollback, diskVars, fileVars, rowVars
  <2>2. TxnFits' /\ txn = "open"
    BY <2>1 DEF MoveFits, TxnFits, Moving
  <2> QED BY <1>4, <2>1, <2>2 DEF Moving
<1>10. CASE CleanPaths \/ PersistCleanup \/ ClearIntents
  <2>1. /\ up.pc \in {"clean", "clear", "record"} /\ up'.pc \in {"clear", "record", "over"}
        /\ UNCHANGED <<src, txn>>
    BY <1>1, <1>2, <1>10 DEF CleanPaths, PersistCleanup, ClearIntents, diskVars, fileVars, rowVars
  <2>2. TxnFits' /\ txn' = "aborted"
    BY <2>1 DEF MoveFits, TxnFits, Moving
  <2> QED BY <1>4, <2>1, <2>2 DEF Moving
<1>11. CASE UploadError
  <2>1. /\ up.pc \in Moving /\ up'.pc = "rollback"
        /\ UNCHANGED <<src, txn, dest, cleanup>>
    BY <1>1, <1>2, <1>11 DEF UploadError, Moving, diskVars, rowVars
  <2>2. TxnFits'
    BY <2>1 DEF MoveFits, TxnFits, Moving
  <2> QED BY <1>4, <2>1, <2>2 DEF Moving
<1>12. CASE UploadStops
  <2>1. /\ up.pc \notin {"idle", "over"} /\ up'.pc = "over" /\ UNCHANGED <<src, dest, cleanup>>
        /\ txn' = IF up.pc = "commit" THEN "limbo" ELSE IF txn = "open" THEN "aborted" ELSE txn
    BY <1>1, <1>2, <1>12 DEF UploadStops, diskVars, rowVars
  <2>2. up.pc = "commit" => txn = "deleting"
    BY DEF MoveFits, TxnFits, Moving
  <2>3. up.pc # "commit" => txn \in {"open", "aborted", "committed", "limbo"}
    BY <1>0, <2>1 DEF MoveFits, TxnFits, Moving, UploadPhases
  <2>4. TxnFits'
    BY <2>1, <2>3 DEF TxnFits, Moving
  <2> QED BY <1>4, <2>1, <2>2, <2>4 DEF Moving
<1> QED BY <1>5, <1>6, <1>7, <1>8, <1>9, <1>10, <1>11, <1>12, MovingKeeps DEF UploadMove, UploadStep

\* Time, clean-up and deleteFile
LEMMA FileMoveKeeps ==
  ASSUME SourcesTyped, LegacyTyped, MoveFits, NEW f \in Files, FileMove(f)
  PROVE  MoveFits'
<1>1. CASE IntentExpires(f)
  <2>1. /\ intents' = [intents EXCEPT ![f] = [[intents[f] EXCEPT !.live = FALSE] EXCEPT !.due = TRUE]]
        /\ UNCHANGED <<src, up, txn, moved, dest, cleanup, rec, del>>
    BY <1>1 DEF IntentExpires, rowVars, uploadVars, diskVars
  <2>2. \A h \in Files : intents'[h].st = intents[h].st /\ intents'[h].owner = intents[h].owner
    <3>1. intents[f] \in IntentType /\ intents \in [Files -> IntentType]
      BY DEF LegacyTyped
    <3>2. PICK i : i = [[intents[f] EXCEPT !.live = FALSE] EXCEPT !.due = TRUE]
      OBVIOUS
    <3>3. i.st = intents[f].st /\ i.owner = intents[f].owner
      BY <3>1, <3>2, IntentMoves
    <3> QED BY <2>1, <3>1, <3>2, <3>3
  <2>3. TxnFits' /\ LockedFits' /\ CommittedFits' /\ AtRest'
    BY <2>1 DEF MoveFits, TxnFits, LockedFits, Locked, CommittedFits, AtRest, NoRows
  <2>4. IdleFits'
    BY <2>1, <2>2 DEF MoveFits, IdleFits
  <2>5. MovesFit'
    <3>1. \A r \in Recoverers : rec[r].pc # "idle" => rec[r].f \in Files
      BY DEF LegacyTyped, RecoveryFits
    <3>2. moved \subseteq Files /\ Planned' = Planned
      BY <2>1 DEF LegacyTyped, Planned
    <3> QED BY <2>1, <2>2, <3>1, <3>2 DEF MoveFits, MovesFit, Done
  <2> QED BY <2>3, <2>4, <2>5 DEF MoveFits
<1>2. ASSUME UNCHANGED <<up, txn, moved, intents, rec>>, txn \in {"committed", "aborted"},
             CommittedFits', AtRest'
      PROVE  MoveFits'
  <2>1. up.pc \notin Moving \cup {"idle"} /\ ~Locked
    BY <1>2 DEF MoveFits, TxnFits, Locked, Moving
  <2>2. TxnFits' /\ LockedFits' /\ IdleFits' /\ MovesFit'
    BY <1>2, <2>1 DEF MoveFits, TxnFits, LockedFits, Locked, IdleFits, MovesFit
  <2> QED BY <1>2, <2>2 DEF MoveFits
<1>3. CASE \E p \in {"temp", "dest"} : CleanRecord(p, f)
  <2>1. PICK p \in {"temp", "dest"} : CleanRecord(p, f)
    BY <1>3
  <2>2. txn = "aborted"
    BY <2>1 DEF CleanRecord, MoveFits, AtRest
  <2>3. UNCHANGED <<src, up, txn, moved, intents, rec, del>>
    BY <2>1 DEF CleanRecord, fileVars, rowVars, uploadVars
  <2>4. CommittedFits' /\ AtRest'
    BY <2>2, <2>3 DEF MoveFits, CommittedFits, AtRest, NoRows
  <2> QED BY <1>2, <2>2, <2>3, <2>4
<1>4. CASE DeleteDocuments(f)
  <2>1. src[f].st # "none" /\ UNCHANGED <<src, up, txn, moved, dest, intents, cleanup, rec>>
    BY <1>4 DEF DeleteDocuments, uploadVars, diskVars
  <2>2. txn = "committed"
    BY <2>1 DEF MoveFits, AtRest, NoRows
  <2>3. CommittedFits' /\ AtRest'
    BY <2>1, <2>2 DEF MoveFits, CommittedFits, AtRest
  <2> QED BY <1>2, <2>1, <2>2, <2>3
<1>5. CASE DeleteRow(f)
  <2>1. /\ f \in del /\ src' = [src EXCEPT ![f] = NoSource]
        /\ UNCHANGED <<up, txn, moved, dest, intents, cleanup, rec, del>>
    BY <1>5 DEF DeleteRow, legacyVars, uploadVars, diskVars
  <2>2. txn = "committed"
    BY <2>1 DEF MoveFits, AtRest
  <2>3. \A h \in Files : src'[h].st # "none" => src[h].st # "none"
    <3>1. src \in [Files -> SourceType] /\ NoSource.st = "none"
      BY FreshRows DEF SourcesTyped, RowsTyped
    <3> QED BY <2>1, <3>1
  <2>4. \A r \in Recoverers : rec[r].pc \in Removing => rec[r].f \in Files
    BY DEF LegacyTyped, RecoveryFits, Removing
  <2>5. CommittedFits' /\ AtRest'
    BY <2>1, <2>2, <2>3, <2>4 DEF MoveFits, CommittedFits, AtRest
  <2> QED BY <1>2, <2>1, <2>2, <2>5
<1>6. CASE DeletePhysical(f)
  <2>1. /\ f \in del /\ src[f].st = "none" /\ dest' = dest \ {f}
        /\ UNCHANGED <<src, up, txn, moved, intents, cleanup, rec, del>>
    BY <1>6 DEF DeletePhysical, fileVars, rowVars, uploadVars
  <2>2. txn = "committed"
    BY <2>1 DEF MoveFits, AtRest
  <2>3. CommittedFits' /\ AtRest'
    BY <2>1, <2>2 DEF MoveFits, CommittedFits, AtRest
  <2> QED BY <1>2, <2>1, <2>2, <2>3
<1> QED BY <1>1, <1>3, <1>4, <1>5, <1>6 DEF FileMove

-----------------------------------------------------------------------------
(* StorageBroker: the steps of the other mode are disabled, and types.     *)

\* No operation, a requested one, no work
LEMMA FreshOps ==
  /\ NoOp \in OpType /\ NoOp.st = "none" /\ NoOp.fence = 0
  /\ PendingOp \in OpType /\ PendingOp.st = "PENDING" /\ PendingOp.fence = 0
  /\ NoWork \in WorkType /\ NoWork.pc = "idle" /\ NoWork.kind = None /\ WorkFits(NoWork)
  /\ 0 \in 0..MaxFence
<1>1. 0 \in 0..MaxFence
  BY BrokerAssumption
<1> QED BY <1>1 DEF NoOp, PendingOp, NoWork, OpType, WorkType, WorkFits

\* A step of a broker or of its requests is one of the broker mode.
LEMMA BrokerOnly ==
  ASSUME SourcesTyped, ModesApart, BrokerModeStep
  PROVE  mode = "broker"
<1>1. SUFFICES ASSUME mode = "legacy" PROVE FALSE
  BY DEF SourcesTyped
<1>2. bup = "idle" /\ BrokerIdle
  BY <1>1 DEF ModesApart
<1>3. ~StageUpload /\ ~CommitMetadata /\ ~StageFails /\ \A f \in Files : ~DeleteWithBroker(f)
  BY <1>1, <1>2 DEF StageUpload, CommitMetadata, StageFails, DeleteWithBroker
<1>4. \A k \in Kinds, f \in Files : op[k][f].st = "none"
  BY <1>2, FreshOps DEF BrokerIdle
<1>5. ASSUME NEW b \in Brokers PROVE ~BrokerStep(b) /\ ~IOError(b) /\ ~BrokerStops(b)
  <2>1. br[b].pc = "idle"
    BY <1>2, FreshOps DEF BrokerIdle
  <2>2. \A k \in Kinds, f \in Files : ~ClaimOp(b, k, f)
    BY <1>4 DEF ClaimOp
  <2> QED BY <2>1, <2>2 DEF BrokerStep, VerifyFinal, OpenSource, RemoveStaging, CreateStaging, CopyBytes,
       RenameFinal, VerifyExisting, DiscardStaging, UndoStaging, CheckFinal,
       UnlinkQuarantine, DeleteBlob, CompleteOp, IOError, BrokerStops
<1>6. \A k \in Kinds, f \in Files : ~OpTime(k, f)
  BY <1>4 DEF OpTime
<1> QED BY <1>3, <1>5, <1>6 DEF BrokerModeStep

\* Where a broker goes on to
Going == {"open", "remove", "create", "copy", "rename", "exists", "discard", "check", "unlink"}

\* The record of a broker that goes on
LEMMA WorkGoes ==
  ASSUME NEW w \in WorkType, WorkFits(w), w.pc # "idle", w.kind = "PROMOTE",
         NEW c \in Going,
         NEW e, e = [w EXCEPT !.pc = c]
  PROVE  /\ e \in WorkType /\ WorkFits(e)
         /\ e.pc = c /\ e.kind = w.kind /\ e.f = w.f /\ e.fence = w.fence
BY DEF WorkType, WorkFits, Going

\* What a broker at work does: its own record, the file of its own claim, the
\* name of a blob that is not there or is to be deleted, and quarantine.
WorkMove(b, e) ==
  LET f == br[b].f
      n == br[b].fence
      Same == UNCHANGED <<quar, final, inode>> IN
  /\ UNCHANGED <<mode, rowVars, queueVars, bup, object, op>>
  /\ faults' \in 0..MaxFaults
  /\ br[b].pc # "idle" /\ br' = [br EXCEPT ![b] = e] /\ WorkFits(e)
  /\ e.pc # "idle" => e.kind = br[b].kind /\ e.f = f /\ e.fence = n
  /\ e.pc \in {"verify", "open", "remove", "create"} =>
       br[b].pc \in {"verify", "open", "remove", "create"} /\ inode' = inode
  /\ staging' \in [Files -> 0..MaxFence]
  /\ \/ Same
     \/ /\ \E x \in {"partial", "full"} :
             /\ inode' = [inode EXCEPT ![f] = [inode[f] EXCEPT ![n] = x]]
             /\ x = "partial" => br[b].pc = "create"
        /\ br[b].kind = "PROMOTE" /\ UNCHANGED <<quar, final>>
     \/ /\ br[b].kind = "PROMOTE" /\ final[f] = 0 /\ UNCHANGED <<quar, inode>>
        /\ \E m \in 0..MaxFence : final' = [final EXCEPT ![f] = m]
     \/ br[b].kind = "DELETE_BLOB" /\ final' = [final EXCEPT ![f] = 0] /\ UNCHANGED <<quar, inode>>
     \/ br[b].pc = "unlink" /\ quar' = quar \ {f} /\ UNCHANGED <<final, inode>>
  /\ \/ e.kind # "PROMOTE"
     \/ ~(e.pc \in {"discard", "unlink"} \/ (e.pc = "complete" /\ e.out = "SUCCEEDED"))
     \/ br[b].pc \in {"discard", "unlink"} /\ UNCHANGED <<final, inode>>
     \/ FinalIs(f) = "full" /\ Same

WorkStep(b) ==
  \/ VerifyFinal(b) \/ OpenSource(b) \/ RemoveStaging(b) \/ CreateStaging(b)
  \/ CopyBytes(b) \/ RenameFinal(b) \/ VerifyExisting(b) \/ DiscardStaging(b)
  \/ CheckFinal(b) \/ UnlinkQuarantine(b) \/ UndoStaging(b) \/ DeleteBlob(b)
  \/ IOError(b) \/ BrokerStops(b)

\* A broker at work is in one of its phases, on a promotion or a deletion.
LEMMA AtWork ==
  ASSUME BrokerTyped, NEW b \in Brokers, br[b].pc # "idle"
  PROVE  /\ br[b] \in WorkType /\ WorkFits(br[b]) /\ br[b].kind \in Kinds
         /\ br[b].f \in Files /\ br[b].fence \in Fences /\ br[b].fence \in 0..MaxFence
         /\ br[b].pc = "delete" => br[b].kind = "DELETE_BLOB"
         /\ br[b].pc \notin {"delete", "complete"} => br[b].kind = "PROMOTE"
<1>1. br[b] \in WorkType /\ WorkFits(br[b])
  BY DEF BrokerTyped
<1>2. Fences \subseteq 0..MaxFence
  BY BrokerAssumption DEF Fences
<1> QED BY <1>1, <1>2 DEF WorkFits

\* Every step of a broker at work is of that form.
LEMMA WorkMoves ==
  ASSUME SourcesTyped, BrokerTyped, NEW b \in Brokers, WorkStep(b)
  PROVE  \E e \in WorkType : WorkMove(b, e)
<1> DEFINE w == br[b]
           f == br[b].f
           n == br[b].fence
<1>0. br[b].pc # "idle"
  BY DEF WorkStep, VerifyFinal, OpenSource, RemoveStaging, CreateStaging, CopyBytes,
         RenameFinal, VerifyExisting, DiscardStaging, UndoStaging,
         CheckFinal, UnlinkQuarantine, DeleteBlob, IOError, BrokerStops
<1>1. /\ w \in WorkType /\ WorkFits(w) /\ w.kind \in Kinds /\ f \in Files /\ n \in Fences
      /\ n \in 0..MaxFence
      /\ w.pc = "delete" => w.kind = "DELETE_BLOB"
      /\ w.pc \notin {"delete", "complete"} => w.kind = "PROMOTE"
  BY <1>0, AtWork
<1>2. /\ faults \in 0..MaxFaults /\ staging \in [Files -> 0..MaxFence]
      /\ \A x \in 0..MaxFence : [staging EXCEPT ![f] = x] \in [Files -> 0..MaxFence]
  BY <1>1 DEF SourcesTyped, BrokerTyped
<1>3. ASSUME NEW c \in Going,
             w.kind = "PROMOTE", To(b, c)
      PROVE  \E e \in WorkType :
               /\ br' = [br EXCEPT ![b] = e] /\ WorkFits(e)
               /\ e.pc = c /\ e.kind = w.kind /\ e.f = f /\ e.fence = n
  <2>1. br' = [br EXCEPT ![b] = [w EXCEPT !.pc = c]]
    BY <1>3 DEF To
  <2>2. PICK e : e = [w EXCEPT !.pc = c]
    OBVIOUS
  <2>3. /\ e \in WorkType /\ WorkFits(e)
        /\ e.pc = c /\ e.kind = w.kind /\ e.f = f /\ e.fence = n
    <3>1. br[b] \in WorkType /\ WorkFits(br[b]) /\ br[b].pc # "idle"
      BY <1>0, <1>1
    <3>2. br[b].kind = "PROMOTE" /\ e = [br[b] EXCEPT !.pc = c]
      BY <1>3, <2>2
    <3> QED BY <3>1, <3>2, WorkGoes
  <2> QED BY <2>1, <2>2, <2>3
<1>4. ASSUME NEW out \in {"SUCCEEDED", "RETRY", "REJECTED"}, Report(b, out)
      PROVE  \E e \in WorkType :
               /\ br' = [br EXCEPT ![b] = e] /\ WorkFits(e) /\ e.pc = "complete" /\ e.out = out
               /\ e.kind = w.kind /\ e.f = f /\ e.fence = n
  <2>1. br' = [br EXCEPT ![b] = [[w EXCEPT !.pc = "complete"] EXCEPT !.out = out]]
    BY <1>4 DEF Report
  <2>2. PICK e : e = [[w EXCEPT !.pc = "complete"] EXCEPT !.out = out]
    OBVIOUS
  <2>3. /\ e \in WorkType /\ WorkFits(e) /\ e.pc = "complete" /\ e.out = out
        /\ e.kind = w.kind /\ e.f = f /\ e.fence = n
    <3>1. br[b] \in WorkType /\ WorkFits(br[b]) /\ br[b].pc # "idle"
      BY <1>0, <1>1
    <3>2. e \in WorkType /\ e.pc = "complete" /\ e.out = out
      BY <2>2, <3>1 DEF WorkType
    <3>3. e.kind = br[b].kind /\ e.f = br[b].f /\ e.fence = br[b].fence
      BY <2>2, <3>1 DEF WorkType
    <3> QED BY <3>1, <3>2, <3>3 DEF WorkFits
  <2> QED BY <2>1, <2>2, <2>3
<1>u. ASSUME NEW out \in {"RETRY", "REJECTED"}, w.kind = "PROMOTE", Undo(b, out)
      PROVE  \E e \in WorkType :
               /\ br' = [br EXCEPT ![b] = e] /\ WorkFits(e) /\ e.pc = "undo" /\ e.out = out
               /\ e.kind = w.kind /\ e.f = f /\ e.fence = n
  <2>1. br' = [br EXCEPT ![b] = [[w EXCEPT !.pc = "undo"] EXCEPT !.out = out]]
    BY <1>u DEF Undo
  <2>2. PICK e : e = [[w EXCEPT !.pc = "undo"] EXCEPT !.out = out]
    OBVIOUS
  <2>3. /\ e \in WorkType /\ WorkFits(e) /\ e.pc = "undo" /\ e.out = out
        /\ e.kind = w.kind /\ e.f = f /\ e.fence = n
    <3>1. br[b] \in WorkType /\ WorkFits(br[b]) /\ br[b].pc # "idle"
      BY <1>0, <1>1
    <3>2. e \in WorkType /\ e.pc = "undo" /\ e.out = out
      BY <2>2, <3>1 DEF WorkType
    <3>3. e.kind = br[b].kind /\ e.f = br[b].f /\ e.fence = br[b].fence
      BY <2>2, <3>1 DEF WorkType
    <3> QED BY <1>u, <3>1, <3>2, <3>3 DEF WorkFits
  <2> QED BY <2>1, <2>2, <2>3
<1> DEFINE Rest == UNCHANGED <<mode, rowVars, queueVars, bup, object, op>> /\ faults' \in 0..MaxFaults
           Same == UNCHANGED <<quar, final, inode>>
<1>5. CASE VerifyFinal(b)
  <2>1. w.pc = "verify" /\ Rest /\ Same /\ staging' = staging
    BY <1>2, <1>5 DEF VerifyFinal, fileVars, fsVars
  <2>2. \/ To(b, "unlink") /\ FinalIs(f) = "full"
        \/ To(b, "open") \/ Report(b, "REJECTED")
    BY <1>5 DEF VerifyFinal
  <2>3. CASE To(b, "unlink") /\ FinalIs(f) = "full"
    <3>1. PICK e \in WorkType :
            /\ br' = [br EXCEPT ![b] = e] /\ WorkFits(e)
            /\ e.pc = "unlink" /\ e.kind = w.kind /\ e.f = f /\ e.fence = n
      BY <1>1, <1>3, <2>1, <2>3 DEF Going
    <3>2. WorkMove(b, e)
      BY <1>2, <2>1, <2>3, <3>1 DEF WorkMove
    <3> QED BY <3>2
  <2>4. CASE To(b, "open")
    <3>1. PICK e \in WorkType :
            /\ br' = [br EXCEPT ![b] = e] /\ WorkFits(e)
            /\ e.pc = "open" /\ e.kind = w.kind /\ e.f = f /\ e.fence = n
      BY <1>1, <1>3, <2>1, <2>4 DEF Going
    <3>2. WorkMove(b, e)
      BY <1>2, <2>1, <3>1 DEF WorkMove
    <3> QED BY <3>2
  <2>5. CASE Report(b, "REJECTED")
    <3>1. PICK e \in WorkType :
            /\ br' = [br EXCEPT ![b] = e] /\ WorkFits(e) /\ e.pc = "complete" /\ e.out = "REJECTED"
            /\ e.kind = w.kind /\ e.f = f /\ e.fence = n
      BY <1>4, <2>5
    <3>2. WorkMove(b, e)
      BY <1>2, <2>1, <3>1 DEF WorkMove
    <3> QED BY <3>2
  <2> QED BY <2>2, <2>3, <2>4, <2>5
<1>o. CASE OpenSource(b)
  <2>1. w.pc = "open" /\ Rest /\ Same /\ staging' = staging
    BY <1>2, <1>o DEF OpenSource, fileVars, fsVars
  <2>2. To(b, "remove") \/ Report(b, "REJECTED")
    BY <1>o DEF OpenSource
  <2>3. CASE To(b, "remove")
    <3>1. PICK e \in WorkType :
            /\ br' = [br EXCEPT ![b] = e] /\ WorkFits(e)
            /\ e.pc = "remove" /\ e.kind = w.kind /\ e.f = f /\ e.fence = n
      BY <1>1, <1>3, <2>1, <2>3 DEF Going
    <3>2. WorkMove(b, e)
      BY <1>2, <2>1, <3>1 DEF WorkMove
    <3> QED BY <3>2
  <2>4. CASE Report(b, "REJECTED")
    <3>1. PICK e \in WorkType :
            /\ br' = [br EXCEPT ![b] = e] /\ WorkFits(e) /\ e.pc = "complete" /\ e.out = "REJECTED"
            /\ e.kind = w.kind /\ e.f = f /\ e.fence = n
      BY <1>4, <2>4
    <3>2. WorkMove(b, e)
      BY <1>2, <2>1, <3>1 DEF WorkMove
    <3> QED BY <3>2
  <2> QED BY <2>2, <2>3, <2>4
<1>6. CASE RemoveStaging(b)
  <2>1. w.pc = "remove" /\ Rest /\ Same /\ staging' = [staging EXCEPT ![f] = 0]
    BY <1>2, <1>6 DEF RemoveStaging, fileVars
  <2>2. PICK e \in WorkType :
          /\ br' = [br EXCEPT ![b] = e] /\ WorkFits(e)
          /\ e.pc = "create" /\ e.kind = w.kind /\ e.f = f /\ e.fence = n
    BY <1>1, <1>3, <1>6 DEF RemoveStaging, Going
  <2>3. WorkMove(b, e)
    BY <1>2, <2>1, <2>2, FreshOps DEF WorkMove
  <2> QED BY <2>3
<1>7. CASE CreateStaging(b)
  <2>1. w.pc = "create" /\ Rest /\ UNCHANGED <<quar, final>>
    BY <1>2, <1>7 DEF CreateStaging, fileVars
  <2>2. CASE staging[f] = 0
    <3>1. /\ staging' = [staging EXCEPT ![f] = n] /\ To(b, "copy")
          /\ inode' = [inode EXCEPT ![f] = [inode[f] EXCEPT ![n] = "partial"]]
      BY <1>7, <2>2 DEF CreateStaging
    <3>2. PICK e \in WorkType :
            /\ br' = [br EXCEPT ![b] = e] /\ WorkFits(e)
            /\ e.pc = "copy" /\ e.kind = w.kind /\ e.f = f /\ e.fence = n
      BY <1>1, <1>3, <2>1, <3>1 DEF Going
    <3>3. WorkMove(b, e)
      BY <1>1, <1>2, <2>1, <3>1, <3>2 DEF WorkMove
    <3> QED BY <3>3
  <2>3. CASE staging[f] # 0
    <3>1. Report(b, "REJECTED") /\ UNCHANGED <<staging, inode>>
      BY <1>7, <2>3 DEF CreateStaging
    <3>2. PICK e \in WorkType :
            /\ br' = [br EXCEPT ![b] = e] /\ WorkFits(e) /\ e.pc = "complete" /\ e.out = "REJECTED"
            /\ e.kind = w.kind /\ e.f = f /\ e.fence = n
      BY <1>4, <3>1
    <3>3. WorkMove(b, e)
      BY <1>2, <2>1, <3>1, <3>2 DEF WorkMove
    <3> QED BY <3>3
  <2> QED BY <2>2, <2>3
<1>8. CASE CopyBytes(b)
  <2>1. /\ w.pc = "copy" /\ Rest /\ UNCHANGED <<quar, final, staging>> /\ To(b, "rename")
        /\ inode' = [inode EXCEPT ![f] = [inode[f] EXCEPT ![n] = "full"]]
    BY <1>2, <1>8 DEF CopyBytes, fileVars
  <2>2. PICK e \in WorkType :
          /\ br' = [br EXCEPT ![b] = e] /\ WorkFits(e)
          /\ e.pc = "rename" /\ e.kind = w.kind /\ e.f = f /\ e.fence = n
    BY <1>1, <1>3, <2>1 DEF Going
  <2>3. WorkMove(b, e)
    BY <1>1, <1>2, <2>1, <2>2 DEF WorkMove
  <2> QED BY <2>3
<1>9. CASE RenameFinal(b)
  <2>1. w.pc = "rename" /\ w.kind = "PROMOTE" /\ Rest /\ UNCHANGED <<quar, inode>>
    BY <1>1, <1>2, <1>9 DEF RenameFinal, fileVars
  <2>2. staging[f] \in 0..MaxFence
    BY <1>1, <1>2
  <2>3. \/ Undo(b, "RETRY") /\ UNCHANGED <<staging, final>>
        \/ /\ final[f] = 0 /\ final' = [final EXCEPT ![f] = staging[f]]
           /\ staging' = [staging EXCEPT ![f] = 0] /\ To(b, "check")
        \/ To(b, "exists") /\ UNCHANGED <<staging, final>>
    BY <1>9 DEF RenameFinal
  <2>4. CASE Undo(b, "RETRY") /\ UNCHANGED <<staging, final>>
    <3>1. PICK e \in WorkType :
            /\ br' = [br EXCEPT ![b] = e] /\ WorkFits(e) /\ e.pc = "undo" /\ e.out = "RETRY"
            /\ e.kind = w.kind /\ e.f = f /\ e.fence = n
      BY <1>u, <2>1, <2>4
    <3>2. WorkMove(b, e)
      BY <1>2, <2>1, <2>4, <3>1 DEF WorkMove
    <3> QED BY <3>2
  <2>5. CASE /\ final[f] = 0 /\ final' = [final EXCEPT ![f] = staging[f]]
             /\ staging' = [staging EXCEPT ![f] = 0] /\ To(b, "check")
    <3>1. PICK e \in WorkType :
            /\ br' = [br EXCEPT ![b] = e] /\ WorkFits(e)
            /\ e.pc = "check" /\ e.kind = w.kind /\ e.f = f /\ e.fence = n
      BY <1>1, <1>3, <2>1, <2>5 DEF Going
    <3>2. WorkMove(b, e)
      BY <1>1, <1>2, <2>1, <2>2, <2>5, <3>1, FreshOps DEF WorkMove
    <3> QED BY <3>2
  <2>6. CASE To(b, "exists") /\ UNCHANGED <<staging, final>>
    <3>1. PICK e \in WorkType :
            /\ br' = [br EXCEPT ![b] = e] /\ WorkFits(e)
            /\ e.pc = "exists" /\ e.kind = w.kind /\ e.f = f /\ e.fence = n
      BY <1>1, <1>3, <2>1, <2>6 DEF Going
    <3>2. WorkMove(b, e)
      BY <1>2, <2>1, <2>6, <3>1 DEF WorkMove
    <3> QED BY <3>2
  <2> QED BY <2>3, <2>4, <2>5, <2>6
<1>x. CASE VerifyExisting(b)
  <2>1. w.pc = "exists" /\ w.kind = "PROMOTE" /\ Rest /\ Same /\ staging' = staging
    BY <1>1, <1>2, <1>x DEF VerifyExisting, fileVars, fsVars
  <2>2. (To(b, "discard") /\ FinalIs(f) = "full") \/ Undo(b, "REJECTED")
    BY <1>x DEF VerifyExisting
  <2>3. CASE To(b, "discard") /\ FinalIs(f) = "full"
    <3>1. PICK e \in WorkType :
            /\ br' = [br EXCEPT ![b] = e] /\ WorkFits(e)
            /\ e.pc = "discard" /\ e.kind = w.kind /\ e.f = f /\ e.fence = n
      BY <1>1, <1>3, <2>1, <2>3 DEF Going
    <3>2. WorkMove(b, e)
      BY <1>2, <2>1, <2>3, <3>1 DEF WorkMove
    <3> QED BY <3>2
  <2>4. CASE Undo(b, "REJECTED")
    <3>1. PICK e \in WorkType :
            /\ br' = [br EXCEPT ![b] = e] /\ WorkFits(e) /\ e.pc = "undo" /\ e.out = "REJECTED"
            /\ e.kind = w.kind /\ e.f = f /\ e.fence = n
      BY <1>u, <2>1, <2>4
    <3>2. WorkMove(b, e)
      BY <1>2, <2>1, <3>1 DEF WorkMove
    <3> QED BY <3>2
  <2> QED BY <2>2, <2>3, <2>4
<1>d. CASE DiscardStaging(b)
  <2>1. /\ w.pc = "discard" /\ w.kind = "PROMOTE" /\ Rest /\ Same /\ To(b, "unlink")
        /\ staging' = [staging EXCEPT ![f] = 0]
    BY <1>1, <1>2, <1>d DEF DiscardStaging, fileVars
  <2>2. PICK e \in WorkType :
          /\ br' = [br EXCEPT ![b] = e] /\ WorkFits(e)
          /\ e.pc = "unlink" /\ e.kind = w.kind /\ e.f = f /\ e.fence = n
    BY <1>1, <1>3, <2>1 DEF Going
  <2>3. WorkMove(b, e)
    BY <1>2, <2>1, <2>2, FreshOps DEF WorkMove
  <2> QED BY <2>3
<1>n. CASE UndoStaging(b)
  <2>1. w.pc = "undo" /\ w.out \in {"RETRY", "REJECTED"}
    BY <1>1, <1>n DEF UndoStaging, WorkFits
  <2>2. Rest /\ Same /\ staging' \in [Files -> 0..MaxFence]
    BY <1>2, <1>n, FaultCounts, FreshOps DEF UndoStaging
  <2>3. PICK e : e = [w EXCEPT !.pc = "complete"]
    OBVIOUS
  <2>4. e \in WorkType /\ e.pc = "complete" /\ e.out = w.out
    BY <1>1, <2>3 DEF WorkType
  <2>5. e.kind = w.kind /\ e.f = f /\ e.fence = n
    BY <1>1, <2>3 DEF WorkType
  <2>6. WorkFits(e)
    BY <1>1, <2>1, <2>4, <2>5 DEF WorkFits
  <2>7. br' = [br EXCEPT ![b] = e]
    BY <1>n, <2>3 DEF UndoStaging
  <2>8. WorkMove(b, e)
    BY <1>0, <2>1, <2>2, <2>4, <2>5, <2>6, <2>7 DEF WorkMove
  <2> QED BY <2>4, <2>8
<1>10. CASE CheckFinal(b)
  <2>1. w.pc = "check" /\ Rest /\ Same /\ staging' = staging
    BY <1>2, <1>10 DEF CheckFinal, fileVars, fsVars
  <2>2. \/ To(b, "unlink") /\ FinalIs(f) = "full"
        \/ \E out \in {"RETRY", "REJECTED"} : Report(b, out)
    BY <1>10 DEF CheckFinal
  <2>3. CASE To(b, "unlink") /\ FinalIs(f) = "full"
    <3>1. PICK e \in WorkType :
            /\ br' = [br EXCEPT ![b] = e] /\ WorkFits(e)
            /\ e.pc = "unlink" /\ e.kind = w.kind /\ e.f = f /\ e.fence = n
      BY <1>1, <1>3, <2>1, <2>3 DEF Going
    <3>2. WorkMove(b, e)
      BY <1>2, <2>1, <2>3, <3>1 DEF WorkMove
    <3> QED BY <3>2
  <2>4. CASE \E out \in {"RETRY", "REJECTED"} : Report(b, out)
    <3>1. PICK out \in {"RETRY", "REJECTED"} : Report(b, out)
      BY <2>4
    <3>2. PICK e \in WorkType :
            /\ br' = [br EXCEPT ![b] = e] /\ WorkFits(e) /\ e.pc = "complete" /\ e.out = out
            /\ e.kind = w.kind /\ e.f = f /\ e.fence = n
      BY <1>4, <3>1
    <3>3. WorkMove(b, e)
      BY <1>2, <2>1, <3>2 DEF WorkMove
    <3> QED BY <3>3
  <2> QED BY <2>2, <2>3, <2>4
<1>11. CASE UnlinkQuarantine(b)
  <2>1. /\ w.pc = "unlink" /\ Rest /\ UNCHANGED <<staging, final, inode>> /\ quar' = quar \ {f}
    BY <1>2, <1>11 DEF UnlinkQuarantine, fileVars
  <2>2. PICK e \in WorkType :
          /\ br' = [br EXCEPT ![b] = e] /\ WorkFits(e) /\ e.pc = "complete" /\ e.out = "SUCCEEDED"
          /\ e.kind = w.kind /\ e.f = f /\ e.fence = n
    BY <1>4, <1>11 DEF UnlinkQuarantine
  <2>3. WorkMove(b, e)
    BY <1>2, <2>1, <2>2 DEF WorkMove
  <2> QED BY <2>3
<1>12. CASE DeleteBlob(b)
  <2>1. /\ w.pc = "delete" /\ w.kind = "DELETE_BLOB" /\ Rest /\ UNCHANGED <<quar, staging, inode>>
    BY <1>1, <1>2, <1>12 DEF DeleteBlob, fileVars
  <2>2. PICK out \in {"SUCCEEDED", "REJECTED"} :
          Report(b, out) /\ (final' = final \/ final' = [final EXCEPT ![f] = 0])
    BY <1>12 DEF DeleteBlob
  <2>3. PICK e \in WorkType :
          /\ br' = [br EXCEPT ![b] = e] /\ WorkFits(e) /\ e.pc = "complete" /\ e.out = out
          /\ e.kind = w.kind /\ e.f = f /\ e.fence = n
    BY <1>4, <2>2
  <2>4. WorkMove(b, e)
    BY <1>2, <2>1, <2>2, <2>3 DEF WorkMove
  <2> QED BY <2>4
<1>13. CASE IOError(b)
  <2>1. Rest /\ Same /\ staging' = staging
    BY <1>2, <1>13, FaultCounts DEF IOError, fsVars
  <2>2. \/ w.kind = "PROMOTE" /\ Undo(b, "RETRY")
        \/ Report(b, "RETRY")
    BY <1>1, <1>13 DEF IOError
  <2>3. CASE w.kind = "PROMOTE" /\ Undo(b, "RETRY")
    <3>1. PICK e \in WorkType :
            /\ br' = [br EXCEPT ![b] = e] /\ WorkFits(e) /\ e.pc = "undo" /\ e.out = "RETRY"
            /\ e.kind = w.kind /\ e.f = f /\ e.fence = n
      BY <1>u, <2>3
    <3>2. WorkMove(b, e)
      BY <1>0, <1>2, <2>1, <3>1 DEF WorkMove
    <3> QED BY <3>2
  <2>4. CASE Report(b, "RETRY")
    <3>1. PICK e \in WorkType :
            /\ br' = [br EXCEPT ![b] = e] /\ WorkFits(e) /\ e.pc = "complete" /\ e.out = "RETRY"
            /\ e.kind = w.kind /\ e.f = f /\ e.fence = n
      BY <1>4, <2>4
    <3>2. WorkMove(b, e)
      BY <1>0, <1>2, <2>1, <3>1 DEF WorkMove
    <3> QED BY <3>2
  <2> QED BY <2>2, <2>3, <2>4
<1>14. CASE BrokerStops(b)
  <2>1. Rest /\ Same /\ staging' = staging /\ br' = [br EXCEPT ![b] = NoWork]
    BY <1>2, <1>14, FaultCounts DEF BrokerStops, fsVars
  <2>2. WorkMove(b, NoWork)
    BY <1>0, <1>2, <2>1, FreshOps DEF WorkMove
  <2> QED BY <2>2, FreshOps
<1> QED BY <1>5, <1>o, <1>6, <1>7, <1>8, <1>9, <1>x, <1>d, <1>n, <1>10, <1>11, <1>12, <1>13,
           <1>14 DEF WorkStep

\* Types of a broker's work
LEMMA WorkTyped ==
  ASSUME SourcesTyped, BrokerTyped, NEW b \in Brokers, NEW e \in WorkType, WorkMove(b, e)
  PROVE  SourcesTyped' /\ BrokerTyped'
<1>0. br[b].f \in Files /\ br[b].fence \in Fences /\ 0 \in 0..MaxFence
  BY AtWork, FreshOps DEF WorkMove
<1>1. SourcesTyped'
  BY DEF WorkMove, SourcesTyped, rowVars, RowsTyped, queueVars, QueueTyped
<1>2. br' \in [Brokers -> WorkType] /\ \A c \in Brokers : WorkFits(br'[c])
  BY DEF WorkMove, BrokerTyped
<1>3. inode' \in [Files -> [Fences -> {"none", "partial", "full"}]]
  <2>1. CASE inode' = inode
    BY <2>1 DEF BrokerTyped
  <2>2. ASSUME NEW x \in {"partial", "full"},
               inode' = [inode EXCEPT ![br[b].f] = [inode[br[b].f] EXCEPT ![br[b].fence] = x]]
        PROVE  inode' \in [Files -> [Fences -> {"none", "partial", "full"}]]
    BY <1>0, <2>2 DEF BrokerTyped
  <2> QED BY <2>1, <2>2 DEF WorkMove
<1>4. final' \in [Files -> 0..MaxFence]
  <2>1. CASE final' = final
    BY <2>1 DEF BrokerTyped
  <2>2. ASSUME NEW m \in 0..MaxFence, final' = [final EXCEPT ![br[b].f] = m]
        PROVE  final' \in [Files -> 0..MaxFence]
    BY <1>0, <2>2 DEF BrokerTyped
  <2> QED BY <1>0, <2>1, <2>2 DEF WorkMove
<1>5. quar' \subseteq Files
  BY DEF WorkMove, BrokerTyped
<1>6. UNCHANGED <<bup, object, op>> /\ staging' \in [Files -> 0..MaxFence]
  BY DEF WorkMove
<1> QED BY <1>1, <1>2, <1>3, <1>4, <1>5, <1>6 DEF BrokerTyped

\* The requests of the API
Request == StageUpload \/ CommitMetadata \/ StageFails

\* Types of the requests
LEMMA RequestTyped ==
  ASSUME SourcesTyped, BrokerTyped, Request
  PROVE  SourcesTyped' /\ BrokerTyped'
<1>1. CASE StageUpload
  <2>1. SourcesTyped'
    BY <1>1 DEF StageUpload, fileVars, SourcesTyped, rowVars, RowsTyped, queueVars, QueueTyped
  <2>2. BrokerTyped'
    BY <1>1, ParsedAssumption DEF StageUpload, BrokerTyped
  <2> QED BY <2>1, <2>2
<1>2. CASE StageFails
  <2>1. UNCHANGED <<mode, rowVars, queueVars>> /\ faults' \in 0..MaxFaults
    BY <1>2, FaultCounts DEF StageFails, SourcesTyped
  <2>2. SourcesTyped'
    BY <2>1 DEF SourcesTyped, rowVars, RowsTyped, queueVars, QueueTyped
  <2>3. BrokerTyped'
    BY <1>2 DEF StageFails, BrokerTyped
  <2> QED BY <2>2, <2>3
<1>3. CASE CommitMetadata
  <2>1. /\ src' = [f \in Files |-> IF f \in Parsed THEN NewSource ELSE src[f]]
        /\ outbox' = [f \in Files |-> IF f \in Parsed THEN NewOutbox("storage_pending") ELSE outbox[f]]
        /\ UNCHANGED <<mode, docs, queueVars, faults>>
    BY <1>3 DEF CommitMetadata
  <2>2. /\ NewSource \in SourceType /\ NewOutbox("storage_pending") \in OutboxType
        /\ OutboxFits(NewOutbox("storage_pending"))
    BY FreshRows
  <2>3. RowsTyped'
    <3>1. src' \in [Files -> SourceType]
      BY <2>1, <2>2 DEF SourcesTyped, RowsTyped
    <3>2. outbox' \in [Files -> OutboxType] /\ \A f \in Files : OutboxFits(outbox'[f])
      BY <2>1, <2>2 DEF SourcesTyped, RowsTyped
    <3> QED BY <2>1, <3>1, <3>2 DEF SourcesTyped, RowsTyped
  <2>4. SourcesTyped'
    BY <2>1, <2>3 DEF SourcesTyped, queueVars, QueueTyped
  <2>5. /\ object' = [f \in Files |-> IF f \in Parsed THEN "STAGING" ELSE object[f]]
        /\ op' = [op EXCEPT !["PROMOTE"] =
                    [f \in Files |-> IF f \in Parsed THEN PendingOp ELSE op["PROMOTE"][f]]]
        /\ bup' = "over" /\ UNCHANGED <<quar, staging, final, inode, br>>
    BY <1>3 DEF CommitMetadata, RequestPromote, BrokerTyped, Kinds
  <2>6. object' \in [Files -> {"none", "STAGING", "AVAILABLE", "DELETE_PENDING", "DELETED"}]
    BY <2>5 DEF BrokerTyped
  <2>7. op' \in [Kinds -> [Files -> OpType]]
    <3>1. [f \in Files |-> IF f \in Parsed THEN PendingOp ELSE op["PROMOTE"][f]] \in [Files -> OpType]
      BY FreshOps DEF BrokerTyped, Kinds
    <3> QED BY <2>5, <3>1 DEF BrokerTyped
  <2>8. BrokerTyped'
    BY <2>5, <2>6, <2>7 DEF BrokerTyped
  <2> QED BY <2>4, <2>8
<1> QED BY <1>1, <1>2, <1>3 DEF Request

\* Types of a deletion
LEMMA DeleteTyped ==
  ASSUME SourcesTyped, BrokerTyped, NEW f \in Files, DeleteWithBroker(f)
  PROVE  SourcesTyped' /\ BrokerTyped'
<1>1. PICK s : s = [[[[src[f] EXCEPT !.tomb = TRUE] EXCEPT !.key = None] EXCEPT !.tok = None]
                      EXCEPT !.live = FALSE]
  OBVIOUS
<1>2. s \in SourceType
  <2>1. src[f] \in SourceType
    BY DEF SourcesTyped, RowsTyped
  <2> QED BY <1>1, <2>1 DEF SourceType
<1>3. PICK d : d = [v \in Versions |-> IF docs[f][v] = "none" THEN "none" ELSE "inactive"]
  OBVIOUS
<1>4. d \in [Versions -> {"none", "inactive", "active"}]
  BY <1>3
<1>5. src' = [src EXCEPT ![f] = s] /\ docs' = [docs EXCEPT ![f] = d] /\ UNCHANGED outbox
  BY <1>1, <1>3 DEF DeleteWithBroker, SourcesTyped, RowsTyped
<1>6. RowsTyped'
  BY <1>2, <1>4, <1>5, SourceRow DEF SourcesTyped
<1>7. SourcesTyped'
  BY <1>6 DEF DeleteWithBroker, SourcesTyped, queueVars, QueueTyped
<1>8. op' \in [Kinds -> [Files -> OpType]]
  <2>1. op' = [op EXCEPT !["DELETE_BLOB"] = [op["DELETE_BLOB"] EXCEPT ![f] = PendingOp]]
    BY DEF DeleteWithBroker
  <2>2. [op["DELETE_BLOB"] EXCEPT ![f] = PendingOp] \in [Files -> OpType]
    BY FreshOps DEF BrokerTyped, Kinds
  <2> QED BY <2>1, <2>2 DEF BrokerTyped
<1>9. object' \in [Files -> {"none", "STAGING", "AVAILABLE", "DELETE_PENDING", "DELETED"}]
  BY DEF DeleteWithBroker, BrokerTyped
<1>10. UNCHANGED <<bup, quar, staging, final, inode, br>>
  BY DEF DeleteWithBroker
<1> QED BY <1>7, <1>8, <1>9, <1>10 DEF BrokerTyped

\* An operation of a file changes.
OpMove(k, f, o) == op' = [op EXCEPT ![k] = [op[k] EXCEPT ![f] = o]]

\* Types of such a change
LEMMA OpTyped ==
  ASSUME BrokerTyped, NEW k \in Kinds, NEW f \in Files, NEW o \in OpType, OpMove(k, f, o)
  PROVE  /\ op' \in [Kinds -> [Files -> OpType]] /\ op'[k][f] = o
         /\ \A l \in Kinds, h \in Files : l # k \/ h # f => op'[l][h] = op[l][h]
<1>1. [op[k] EXCEPT ![f] = o] \in [Files -> OpType]
  BY DEF BrokerTyped
<1> QED BY <1>1 DEF BrokerTyped, OpMove

\* A claim takes the next fence.
LEMMA ClaimTyped ==
  ASSUME SourcesTyped, BrokerTyped, NEW b \in Brokers, NEW k \in Kinds, NEW f \in Files,
         ClaimOp(b, k, f)
  PROVE  /\ SourcesTyped' /\ BrokerTyped'
         /\ \E o \in OpType, e \in WorkType :
              /\ OpMove(k, f, o) /\ o.st = "EXECUTING" /\ o.fence = op[k][f].fence + 1
              /\ br' = [br EXCEPT ![b] = e] /\ WorkFits(e)
              /\ e.pc = (IF k = "PROMOTE" THEN "verify" ELSE "delete")
              /\ e.kind = k /\ e.f = f /\ e.fence = o.fence
<1>0. op[k][f] \in OpType /\ op[k][f].fence \in 0..MaxFence /\ op[k][f].fence < MaxFence
  BY DEF BrokerTyped, OpType, ClaimOp
<1>1. PICK n : n = op[k][f].fence + 1
  OBVIOUS
<1>2. n \in 0..MaxFence /\ n \in Fences
  BY <1>0, <1>1, BrokerAssumption DEF Fences
<1>3. PICK o : o = [st |-> "EXECUTING", fence |-> n, live |-> TRUE, due |-> TRUE]
  OBVIOUS
<1>4. o \in OpType /\ o.st = "EXECUTING" /\ o.fence = n
  BY <1>2, <1>3 DEF OpType
<1>5. PICK e : e = [pc |-> IF k = "PROMOTE" THEN "verify" ELSE "delete",
                    kind |-> k, f |-> f, fence |-> n, out |-> None]
  OBVIOUS
<1>6. /\ e \in WorkType /\ WorkFits(e) /\ e.kind = k /\ e.f = f /\ e.fence = n
      /\ e.pc = (IF k = "PROMOTE" THEN "verify" ELSE "delete")
  BY <1>2, <1>5 DEF WorkType, WorkFits, Kinds
<1>7. /\ OpMove(k, f, o) /\ br' = [br EXCEPT ![b] = e]
      /\ UNCHANGED <<fileVars, bup, object, quar, staging, final, inode>>
  BY <1>1, <1>3, <1>5 DEF ClaimOp, OpMove
<1>8. SourcesTyped'
  BY <1>7 DEF fileVars, SourcesTyped, rowVars, RowsTyped, queueVars, QueueTyped
<1>9. BrokerTyped'
  <2>1. op' \in [Kinds -> [Files -> OpType]]
    BY <1>4, <1>7, OpTyped
  <2>2. br' \in [Brokers -> WorkType] /\ \A c \in Brokers : WorkFits(br'[c])
    BY <1>6, <1>7 DEF BrokerTyped
  <2> QED BY <1>7, <2>1, <2>2 DEF BrokerTyped
<1> QED BY <1>1, <1>4, <1>6, <1>7, <1>8, <1>9

\* A report counts with the fence only.
Holds(b) ==
  LET o == op[br[b].kind][br[b].f] IN o.st = "EXECUTING" /\ o.fence = br[b].fence

\* What a report changes
LEMMA CompleteMoves ==
  ASSUME BrokerTyped, NEW b \in Brokers, CompleteOp(b)
  PROVE  \E k \in Kinds, f \in Files, o \in OpType :
           /\ k = br[b].kind /\ f = br[b].f
           /\ br[b].out \in {"SUCCEEDED", "RETRY", "REJECTED"} /\ br[b].pc = "complete"
           /\ br' = [br EXCEPT ![b] = NoWork]
           /\ UNCHANGED <<mode, src, docs, queueVars, faults, bup, fsVars>>
           /\ o.st = br[b].out /\ o.fence = op[k][f].fence
           /\ Holds(b) => OpMove(k, f, o)
           /\ ~Holds(b) => UNCHANGED <<op, object, outbox>>
           /\ Holds(b) /\ o.st # "SUCCEEDED" => UNCHANGED <<object, outbox>>
           /\ Holds(b) /\ o.st = "SUCCEEDED" =>
                object' = [object EXCEPT ![f] = IF k = "PROMOTE" THEN "AVAILABLE" ELSE "DELETED"]
           /\ k # "PROMOTE" => UNCHANGED outbox
           /\ \/ UNCHANGED outbox
              \/ outbox' = [outbox EXCEPT ![f] = [outbox[f] EXCEPT !.st = "pending"]]
<1>0. /\ br[b].pc = "complete" /\ br[b].kind \in Kinds /\ br[b].f \in Files
      /\ br[b].out \in {"SUCCEEDED", "RETRY", "REJECTED"}
  BY AtWork DEF CompleteOp, WorkFits
<1>1. PICK k \in Kinds, f \in Files : k = br[b].kind /\ f = br[b].f
  BY <1>0
<1>2. op[k][f] \in OpType
  BY DEF BrokerTyped
<1>3. PICK o : o = [[[op[k][f] EXCEPT !.st = br[b].out] EXCEPT !.live = FALSE]
                      EXCEPT !.due = (br[b].out # "RETRY")]
  OBVIOUS
<1>4. o \in OpType /\ o.st = br[b].out /\ o.fence = op[k][f].fence
  BY <1>0, <1>2, <1>3 DEF OpType
<1>5. Holds(b) <=> op[k][f].st = "EXECUTING" /\ op[k][f].fence = br[b].fence
  BY <1>1 DEF Holds
<1>6. /\ op' = IF Holds(b) THEN [op EXCEPT ![k] = [op[k] EXCEPT ![f] = o]] ELSE op
      /\ object' = IF Holds(b) /\ br[b].out = "SUCCEEDED"
                     THEN [object EXCEPT ![f] = IF k = "PROMOTE" THEN "AVAILABLE" ELSE "DELETED"]
                     ELSE object
      /\ outbox' = IF Holds(b) /\ br[b].out = "SUCCEEDED" /\ k = "PROMOTE"
                     THEN [outbox EXCEPT ![f] = [outbox[f] EXCEPT !.st = "pending"]] ELSE outbox
      /\ br' = [br EXCEPT ![b] = NoWork]
      /\ UNCHANGED <<mode, src, docs, queueVars, faults, bup, fsVars>>
  BY <1>1, <1>3, <1>5 DEF CompleteOp
<1> QED BY <1>0, <1>1, <1>4, <1>6 DEF OpMove

\* Types of a report: an event it releases is there.
LEMMA CompleteTyped ==
  ASSUME SourcesTyped, BrokerTyped, BlobFits, NEW b \in Brokers, CompleteOp(b)
  PROVE  SourcesTyped' /\ BrokerTyped'
<1>1. PICK k \in Kinds, f \in Files, o \in OpType :
        /\ k = br[b].kind /\ f = br[b].f
        /\ br' = [br EXCEPT ![b] = NoWork]
        /\ UNCHANGED <<mode, src, docs, queueVars, faults, bup, fsVars>>
        /\ Holds(b) => OpMove(k, f, o)
        /\ ~Holds(b) => UNCHANGED <<op, object, outbox>>
        /\ Holds(b) /\ o.st # "SUCCEEDED" => UNCHANGED <<object, outbox>>
        /\ Holds(b) /\ o.st = "SUCCEEDED" =>
             object' = [object EXCEPT ![f] = IF k = "PROMOTE" THEN "AVAILABLE" ELSE "DELETED"]
        /\ k # "PROMOTE" => UNCHANGED outbox
        /\ \/ UNCHANGED outbox
           \/ outbox' = [outbox EXCEPT ![f] = [outbox[f] EXCEPT !.st = "pending"]]
  BY CompleteMoves
<1>2. RowsTyped'
  <2>1. CASE UNCHANGED outbox
    BY <1>1, <2>1 DEF SourcesTyped, RowsTyped
  <2>2. CASE outbox' = [outbox EXCEPT ![f] = [outbox[f] EXCEPT !.st = "pending"]] /\ outbox' # outbox
    <3>1. k = "PROMOTE" /\ Holds(b)
      BY <1>1, <2>2
    <3>2. op["PROMOTE"][f].st # "none"
      BY <1>1, <3>1 DEF Holds
    <3>3. outbox[f] \in OutboxType /\ OutboxFits(outbox[f]) /\ outbox[f].st # "none"
      BY <3>2 DEF BlobFits, ObjectFits, SourcesTyped, RowsTyped
    <3>4. outbox[f].gen \in Gens
      BY <3>3 DEF OutboxFits
    <3>5. PICK new : new = [outbox[f] EXCEPT !.st = "pending"]
      OBVIOUS
    <3>6. new \in OutboxType /\ OutboxFits(new)
      BY <3>3, <3>4, <3>5, OutboxMoves
    <3> QED BY <1>1, <2>2, <3>5, <3>6, OutboxRow DEF SourcesTyped
  <2> QED BY <1>1, <2>1, <2>2
<1>3. SourcesTyped'
  BY <1>1, <1>2 DEF SourcesTyped, queueVars, QueueTyped
<1>4. op' \in [Kinds -> [Files -> OpType]]
  <2>1. CASE Holds(b)
    BY <1>1, <2>1, OpTyped
  <2>2. CASE ~Holds(b)
    BY <1>1, <2>2 DEF BrokerTyped
  <2> QED BY <2>1, <2>2
<1>5. object' \in [Files -> {"none", "STAGING", "AVAILABLE", "DELETE_PENDING", "DELETED"}]
  <2>1. CASE object' = object
    BY <2>1 DEF BrokerTyped
  <2>2. CASE object' = [object EXCEPT ![f] = IF k = "PROMOTE" THEN "AVAILABLE" ELSE "DELETED"]
    BY <2>2 DEF BrokerTyped
  <2> QED BY <1>1, <2>1, <2>2
<1>6. br' \in [Brokers -> WorkType] /\ \A c \in Brokers : WorkFits(br'[c])
  BY <1>1, FreshOps DEF BrokerTyped
<1> QED BY <1>1, <1>3, <1>4, <1>5, <1>6 DEF BrokerTyped, fsVars

\* Types of a lease or backoff that ends
LEMMA OpTimeTyped ==
  ASSUME SourcesTyped, BrokerTyped, NEW k \in Kinds, NEW f \in Files, OpTime(k, f)
  PROVE  /\ SourcesTyped' /\ BrokerTyped'
         /\ \A l \in Kinds, h \in Files :
              op'[l][h].st = op[l][h].st /\ op'[l][h].fence = op[l][h].fence
<1>1. PICK o : o = [[op[k][f] EXCEPT !.live = FALSE] EXCEPT !.due = TRUE]
  OBVIOUS
<1>2. o \in OpType /\ o.st = op[k][f].st /\ o.fence = op[k][f].fence
  <2>1. op[k][f] \in OpType
    BY DEF BrokerTyped
  <2> QED BY <1>1, <2>1 DEF OpType
<1>3. OpMove(k, f, o) /\ UNCHANGED <<mode, rowVars, queueVars, bup, object, fsVars, br>>
  <2>1. op' = [op EXCEPT ![k] = [op[k] EXCEPT ![f] = [[op[k][f] EXCEPT !.live = FALSE] EXCEPT !.due = TRUE]]]
    BY DEF OpTime, BrokerTyped
  <2> QED BY <1>1, <2>1 DEF OpTime, OpMove
<1>4. faults' \in 0..MaxFaults
  BY FaultCounts DEF OpTime, SourcesTyped
<1>5. SourcesTyped'
  BY <1>3, <1>4 DEF SourcesTyped, rowVars, RowsTyped, queueVars, QueueTyped
<1>6. /\ op' \in [Kinds -> [Files -> OpType]] /\ op'[k][f] = o
      /\ \A l \in Kinds, h \in Files : l # k \/ h # f => op'[l][h] = op[l][h]
  BY <1>2, <1>3, OpTyped
<1>7. BrokerTyped'
  BY <1>3, <1>6 DEF BrokerTyped, fsVars
<1>8. \A l \in Kinds, h \in Files :
        op'[l][h].st = op[l][h].st /\ op'[l][h].fence = op[l][h].fence
  BY <1>2, <1>6
<1> QED BY <1>5, <1>7, <1>8

-----------------------------------------------------------------------------
(* StorageBroker: the bytes of an upload stay.                             *)

\* Facts about a broker at work that the invariant gives
LEMMA FenceFacts ==
  ASSUME BrokerTyped, BlobFits, NEW b \in Brokers, br[b].pc # "idle"
  PROVE  /\ op[br[b].kind][br[b].f].st # "none"
         /\ br[b].kind = "DELETE_BLOB" => IsGone(br[b].f)
         /\ br[b].pc \in {"verify", "open", "remove", "create"} => inode[br[b].f][br[b].fence] = "none"
         /\ br[b].fence \in Fences /\ br[b].fence <= op[br[b].kind][br[b].f].fence
<1>1. br[b].kind \in Kinds /\ br[b].f \in Files /\ br[b].fence \in Fences
  BY AtWork
<1>2. /\ op[br[b].kind][br[b].f].st # "none"
      /\ br[b].fence <= op[br[b].kind][br[b].f].fence
      /\ br[b].pc \in {"verify", "open", "remove", "create"} => inode[br[b].f][br[b].fence] = "none"
  BY DEF BlobFits, FencesFit
<1>3. br[b].kind = "DELETE_BLOB" => IsGone(br[b].f)
  BY <1>1, <1>2 DEF BlobFits, ObjectFits
<1> QED BY <1>1, <1>2, <1>3

\* A complete blob that is not to be deleted stays complete under any work.
LEMMA FullStays ==
  ASSUME BrokerTyped, BlobFits, NEW b \in Brokers, NEW e \in WorkType, WorkMove(b, e),
         NEW h \in Files, FinalIs(h) = "full", ~IsGone(h)
  PROVE  FinalIs(h)' = "full"
<1>1. /\ final[h] # 0 /\ inode[h][final[h]] = "full" /\ final[h] \in 0..MaxFence
      /\ final[h] \in Fences
  BY BrokerAssumption DEF FinalIs, BrokerTyped, Fences
<1>2. br[b].f \in Files /\ br[b].fence \in Fences
  BY AtWork DEF WorkMove
<1>3. final'[h] = final[h]
  <2>1. CASE final' = final
    BY <2>1
  <2>2. CASE final[br[b].f] = 0 /\ \E m \in 0..MaxFence : final' = [final EXCEPT ![br[b].f] = m]
    BY <1>1, <2>2 DEF BrokerTyped
  <2>3. CASE br[b].kind = "DELETE_BLOB" /\ final' = [final EXCEPT ![br[b].f] = 0]
    <3>1. br[b].f # h
      BY <2>3, FenceFacts DEF WorkMove
    <3> QED BY <2>3, <3>1 DEF BrokerTyped
  <2> QED BY <2>1, <2>2, <2>3 DEF WorkMove
<1>4. inode'[h][final[h]] = "full"
  <2>1. CASE inode' = inode
    BY <1>1, <2>1
  <2>2. ASSUME NEW x \in {"partial", "full"},
               inode' = [inode EXCEPT ![br[b].f] = [inode[br[b].f] EXCEPT ![br[b].fence] = x]],
               x = "partial" => br[b].pc = "create"
        PROVE  inode'[h][final[h]] = "full"
    <3>1. x = "partial" => inode[br[b].f][br[b].fence] = "none"
      BY <2>2, FenceFacts
    <3>2. inode \in [Files -> [Fences -> {"none", "partial", "full"}]]
      BY DEF BrokerTyped
    <3> QED BY <1>1, <1>2, <2>2, <3>1, <3>2
  <2> QED BY <2>1, <2>2 DEF WorkMove
<1> QED BY <1>1, <1>3, <1>4 DEF FinalIs

\* A broker at work
LEMMA WorkKeeps ==
  ASSUME SourcesTyped, BrokerTyped, BlobFits,
         NEW b \in Brokers, NEW e \in WorkType, WorkMove(b, e)
  PROVE  BlobFits'
<1>0. /\ br[b].pc # "idle" /\ br[b].f \in Files /\ br[b].fence \in Fences
      /\ br' = [br EXCEPT ![b] = e] /\ br \in [Brokers -> WorkType]
      /\ UNCHANGED <<mode, src, outbox, bup, object, op>>
      /\ e.pc # "idle" => e.kind = br[b].kind /\ e.f = br[b].f /\ e.fence = br[b].fence
  BY AtWork DEF WorkMove, rowVars, BrokerTyped
<1>1. bup = "over"
  BY <1>0, FreshOps DEF BlobFits, StagedFits, BrokerIdle
<1>2. StagedFits' /\ (\A f \in Files : ObjectFits(f)') /\ \A f \in Files : IsGone(f)' = IsGone(f)
  BY <1>0, <1>1 DEF BlobFits, StagedFits, ObjectFits, IsGone
<1>3. FencesFit'
  <2>1. \A f \in Files, n \in Fences : inode'[f][n] # "none" => n <= op["PROMOTE"][f].fence
    <3>1. \A f \in Files, n \in Fences : inode[f][n] # "none" => n <= op["PROMOTE"][f].fence
      BY DEF BlobFits, FencesFit
    <3>2. CASE inode' = inode
      BY <3>1, <3>2
    <3>3. ASSUME NEW x \in {"partial", "full"},
                 inode' = [inode EXCEPT ![br[b].f] = [inode[br[b].f] EXCEPT ![br[b].fence] = x]],
                 br[b].kind = "PROMOTE"
          PROVE  \A f \in Files, n \in Fences : inode'[f][n] # "none" => n <= op["PROMOTE"][f].fence
      <4>1. br[b].fence <= op["PROMOTE"][br[b].f].fence
        BY <1>0, <3>3, FenceFacts
      <4>2. inode \in [Files -> [Fences -> {"none", "partial", "full"}]]
        BY DEF BrokerTyped
      <4>3. \A f \in Files, n \in Fences :
              inode'[f][n] = inode[f][n] \/ (f = br[b].f /\ n = br[b].fence)
        BY <1>0, <3>3, <4>2
      <4> QED BY <3>1, <4>1, <4>3
    <3> QED BY <3>2, <3>3 DEF WorkMove
  <2>2. \A c \in Brokers : br'[c].pc # "idle" =>
          op[br'[c].kind][br'[c].f].st # "none" /\ br'[c].fence <= op[br'[c].kind][br'[c].f].fence
    BY <1>0 DEF BlobFits, FencesFit
  <2>3. \A c, d \in Brokers :
          c # d /\ br'[c].pc # "idle" /\ br'[d].pc # "idle"
          /\ br'[c].kind = br'[d].kind /\ br'[c].f = br'[d].f => br'[c].fence # br'[d].fence
    BY <1>0 DEF BlobFits, FencesFit
  <2>4. \A c \in Brokers : br'[c].pc \in {"verify", "open", "remove", "create"} =>
          inode'[br'[c].f][br'[c].fence] = "none"
    <3>1. SUFFICES ASSUME NEW c \in Brokers, br'[c].pc \in {"verify", "open", "remove", "create"}
                   PROVE  inode'[br'[c].f][br'[c].fence] = "none"
      OBVIOUS
    <3>2. CASE c = b
      <4>1. br'[c] = e /\ inode' = inode /\ br[b].pc \in {"verify", "open", "remove", "create"}
        BY <1>0, <3>1, <3>2 DEF WorkMove
      <4> QED BY <1>0, <3>1, <4>1, FenceFacts
    <3>3. CASE c # b
      <4>1. br'[c] = br[c] /\ br[c].pc \in {"verify", "open", "remove", "create"}
        BY <1>0, <3>1, <3>3
      <4>2. inode[br[c].f][br[c].fence] = "none" /\ br[c].f \in Files /\ br[c].fence \in Fences
            /\ br[c].kind = "PROMOTE"
        BY <4>1, FenceFacts, AtWork
      <4>3. CASE inode' = inode
        BY <4>1, <4>2, <4>3
      <4>4. ASSUME NEW x \in {"partial", "full"},
                   inode' = [inode EXCEPT ![br[b].f] = [inode[br[b].f] EXCEPT ![br[b].fence] = x]],
                   br[b].kind = "PROMOTE"
            PROVE  inode'[br[c].f][br[c].fence] = "none"
        <5>1. br[c].f # br[b].f \/ br[c].fence # br[b].fence
          BY <1>0, <3>3, <4>1, <4>2, <4>4 DEF BlobFits, FencesFit
        <5>2. inode \in [Files -> [Fences -> {"none", "partial", "full"}]]
          BY DEF BrokerTyped
        <5> QED BY <1>0, <4>2, <4>4, <5>1, <5>2
      <4> QED BY <4>1, <4>3, <4>4 DEF WorkMove
    <3> QED BY <3>2, <3>3
  <2> QED BY <1>0, <2>1, <2>2, <2>3, <2>4 DEF FencesFit
<1>4. \A f \in Files : FinalIs(f) = "full" /\ ~IsGone(f) => FinalIs(f)' = "full"
  BY FullStays
<1>5. ASSUME NEW c \in Brokers, br[c].kind = "PROMOTE", Succeeded(c)
      PROVE  IsGone(br[c].f) \/ FinalIs(br[c].f) = "full"
  BY <1>5 DEF BlobFits, BytesFit
<1>6. ASSUME NEW f \in Files
      PROVE  /\ object[f] = "STAGING" => f \in quar' \/ FinalIs(f)' = "full"
             /\ object[f] = "AVAILABLE" => FinalIs(f)' = "full"
  <2>1. object[f] \in {"STAGING", "AVAILABLE"} => ~IsGone(f)
    BY DEF IsGone
  <2>2. /\ object[f] = "STAGING" => f \in quar \/ FinalIs(f) = "full"
        /\ object[f] = "AVAILABLE" => FinalIs(f) = "full"
    BY DEF BlobFits, BytesFit
  <2>3. f \in quar => f \in quar' \/ (f = br[b].f /\ br[b].pc = "unlink")
    BY DEF WorkMove
  <2>4. f = br[b].f /\ br[b].pc = "unlink" => IsGone(f) \/ FinalIs(f) = "full"
    <3>1. br[b].pc = "unlink" => br[b].kind = "PROMOTE"
      BY AtWork DEF WorkMove
    <3> QED BY <1>5, <3>1 DEF Succeeded
  <2> QED BY <1>4, <2>1, <2>2, <2>3, <2>4
<1>7. ASSUME NEW c \in Brokers, NEW f \in Files, br'[c].f = f, br'[c].kind = "PROMOTE", Succeeded(c)'
      PROVE  IsGone(f) \/ FinalIs(f)' = "full"
  <2>1. CASE c # b
    <3>1. br'[c] = br[c]
      BY <1>0, <2>1
    <3>2. Succeeded(c)
      BY <1>7, <3>1 DEF Succeeded
    <3> QED BY <1>4, <1>5, <1>7, <3>1, <3>2
  <2>2. CASE c = b
    <3>1. br'[c] = e
      BY <1>0, <2>2
    <3>2. e.pc # "idle" /\ (e.pc \in {"discard", "unlink"} \/ (e.pc = "complete" /\ e.out = "SUCCEEDED"))
      BY <1>7, <3>1 DEF Succeeded
    <3>3. e.f = f /\ br[b].f = f /\ e.kind = "PROMOTE" /\ br[b].kind = "PROMOTE"
      BY <1>0, <1>7, <3>1, <3>2
    <3>4. \/ br[b].pc \in {"discard", "unlink"} /\ UNCHANGED <<final, inode>>
          \/ FinalIs(f) = "full" /\ UNCHANGED <<final, inode>>
      BY <3>2, <3>3 DEF WorkMove
    <3>5. IsGone(f) \/ FinalIs(f) = "full"
      BY <1>5, <3>3, <3>4 DEF Succeeded
    <3> QED BY <1>4, <3>5
  <2> QED BY <2>1, <2>2
<1>8. BytesFit'
  <2>1. ASSUME NEW c \in Brokers, br'[c].kind = "PROMOTE", Succeeded(c)'
        PROVE  (IsGone(br[c].f) \/ FinalIs(br[c].f) = "full")'
    <3>1. br'[c].f \in Files
      <4>1. br'[c].pc # "idle" /\ BrokerTyped'
        BY <2>1, WorkTyped DEF Succeeded
      <4> QED BY <4>1 DEF BrokerTyped, WorkFits
    <3>2. PICK f \in Files : f = br'[c].f
      BY <3>1
    <3>3. IsGone(f)' \/ FinalIs(f)' = "full"
      BY <1>0, <1>7, <2>1, <3>2 DEF IsGone
    <3> QED BY <3>2, <3>3 DEF IsGone, FinalIs
  <2>2. (\A f \in Files : /\ object[f] = "STAGING" => f \in quar \/ FinalIs(f) = "full"
                          /\ object[f] = "AVAILABLE" => FinalIs(f) = "full")'
    <3>1. object' = object
      BY <1>0
    <3> QED BY <1>6, <3>1
  <2>3. (\A c \in Brokers : br[c].kind = "PROMOTE" /\ Succeeded(c) =>
            IsGone(br[c].f) \/ FinalIs(br[c].f) = "full")'
    BY <2>1
  <2> QED BY <2>2, <2>3 DEF BytesFit
<1> QED BY <1>2, <1>3, <1>8 DEF BlobFits

\* Before the request commits nothing is there.
LEMMA IdleFacts ==
  ASSUME BrokerTyped, BlobFits, bup # "over"
  PROVE  /\ BrokerIdle /\ NoRows
         /\ \A f \in Files : object[f] = "none"
         /\ \A k \in Kinds, f \in Files : op[k][f] = NoOp
         /\ \A b \in Brokers : br[b].pc = "idle"
         /\ \A f \in Files, n \in Fences : inode[f][n] = "none"
<1>1. BrokerIdle /\ NoRows
  BY DEF BlobFits, StagedFits
<1>2. /\ \A f \in Files : object[f] = "none"
      /\ \A k \in Kinds, f \in Files : op[k][f] = NoOp
      /\ \A b \in Brokers : br[b].pc = "idle"
  BY <1>1, FreshOps DEF BrokerIdle
<1>3. \A f \in Files, n \in Fences : inode[f][n] = "none"
  <2>1. \A f \in Files : op["PROMOTE"][f].fence = 0
    BY <1>2, FreshOps DEF Kinds
  <2>2. \A n \in Fences : ~(n <= 0)
    BY BrokerAssumption DEF Fences
  <2> QED BY <2>1, <2>2 DEF BlobFits, FencesFit
<1> QED BY <1>1, <1>2, <1>3

\* The requests of the API
LEMMA RequestKeeps ==
  ASSUME SourcesTyped, BrokerTyped, BlobFits, Request
  PROVE  BlobFits'
<1>0. /\ bup # "over" /\ UNCHANGED <<staging, final, inode, br>>
      /\ mode' = mode
  BY DEF Request, StageUpload, CommitMetadata, StageFails, fileVars
<1>1. CASE StageUpload \/ StageFails
  <2>1. /\ UNCHANGED <<src, outbox, object, op>>
        /\ bup' = "over" \/ (bup' = "staged" /\ quar' = Parsed)
    BY <1>1 DEF StageUpload, StageFails, fileVars, rowVars
  <2>2. StagedFits'
    <3>1. BrokerIdle /\ NoRows
      BY <1>0, IdleFacts
    <3>2. BrokerIdle' /\ NoRows'
      BY <1>0, <2>1, <3>1 DEF BrokerIdle, NoRows
    <3> QED BY <2>1, <3>2 DEF StagedFits
  <2>3. ASSUME NEW f \in Files PROVE ObjectFits(f)'
    <3>1. ObjectFits(f)
      BY DEF BlobFits
    <3> QED BY <2>1, <3>1 DEF ObjectFits, IsGone
  <2>4. FencesFit'
    BY <1>0, <2>1 DEF BlobFits, FencesFit
  <2>5. BytesFit'
    BY <1>0, <2>1, IdleFacts DEF BytesFit, Succeeded
  <2> QED BY <2>2, <2>3, <2>4, <2>5 DEF BlobFits
<1>2. CASE CommitMetadata
  <2>1. /\ bup = "staged" /\ bup' = "over" /\ UNCHANGED quar
        /\ outbox' = [f \in Files |-> IF f \in Parsed THEN NewOutbox("storage_pending") ELSE outbox[f]]
        /\ object' = [f \in Files |-> IF f \in Parsed THEN "STAGING" ELSE object[f]]
        /\ op' = [op EXCEPT !["PROMOTE"] =
                    [f \in Files |-> IF f \in Parsed THEN PendingOp ELSE op["PROMOTE"][f]]]
    BY <1>2 DEF CommitMetadata, RequestPromote, BrokerTyped, Kinds
  <2>2. \A f \in Files :
          /\ op'["PROMOTE"][f] = IF f \in Parsed THEN PendingOp ELSE op["PROMOTE"][f]
          /\ op'["DELETE_BLOB"][f] = op["DELETE_BLOB"][f]
    BY <2>1 DEF BrokerTyped, Kinds
  <2>3. StagedFits'
    BY <2>1 DEF StagedFits
  <2>4. NewOutbox("storage_pending").st = "storage_pending"
    BY DEF NewOutbox, NoOutbox
  <2>5. ASSUME NEW f \in Files PROVE ObjectFits(f)'
    <3>1. op["DELETE_BLOB"][f].st = "none"
      BY <1>0, IdleFacts, FreshOps DEF Kinds
    <3>2. CASE f \in Parsed
      <4>1. object'[f] = "STAGING" /\ outbox'[f].st = "storage_pending"
        BY <2>1, <2>4, <3>2
      <4> QED BY <2>2, <3>1, <4>1 DEF ObjectFits
    <3>3. CASE f \notin Parsed
      <4>1. object'[f] = object[f] /\ outbox'[f] = outbox[f]
        BY <2>1, <3>3
      <4>2. ObjectFits(f)
        BY DEF BlobFits
      <4> QED BY <2>2, <3>1, <3>3, <4>1, <4>2 DEF ObjectFits
    <3> QED BY <3>2, <3>3
  <2>6. FencesFit'
    BY <1>0, IdleFacts DEF FencesFit
  <2>7. BytesFit'
    <3>1. Parsed \subseteq quar
      BY <2>1 DEF BlobFits, StagedFits
    <3>2. \A f \in Files : object'[f] \in {"STAGING", "none"} /\ (object'[f] = "STAGING" => f \in Parsed)
      BY <1>0, <2>1, IdleFacts
    <3> QED BY <1>0, <2>1, <3>1, <3>2, IdleFacts DEF BytesFit, Succeeded
  <2> QED BY <2>3, <2>5, <2>6, <2>7 DEF BlobFits
<1> QED BY <1>1, <1>2 DEF Request

\* A deletion is requested of a blob that is there.
LEMMA DeleteKeeps ==
  ASSUME SourcesTyped, BrokerTyped, BlobFits, NEW f \in Files, DeleteWithBroker(f)
  PROVE  BlobFits'
<1>1. /\ object[f] = "AVAILABLE" /\ object' = [object EXCEPT ![f] = "DELETE_PENDING"]
      /\ OpMove("DELETE_BLOB", f, PendingOp)
      /\ UNCHANGED <<outbox, bup, quar, staging, final, inode, br>>
  BY DEF DeleteWithBroker, OpMove
<1>2. /\ op'["DELETE_BLOB"][f] = PendingOp
      /\ \A l \in Kinds, h \in Files : l # "DELETE_BLOB" \/ h # f => op'[l][h] = op[l][h]
  BY <1>1, OpTyped, FreshOps DEF Kinds
<1>3. object'[f] = "DELETE_PENDING" /\ \A h \in Files : h # f => object'[h] = object[h]
  BY <1>1 DEF BrokerTyped
<1>4. StagedFits'
  <2>1. bup = "over"
    BY <1>1, IdleFacts
  <2> QED BY <1>1, <2>1 DEF StagedFits
<1>5. ASSUME NEW h \in Files PROVE ObjectFits(h)'
  <2>1. ObjectFits(h) /\ op'["PROMOTE"][h] = op["PROMOTE"][h] /\ outbox'[h] = outbox[h]
    BY <1>1, <1>2 DEF BlobFits, Kinds
  <2>2. CASE h = f
    BY <1>1, <1>3, <2>1, <2>2 DEF ObjectFits, IsGone
  <2>3. CASE h # f
    BY <1>2, <1>3, <2>1, <2>3 DEF ObjectFits, IsGone, Kinds
  <2> QED BY <2>2, <2>3
<1>6. ASSUME NEW b \in Brokers, br[b].pc # "idle"
      PROVE  op'[br[b].kind][br[b].f] = op[br[b].kind][br[b].f]
  <2>1. op["DELETE_BLOB"][f].st = "none"
    BY <1>1 DEF BlobFits, ObjectFits, IsGone
  <2>2. br[b].kind # "DELETE_BLOB" \/ br[b].f # f
    BY <1>6, <2>1, FenceFacts
  <2>3. br[b].kind \in Kinds /\ br[b].f \in Files
    BY <1>6, AtWork
  <2> QED BY <1>2, <2>2, <2>3
<1>7. FencesFit'
  <2>1. \A h \in Files : op'["PROMOTE"][h] = op["PROMOTE"][h]
    BY <1>2 DEF Kinds
  <2> QED BY <1>1, <1>6, <2>1 DEF BlobFits, FencesFit
<1>8. BytesFit'
  <2>1. \A h \in Files : (IsGone(h) => IsGone(h)') /\ FinalIs(h)' = FinalIs(h)
    BY <1>1, <1>3 DEF IsGone, FinalIs
  <2>2. \A h \in Files : object'[h] \in {"STAGING", "AVAILABLE"} => object'[h] = object[h]
    BY <1>3
  <2>3. ASSUME NEW h \in Files
        PROVE  /\ object'[h] = "STAGING" => h \in quar' \/ FinalIs(h)' = "full"
               /\ object'[h] = "AVAILABLE" => FinalIs(h)' = "full"
    BY <1>1, <2>1, <2>2 DEF BlobFits, BytesFit
  <2>4. ASSUME NEW b \in Brokers, br'[b].kind = "PROMOTE", Succeeded(b)'
        PROVE  (IsGone(br[b].f) \/ FinalIs(br[b].f) = "full")'
    <3>1. br'[b] = br[b] /\ Succeeded(b) /\ br[b].pc # "idle"
      BY <1>1, <2>4 DEF Succeeded
    <3>2. br[b].f \in Files
      BY <3>1, AtWork
    <3>3. IsGone(br[b].f) \/ FinalIs(br[b].f) = "full"
      BY <2>4, <3>1 DEF BlobFits, BytesFit
    <3>4. PICK h \in Files : h = br[b].f /\ h = br'[b].f
      BY <3>1, <3>2
    <3>5. IsGone(h)' \/ FinalIs(h)' = "full"
      BY <2>1, <3>3, <3>4
    <3> QED BY <3>4, <3>5 DEF IsGone, FinalIs
  <2> QED BY <2>3, <2>4 DEF BytesFit
<1> QED BY <1>4, <1>5, <1>7, <1>8 DEF BlobFits

\* The claim of an operation
LEMMA ClaimKeeps ==
  ASSUME SourcesTyped, BrokerTyped, BlobFits, NEW b \in Brokers, NEW k \in Kinds,
         NEW f \in Files, ClaimOp(b, k, f)
  PROVE  BlobFits'
<1>1. PICK o \in OpType, e \in WorkType :
        /\ OpMove(k, f, o) /\ o.st = "EXECUTING" /\ o.fence = op[k][f].fence + 1
        /\ br' = [br EXCEPT ![b] = e] /\ WorkFits(e)
        /\ e.pc = (IF k = "PROMOTE" THEN "verify" ELSE "delete")
        /\ e.kind = k /\ e.f = f /\ e.fence = o.fence
  BY ClaimTyped
<1>2. /\ UNCHANGED <<src, outbox, bup, object, quar, staging, final, inode>>
      /\ op[k][f].st \in {"PENDING", "RETRY", "EXECUTING"}
  BY DEF ClaimOp, fileVars, rowVars
<1>3. /\ op'[k][f] = o
      /\ \A l \in Kinds, h \in Files : l # k \/ h # f => op'[l][h] = op[l][h]
  BY <1>1, OpTyped
<1>4. br'[b] = e /\ \A c \in Brokers : c # b => br'[c] = br[c]
  BY <1>1 DEF BrokerTyped
<1>5. \A l \in Kinds, h \in Files :
        /\ op[l][h].fence \in Nat /\ op'[l][h].fence \in Nat
        /\ op[l][h].fence <= op'[l][h].fence
        /\ op[l][h].st # "none" => op'[l][h].st # "none"
  <2>1. \A l \in Kinds, h \in Files : op[l][h].fence \in Nat
    BY BrokerAssumption DEF BrokerTyped, OpType
  <2> QED BY <1>1, <1>3, <2>1
<1>6. StagedFits'
  <2>1. bup = "over"
    BY <1>2, IdleFacts, FreshOps
  <2> QED BY <1>2, <2>1 DEF StagedFits
<1>7. ASSUME NEW h \in Files PROVE ObjectFits(h)'
  <2>1. ObjectFits(h) /\ object'[h] = object[h] /\ outbox'[h] = outbox[h]
    BY <1>2 DEF BlobFits
  <2>2. CASE h # f
    BY <1>3, <2>1, <2>2 DEF ObjectFits, IsGone, Kinds
  <2>3. CASE h = f /\ k = "PROMOTE"
    <3>1. op'["DELETE_BLOB"][h] = op["DELETE_BLOB"][h]
      BY <1>3, <2>3 DEF Kinds
    <3>2. op["PROMOTE"][h].st \in {"PENDING", "RETRY", "EXECUTING"}
      BY <1>2, <2>3
    <3> QED BY <2>1, <3>1, <3>2 DEF ObjectFits, IsGone
  <2>4. CASE h = f /\ k = "DELETE_BLOB"
    <3>1. op'["PROMOTE"][h] = op["PROMOTE"][h]
      BY <1>3, <2>4 DEF Kinds
    <3>2. op["DELETE_BLOB"][h].st # "none"
      BY <1>2, <2>4
    <3> QED BY <2>1, <3>1, <3>2 DEF ObjectFits, IsGone
  <2> QED BY <2>2, <2>3, <2>4 DEF Kinds
<1>8. FencesFit'
  <2>1. \A h \in Files, n \in Fences : inode'[h][n] # "none" => n <= op'["PROMOTE"][h].fence
    <3>1. ASSUME NEW h \in Files, NEW n \in Fences, inode'[h][n] # "none"
          PROVE  n <= op'["PROMOTE"][h].fence
      <4>1. n <= op["PROMOTE"][h].fence
        BY <1>2, <3>1 DEF BlobFits, FencesFit
      <4>2. /\ op["PROMOTE"][h].fence \in Nat /\ op'["PROMOTE"][h].fence \in Nat
            /\ op["PROMOTE"][h].fence <= op'["PROMOTE"][h].fence
        BY <1>5 DEF Kinds
      <4>3. n \in Nat
        BY BrokerAssumption DEF Fences
      <4> QED BY <4>1, <4>2, <4>3
    <3> QED BY <3>1
  <2>2. ASSUME NEW c \in Brokers, c # b, br[c].pc # "idle"
        PROVE  /\ op'[br[c].kind][br[c].f].st # "none"
               /\ br[c].fence <= op'[br[c].kind][br[c].f].fence
               /\ br[c].kind = k /\ br[c].f = f => br[c].fence < o.fence
    <3>1. /\ op[br[c].kind][br[c].f].st # "none"
          /\ br[c].fence \in Nat /\ br[c].fence <= op[br[c].kind][br[c].f].fence
          /\ br[c].kind \in Kinds /\ br[c].f \in Files
      BY <2>2, FenceFacts, AtWork, BrokerAssumption DEF Fences
    <3> QED BY <1>1, <1>5, <3>1
  <2>3. /\ e.pc # "idle" /\ op'[k][f].st # "none" /\ e.fence <= op'[k][f].fence
        /\ e.fence \in Nat
    BY <1>1, <1>3, <1>5
  <2>4. \A c \in Brokers : br'[c].pc # "idle" =>
          op'[br'[c].kind][br'[c].f].st # "none" /\ br'[c].fence <= op'[br'[c].kind][br'[c].f].fence
    BY <1>1, <1>4, <2>2, <2>3
  <2>5. \A c, d \in Brokers :
          c # d /\ br'[c].pc # "idle" /\ br'[d].pc # "idle"
          /\ br'[c].kind = br'[d].kind /\ br'[c].f = br'[d].f => br'[c].fence # br'[d].fence
    <3>1. ASSUME NEW c \in Brokers, c # b, br[c].pc # "idle", br[c].kind = k, br[c].f = f
          PROVE  br[c].fence # e.fence
      <4>1. br[c].fence < o.fence /\ br[c].fence \in Nat
        BY <2>2, <3>1, AtWork, BrokerAssumption DEF Fences
      <4> QED BY <1>1, <2>3, <4>1
    <3>2. SUFFICES ASSUME NEW c \in Brokers, NEW d \in Brokers,
                          c # d, br'[c].pc # "idle", br'[d].pc # "idle",
                          br'[c].kind = br'[d].kind, br'[c].f = br'[d].f
                   PROVE  br'[c].fence # br'[d].fence
      OBVIOUS
    <3>3. CASE c # b /\ d # b
      BY <1>4, <3>2, <3>3 DEF BlobFits, FencesFit
    <3>4. CASE c = b
      BY <1>1, <1>4, <3>1, <3>2, <3>4
    <3>5. CASE d = b
      BY <1>1, <1>4, <3>1, <3>2, <3>5
    <3> QED BY <3>3, <3>4, <3>5
  <2>6. \A c \in Brokers : br'[c].pc \in {"verify", "open", "remove", "create"} =>
          inode'[br'[c].f][br'[c].fence] = "none"
    <3>1. CASE k = "PROMOTE"
      <4>1. ~(o.fence <= op["PROMOTE"][f].fence)
        BY <1>1, <1>5, <3>1
      <4>2. e.fence \in Fences
        BY <1>1, <2>3 DEF WorkFits
      <4>3. inode[f][e.fence] = "none"
        BY <1>1, <4>1, <4>2 DEF BlobFits, FencesFit
      <4> QED BY <1>1, <1>2, <1>4, <4>3, FenceFacts
    <3>2. CASE k # "PROMOTE"
      BY <1>1, <1>2, <1>4, <3>2, FenceFacts
    <3> QED BY <3>1, <3>2
  <2> QED BY <2>1, <2>4, <2>5, <2>6 DEF FencesFit
<1>9. BytesFit'
  <2>1. \A c \in Brokers : Succeeded(c)' => br'[c] = br[c]
    <3>1. ~Succeeded(b)'
      BY <1>1, <1>4 DEF Succeeded
    <3> QED BY <1>4, <3>1
  <2> QED BY <1>2, <2>1 DEF BlobFits, BytesFit, Succeeded, IsGone, FinalIs
<1> QED BY <1>6, <1>7, <1>8, <1>9 DEF BlobFits

\* The report of a broker: only a blob that is complete becomes available.
LEMMA CompleteKeeps ==
  ASSUME SourcesTyped, BrokerTyped, BlobFits, NEW b \in Brokers, CompleteOp(b)
  PROVE  BlobFits'
<1>1. PICK k \in Kinds, f \in Files, o \in OpType :
        /\ k = br[b].kind /\ f = br[b].f
        /\ br[b].out \in {"SUCCEEDED", "RETRY", "REJECTED"} /\ br[b].pc = "complete"
        /\ br' = [br EXCEPT ![b] = NoWork]
        /\ UNCHANGED <<mode, src, docs, queueVars, faults, bup, fsVars>>
        /\ o.st = br[b].out /\ o.fence = op[k][f].fence
        /\ Holds(b) => OpMove(k, f, o)
        /\ ~Holds(b) => UNCHANGED <<op, object, outbox>>
        /\ Holds(b) /\ o.st # "SUCCEEDED" => UNCHANGED <<object, outbox>>
        /\ Holds(b) /\ o.st = "SUCCEEDED" =>
             object' = [object EXCEPT ![f] = IF k = "PROMOTE" THEN "AVAILABLE" ELSE "DELETED"]
        /\ k # "PROMOTE" => UNCHANGED outbox
        /\ \/ UNCHANGED outbox
           \/ outbox' = [outbox EXCEPT ![f] = [outbox[f] EXCEPT !.st = "pending"]]
  BY CompleteMoves
<1>2. /\ UNCHANGED <<bup, quar, staging, final, inode>> /\ bup = "over"
      /\ br'[b].pc = "idle" /\ \A c \in Brokers : c # b => br'[c] = br[c]
  BY <1>1, IdleFacts, FreshOps DEF fsVars, BrokerTyped
<1>3. Holds(b) => /\ op[k][f].st = "EXECUTING" /\ op'[k][f] = o
                  /\ \A l \in Kinds, h \in Files : l # k \/ h # f => op'[l][h] = op[l][h]
  BY <1>1, OpTyped DEF Holds
<1>4. StagedFits'
  BY <1>2 DEF StagedFits
<1>5. \A h \in Files : outbox[h].st # "none" => outbox'[h].st # "none"
  <2>1. CASE UNCHANGED outbox
    BY <2>1
  <2>2. CASE outbox' = [outbox EXCEPT ![f] = [outbox[f] EXCEPT !.st = "pending"]]
    BY <2>2 DEF SourcesTyped, RowsTyped, OutboxType
  <2> QED BY <1>1, <2>1, <2>2
<1>6. \A l \in Kinds, h \in Files :
        /\ op'[l][h].fence = op[l][h].fence
        /\ op'[l][h].st = "none" <=> op[l][h].st = "none"
  BY <1>1, <1>3
<1>7. \A h \in Files : h # f => object'[h] = object[h]
  BY <1>1 DEF BrokerTyped
<1>8. Holds(b) /\ o.st = "SUCCEEDED" =>
        object'[f] = (IF k = "PROMOTE" THEN "AVAILABLE" ELSE "DELETED")
  BY <1>1 DEF BrokerTyped
<1>9. Holds(b) /\ k = "PROMOTE" => object[f] = "STAGING"
  <2>1. ObjectFits(f)
    BY DEF BlobFits
  <2>2. object[f] \in {"none", "STAGING", "AVAILABLE", "DELETE_PENDING", "DELETED"}
    BY DEF BrokerTyped
  <2> QED BY <1>3, <2>1, <2>2 DEF ObjectFits
<1>10. Holds(b) /\ k = "DELETE_BLOB" => IsGone(f)
  <2>1. ObjectFits(f)
    BY DEF BlobFits
  <2> QED BY <1>3, <2>1 DEF ObjectFits
<1>11. ASSUME NEW h \in Files PROVE ObjectFits(h)'
  <2>1. ObjectFits(h)
    BY DEF BlobFits
  <2>2. CASE h # f \/ ~Holds(b)
    <3>1. object'[h] = object[h] /\ \A l \in Kinds : op'[l][h] = op[l][h]
      BY <1>1, <1>3, <1>7, <2>2
    <3> QED BY <1>5, <2>1, <3>1 DEF ObjectFits, IsGone, Kinds
  <2>3. CASE h = f /\ Holds(b) /\ k = "PROMOTE"
    <3>1. /\ object[h] = "STAGING" /\ op'["PROMOTE"][h].st = o.st
          /\ op'["DELETE_BLOB"][h] = op["DELETE_BLOB"][h]
          /\ object'[h] = IF o.st = "SUCCEEDED" THEN "AVAILABLE" ELSE "STAGING"
      BY <1>1, <1>3, <1>8, <1>9, <2>3 DEF Kinds
    <3>2. outbox'[h].st # "none"
      BY <1>3, <1>5, <2>1, <2>3 DEF ObjectFits
    <3> QED BY <2>1, <3>1, <3>2 DEF ObjectFits, IsGone
  <2>4. CASE h = f /\ Holds(b) /\ k = "DELETE_BLOB"
    <3>1. /\ op'["PROMOTE"][h] = op["PROMOTE"][h] /\ IsGone(h)
          /\ object'[h] = "DELETED" \/ object'[h] = object[h]
      BY <1>1, <1>3, <1>8, <1>10, <2>4 DEF Kinds
    <3> QED BY <1>5, <2>1, <3>1 DEF ObjectFits, IsGone
  <2> QED BY <2>2, <2>3, <2>4 DEF Kinds
<1>12. FencesFit'
  <2>1. \A c \in Brokers : br'[c].pc # "idle" => br'[c] = br[c] /\ br[c].kind \in Kinds /\ br[c].f \in Files
    BY <1>2, AtWork
  <2>2. \A h \in Files, n \in Fences : inode'[h][n] # "none" => n <= op'["PROMOTE"][h].fence
    BY <1>2, <1>6 DEF BlobFits, FencesFit, Kinds
  <2>3. \A c \in Brokers : br'[c].pc # "idle" =>
          op'[br'[c].kind][br'[c].f].st # "none" /\ br'[c].fence <= op'[br'[c].kind][br'[c].f].fence
    BY <1>6, <2>1 DEF BlobFits, FencesFit
  <2>4. \A c, d \in Brokers :
          c # d /\ br'[c].pc # "idle" /\ br'[d].pc # "idle"
          /\ br'[c].kind = br'[d].kind /\ br'[c].f = br'[d].f => br'[c].fence # br'[d].fence
    BY <2>1 DEF BlobFits, FencesFit
  <2>5. \A c \in Brokers : br'[c].pc \in {"verify", "open", "remove", "create"} =>
          inode'[br'[c].f][br'[c].fence] = "none"
    BY <1>2, <2>1 DEF BlobFits, FencesFit
  <2> QED BY <2>2, <2>3, <2>4, <2>5 DEF FencesFit
<1>13. \A h \in Files : (IsGone(h) => IsGone(h)') /\ FinalIs(h)' = FinalIs(h)
  <2>1. \A h \in Files : FinalIs(h)' = FinalIs(h)
    BY <1>2 DEF FinalIs
  <2>2. ASSUME NEW h \in Files, IsGone(h) PROVE IsGone(h)'
    BY <1>1, <1>7, <1>8, <1>9, <2>2 DEF IsGone
  <2> QED BY <2>1, <2>2
<1>14. BytesFit'
  <2>1. ASSUME NEW h \in Files
        PROVE  /\ object'[h] = "STAGING" => h \in quar' \/ FinalIs(h)' = "full"
               /\ object'[h] = "AVAILABLE" => FinalIs(h)' = "full"
    <3>1. /\ object[h] = "STAGING" => h \in quar \/ FinalIs(h) = "full"
          /\ object[h] = "AVAILABLE" => FinalIs(h) = "full"
      BY DEF BlobFits, BytesFit
    <3>2. CASE object'[h] = object[h]
      BY <1>2, <1>13, <3>1, <3>2
    <3>3. CASE object'[h] # object[h]
      <4>1. h = f /\ Holds(b) /\ o.st = "SUCCEEDED"
        BY <1>1, <1>7, <3>3
      <4>2. CASE k = "PROMOTE"
        <5>1. object[f] = "STAGING" /\ ~IsGone(f)
          BY <1>9, <4>1, <4>2 DEF IsGone
        <5>2. Succeeded(b)
          BY <1>1, <4>1 DEF Succeeded
        <5>3. FinalIs(f) = "full"
          BY <1>1, <4>2, <5>1, <5>2 DEF BlobFits, BytesFit
        <5> QED BY <1>13, <4>1, <5>3
      <4>3. CASE k # "PROMOTE"
        BY <1>8, <4>1, <4>3
      <4> QED BY <4>2, <4>3
    <3> QED BY <3>2, <3>3
  <2>2. ASSUME NEW c \in Brokers, br'[c].kind = "PROMOTE", Succeeded(c)'
        PROVE  (IsGone(br[c].f) \/ FinalIs(br[c].f) = "full")'
    <3>1. br'[c].pc # "idle"
      BY <2>2 DEF Succeeded
    <3>2. br'[c] = br[c] /\ br[c].f \in Files
      BY <1>2, <3>1, AtWork
    <3>3. Succeeded(c)
      BY <2>2, <3>2 DEF Succeeded
    <3>4. IsGone(br[c].f) \/ FinalIs(br[c].f) = "full"
      BY <2>2, <3>2, <3>3 DEF BlobFits, BytesFit
    <3>5. PICK h \in Files : h = br[c].f /\ h = br'[c].f
      BY <3>2
    <3>6. IsGone(h)' \/ FinalIs(h)' = "full"
      BY <1>13, <3>4, <3>5
    <3> QED BY <3>5, <3>6 DEF IsGone, FinalIs
  <2> QED BY <2>1, <2>2 DEF BytesFit
<1> QED BY <1>4, <1>11, <1>12, <1>14 DEF BlobFits

\* Steps that leave the brokers' work alone: time, and the rows' own steps
LEMMA OtherKeeps ==
  ASSUME BrokerTyped, BlobFits, UNCHANGED <<bup, object, quar, staging, final, inode, br>>,
         \A k \in Kinds, f \in Files :
           op'[k][f].st = op[k][f].st /\ op'[k][f].fence = op[k][f].fence,
         \A f \in Files : outbox[f].st # "none" => outbox'[f].st # "none",
         bup = "over" \/ (op' = op /\ NoRows')
  PROVE  BlobFits'
<1>1. StagedFits'
  BY IdleFacts DEF StagedFits, BlobFits, BrokerIdle
<1>2. ASSUME NEW f \in Files PROVE ObjectFits(f)'
  <2>1. ObjectFits(f)
    BY DEF BlobFits
  <2>2. \A k \in Kinds : op'[k][f].st = op[k][f].st
    OBVIOUS
  <2> QED BY <2>1, <2>2 DEF ObjectFits, IsGone, Kinds
<1>3. FencesFit'
  <2>1. \A c \in Brokers : br[c].pc # "idle" => br[c].kind \in Kinds /\ br[c].f \in Files
    BY AtWork
  <2> QED BY <2>1 DEF BlobFits, FencesFit, Kinds
<1>4. BytesFit'
  BY DEF BlobFits, BytesFit, Succeeded, IsGone, FinalIs
<1> QED BY <1>1, <1>2, <1>3, <1>4 DEF BlobFits

\* Every step of the broker mode
LEMMA BrokerKeeps ==
  ASSUME SourcesTyped, BrokerTyped, BlobFits, BrokerModeStep
  PROVE  SourcesTyped' /\ BrokerTyped' /\ BlobFits'
<1>1. CASE Request
  BY <1>1, RequestTyped, RequestKeeps
<1>2. CASE \E f \in Files : DeleteWithBroker(f)
  BY <1>2, DeleteTyped, DeleteKeeps
<1>3. ASSUME NEW b \in Brokers, WorkStep(b)
      PROVE  SourcesTyped' /\ BrokerTyped' /\ BlobFits'
  <2>1. PICK e \in WorkType : WorkMove(b, e)
    BY <1>3, WorkMoves
  <2> QED BY <2>1, WorkTyped, WorkKeeps
<1>4. ASSUME NEW b \in Brokers, NEW k \in Kinds, NEW f \in Files, ClaimOp(b, k, f)
      PROVE  SourcesTyped' /\ BrokerTyped' /\ BlobFits'
  BY <1>4, ClaimTyped, ClaimKeeps
<1>5. ASSUME NEW b \in Brokers, CompleteOp(b)
      PROVE  SourcesTyped' /\ BrokerTyped' /\ BlobFits'
  BY <1>5, CompleteTyped, CompleteKeeps
<1>6. ASSUME NEW k \in Kinds, NEW f \in Files, OpTime(k, f)
      PROVE  SourcesTyped' /\ BrokerTyped' /\ BlobFits'
  <2>1. /\ SourcesTyped' /\ BrokerTyped'
        /\ \A l \in Kinds, h \in Files :
             op'[l][h].st = op[l][h].st /\ op'[l][h].fence = op[l][h].fence
    BY <1>6, OpTimeTyped
  <2>2. UNCHANGED <<outbox, bup, object, quar, staging, final, inode, br>>
    BY <1>6 DEF OpTime, rowVars, fsVars
  <2>3. bup = "over"
    BY <1>6, IdleFacts, FreshOps DEF OpTime
  <2> QED BY <2>1, <2>2, <2>3, OtherKeeps
<1> QED BY <1>1, <1>2, <1>3, <1>4, <1>5, <1>6 DEF BrokerModeStep, BrokerStep, WorkStep, Request

\* Every step of the legacy mode
LEMMA LegacyKeeps ==
  ASSUME SourcesTyped, LegacyTyped, MoveFits, LegacyStep
  PROVE  SourcesTyped' /\ LegacyTyped' /\ MoveFits'
<1>1. CASE UploadMove
  BY <1>1, UploadMoveTyped, UploadKeeps
<1>2. ASSUME NEW r \in Recoverers, RecoverStep(r) \/ RecoveryError(r) \/ RecovererStops(r)
      PROVE  SourcesTyped' /\ LegacyTyped' /\ MoveFits'
  <2>1. PICK e \in RecoveryType, f \in Files, i \in IntentType : RecoveryMove(r, e, f, i)
    BY <1>2, RecoveryMoves
  <2> QED BY <2>1, RecoveryTyped, RecoveryKeeps
<1>3. ASSUME NEW f \in Files, FileMove(f)
      PROVE  SourcesTyped' /\ LegacyTyped' /\ MoveFits'
  BY <1>3, FileMoveTyped, FileMoveKeeps
<1> QED BY <1>1, <1>2, <1>3, LegacyMoves

-----------------------------------------------------------------------------
(* DONE and the active version.                                            *)

\* What a step must do to a row that is DONE
DoneStep ==
  \A f \in Files : src[f].st = "DONE" /\ src'[f].st # "DONE" =>
    src'[f].st = "none" \/ src'[f].gen > src[f].gen

\* A step after which every row that is DONE was so before, as it is.
LEMMA NoneDone ==
  ASSUME DoneMatchesActive,
         \A f \in Files : src'[f].st = "DONE" /\ ~src'[f].tomb /\ f \notin del' =>
           /\ src[f].st = "DONE" /\ ~src[f].tomb /\ f \notin del
           /\ src'[f].key = src[f].key /\ docs'[f] = docs[f]
  PROVE  DoneMatchesActive'
<1>1. ASSUME NEW f \in Files, (src[f].st = "DONE" /\ ~src[f].tomb /\ f \notin del)'
      PROVE  ({v \in Versions : docs[f][v] = "active"} = {src[f].key})'
  <2>1. {v \in Versions : docs[f][v] = "active"} = {src[f].key}
    BY <1>1 DEF DoneMatchesActive
  <2> QED BY <1>1, <2>1
<1> QED BY <1>1 DEF DoneMatchesActive

\* The steps on the rows and in the queue
LEMMA RowDone ==
  ASSUME DoneMatchesActive, RowsKept, UNCHANGED del
  PROVE  DoneMatchesActive' /\ DoneStep
<1>1. DoneStep
  BY DEF DoneStep, RowsKept, RowKept
<1>2. ASSUME NEW f \in Files, (src[f].st = "DONE" /\ ~src[f].tomb /\ f \notin del)'
      PROVE  ({v \in Versions : docs[f][v] = "active"} = {src[f].key})'
  <2>1. CASE ActiveIs(f, src[f].key)'
    BY <2>1 DEF ActiveIs
  <2>2. CASE ~ActiveIs(f, src[f].key)'
    <3>1. /\ src[f].st = "DONE" /\ ~src[f].tomb /\ f \notin del
          /\ src'[f].key = src[f].key /\ docs'[f] = docs[f]
      BY <1>2, <2>2 DEF RowsKept, RowKept
    <3>2. {v \in Versions : docs[f][v] = "active"} = {src[f].key}
      BY <3>1 DEF DoneMatchesActive
    <3> QED BY <3>1, <3>2
  <2> QED BY <2>1, <2>2
<1> QED BY <1>1, <1>2 DEF DoneMatchesActive

\* An upload commits rows that were not there, and they are PENDING.
LEMMA UploadDone ==
  ASSUME SourcesTyped, LegacyTyped, MoveFits, DoneMatchesActive, UploadMove
  PROVE  DoneMatchesActive' /\ DoneStep
<1>1. UNCHANGED <<docs, del>> /\ (UNCHANGED src \/ (src' # src /\ Committed))
  BY UploadSources, UploadPathsTyped
<1>2. CASE UNCHANGED src
  BY <1>1, <1>2, NoneDone DEF DoneStep
<1>3. CASE src' # src /\ Committed
  <2>1. \A f \in Files : src'[f].st = "PENDING"
    BY <1>3, FreshRows DEF Committed
  <2>2. CommitUpload \/ CommitError \/ LimboEnds
    BY <1>3 DEF UploadMove, UploadStep, UploadError, UploadStops, CleanPaths,
       PlanMove, RenewBeforeMove, SaveRows, PreserveUncertain, ClearIntents, Begin, Rollback,
       DeleteIntents, MoveFile, PersistCleanup, fileVars, rowVars
  <2>3. txn # "committed"
    BY <2>2 DEF CommitUpload, CommitError, LimboEnds, MoveFits, TxnFits, Moving
  <2>4. NoRows
    BY <2>3 DEF MoveFits, AtRest
  <2> QED BY <2>1, <2>4, NoneDone DEF DoneStep, NoRows
<1> QED BY <1>1, <1>2, <1>3

\* Deletion takes the row with its documents.
LEMMA LegacyDone ==
  ASSUME SourcesTyped, LegacyTyped, MoveFits, DoneMatchesActive, LegacyStep
  PROVE  DoneMatchesActive' /\ DoneStep
<1>1. CASE UploadMove
  BY <1>1, UploadDone
<1>2. ASSUME NEW r \in Recoverers, RecoverStep(r) \/ RecoveryError(r) \/ RecovererStops(r)
      PROVE  DoneMatchesActive' /\ DoneStep
  <2>1. PICK e \in RecoveryType, f \in Files, i \in IntentType : RecoveryMove(r, e, f, i)
    BY <1>2, RecoveryMoves
  <2>2. UNCHANGED <<src, docs, del>>
    BY <2>1 DEF RecoveryMove, rowVars
  <2> QED BY <2>2, NoneDone DEF DoneStep
<1>3. ASSUME NEW f \in Files, FileMove(f)
      PROVE  DoneMatchesActive' /\ DoneStep
  <2>1. CASE IntentExpires(f) \/ (\E p \in {"temp", "dest"} : CleanRecord(p, f)) \/ DeletePhysical(f)
    <3>1. UNCHANGED <<src, docs, del>>
      BY <2>1 DEF IntentExpires, CleanRecord, DeletePhysical, fileVars, rowVars
    <3> QED BY <3>1, NoneDone DEF DoneStep
  <2>2. CASE DeleteDocuments(f)
    <3>1. /\ src' = src /\ del' = del \cup {f}
          /\ docs' = [docs EXCEPT ![f] = [v \in Versions |-> "none"]]
      BY <2>2 DEF DeleteDocuments
    <3>2. \A h \in Files : h # f => docs'[h] = docs[h]
      BY <3>1 DEF SourcesTyped, RowsTyped
    <3> QED BY <3>1, <3>2, NoneDone DEF DoneStep
  <2>3. CASE DeleteRow(f)
    <3>1. /\ src' = [src EXCEPT ![f] = NoSource] /\ del' = del
          /\ docs' = [docs EXCEPT ![f] = [v \in Versions |-> "none"]]
      BY <2>3 DEF DeleteRow, legacyVars
    <3>2. /\ src'[f].st = "none"
          /\ \A h \in Files : h # f => src'[h] = src[h] /\ docs'[h] = docs[h]
      BY <3>1, FreshRows DEF SourcesTyped, RowsTyped
    <3>3. \A h \in Files : src'[h].st = "DONE" => h # f
      BY <3>2
    <3> QED BY <3>1, <3>2, <3>3, NoneDone DEF DoneStep
  <2> QED BY <1>3, <2>1, <2>2, <2>3 DEF FileMove
<1> QED BY <1>1, <1>2, <1>3, LegacyMoves

\* With brokers the row stays and is buried.
LEMMA BrokerDone ==
  ASSUME SourcesTyped, BrokerTyped, BlobFits, DoneMatchesActive, BrokerModeStep, UNCHANGED del
  PROVE  DoneMatchesActive' /\ DoneStep
<1>1. CASE UNCHANGED <<src, docs>>
  BY <1>1, NoneDone DEF DoneStep
<1>2. CASE CommitMetadata
  <2>1. NoRows
    BY <1>2, IdleFacts DEF CommitMetadata
  <2>2. src' = [f \in Files |-> IF f \in Parsed THEN NewSource ELSE src[f]]
    BY <1>2 DEF CommitMetadata
  <2>3. \A f \in Files : src'[f].st # "DONE"
    BY <2>1, <2>2, FreshRows DEF NoRows
  <2> QED BY <2>1, <2>3, NoneDone DEF DoneStep, NoRows
<1>3. ASSUME NEW f \in Files, DeleteWithBroker(f) PROVE DoneMatchesActive' /\ DoneStep
  <2>1. PICK s : s = [[[[src[f] EXCEPT !.tomb = TRUE] EXCEPT !.key = None] EXCEPT !.tok = None]
                        EXCEPT !.live = FALSE]
    OBVIOUS
  <2>2. s.tomb /\ s.st = src[f].st
    <3>1. src[f] \in SourceType
      BY DEF SourcesTyped, RowsTyped
    <3> QED BY <2>1, <3>1 DEF SourceType
  <2>3. PICK d : d = [v \in Versions |-> IF docs[f][v] = "none" THEN "none" ELSE "inactive"]
    OBVIOUS
  <2>4. src' = [src EXCEPT ![f] = s] /\ docs' = [docs EXCEPT ![f] = d]
    BY <1>3, <2>1, <2>3 DEF DeleteWithBroker, SourcesTyped, RowsTyped
  <2>5. /\ src'[f] = s
        /\ \A h \in Files : h # f => src'[h] = src[h] /\ docs'[h] = docs[h]
    BY <2>4 DEF SourcesTyped, RowsTyped
  <2>6. \A h \in Files : ~src'[h].tomb => h # f
    BY <2>2, <2>5
  <2>7. \A h \in Files : src'[h].st = src[h].st
    BY <2>2, <2>5
  <2>8. DoneStep
    BY <2>7 DEF DoneStep
  <2> QED BY <2>5, <2>6, <2>8, NoneDone
<1>4. CASE StageUpload \/ StageFails
  <2>1. UNCHANGED <<src, docs>>
    BY <1>4 DEF StageUpload, StageFails, fileVars, rowVars
  <2> QED BY <1>1, <2>1
<1>5. ASSUME NEW b \in Brokers, BrokerStep(b) \/ IOError(b) \/ BrokerStops(b)
      PROVE  UNCHANGED <<src, docs>>
  BY <1>5 DEF BrokerStep, ClaimOp, VerifyFinal, OpenSource, RemoveStaging, CreateStaging, CopyBytes,
     RenameFinal, VerifyExisting, DiscardStaging, UndoStaging, CheckFinal,
       UnlinkQuarantine, DeleteBlob, CompleteOp, IOError, BrokerStops,
     fileVars, rowVars
<1>6. ASSUME NEW k \in Kinds, NEW f \in Files, OpTime(k, f) PROVE UNCHANGED <<src, docs>>
  BY <1>6 DEF OpTime, rowVars
<1> QED BY <1>1, <1>2, <1>3, <1>4, <1>5, <1>6 DEF BrokerModeStep

-----------------------------------------------------------------------------
(* The theorems.                                                           *)

\* Nothing is there at the start.
LEMMA FilesInitInv ==
  ASSUME Init PROVE FilesInv
<1> USE DEF Init
<1>1. SourcesTyped
  <2>1. RowsTyped
    BY FreshRows DEF FilesInit, RowsTyped
  <2>2. QueueTyped
    BY FreshRows DEF FilesInit, QueueTyped
  <2> QED BY <2>1, <2>2, FileBounds DEF FilesInit, SourcesTyped
<1>2. LegacyTyped
  <2>1. up \in [pc : UploadPhases, i : 1..Len(Order)]
    BY OrderFacts DEF LegacyInit, UploadPhases
  <2>2. rec \in [Recoverers -> RecoveryType] /\ \A r \in Recoverers : RecoveryFits(rec[r])
    BY FreshIntents DEF LegacyInit, RecoveryFits
  <2>3. intents \in [Files -> IntentType]
    BY FreshIntents DEF LegacyInit
  <2> QED BY <2>1, <2>2, <2>3 DEF LegacyInit, LegacyTyped, TxnStates
<1>3. BrokerTyped
  <2>1. op \in [Kinds -> [Files -> OpType]]
    BY FreshOps DEF BrokerInit
  <2>2. br \in [Brokers -> WorkType] /\ \A b \in Brokers : WorkFits(br[b])
    BY FreshOps DEF BrokerInit
  <2> QED BY <2>1, <2>2, FreshOps DEF BrokerInit, BrokerTyped
<1>4. ModesApart
  BY DEF LegacyInit, BrokerInit, ModesApart, BrokerIdle, LegacyIdle
<1>5. NoRows /\ del = {} /\ txn = "none" /\ up.pc = "idle" /\ up.i = 1 /\ moved = {}
  BY FreshRows DEF FilesInit, LegacyInit, NoRows
<1>6. MoveFits
  <2>1. \A f \in Files : intents[f].st = "none"
    BY FreshIntents DEF LegacyInit
  <2>2. \A r \in Recoverers : rec[r].pc = "idle"
    BY FreshIntents DEF LegacyInit
  <2>3. TxnFits /\ IdleFits
    BY <1>5, <2>1, <2>2 DEF TxnFits, IdleFits, Moving
  <2>4. MovesFit /\ LockedFits /\ CommittedFits
    BY <1>5 DEF MovesFit, LockedFits, CommittedFits, Locked, Moving
  <2>5. AtRest
    BY <1>5 DEF AtRest, LegacyInit
  <2> QED BY <2>3, <2>4, <2>5 DEF MoveFits
<1>7. BlobFits
  <2>1. StagedFits
    BY <1>5 DEF BrokerInit, StagedFits, BrokerIdle
  <2>2. \A f \in Files : ObjectFits(f)
    BY FreshOps DEF BrokerInit, ObjectFits, Kinds
  <2>3. /\ \A b \in Brokers : br[b].pc = "idle"
        /\ \A f \in Files, n \in Fences : inode[f][n] = "none"
        /\ \A f \in Files : object[f] = "none"
    BY FreshOps DEF BrokerInit
  <2>4. FencesFit
    BY <2>3 DEF FencesFit
  <2>5. BytesFit
    BY <2>3 DEF BytesFit, Succeeded
  <2> QED BY <2>1, <2>2, <2>4, <2>5 DEF BlobFits
<1>8. DoneMatchesActive
  BY <1>5 DEF DoneMatchesActive, NoRows
<1> QED BY <1>1, <1>2, <1>3, <1>4, <1>6, <1>7, <1>8 DEF FilesInv, MoveInv, BlobInv

\* The part of one mode moves only in that mode.
LEMMA ModesStayApart ==
  ASSUME ModesApart, mode' = mode,
         UNCHANGED brokerVars \/ mode # "legacy",
         UNCHANGED legacyVars \/ mode # "broker"
  PROVE  ModesApart'
<1>1. ASSUME mode = "legacy" PROVE bup' = "idle" /\ BrokerIdle'
  BY <1>1 DEF ModesApart, BrokerIdle, brokerVars
<1>2. ASSUME mode = "broker" PROVE LegacyIdle'
  BY <1>2 DEF ModesApart, LegacyIdle, legacyVars, uploadVars
<1> QED BY <1>1, <1>2 DEF ModesApart

\* A row, its job or its event moves: nothing else does.
LEMMA RowStepKeeps ==
  ASSUME FilesInv, RowStep, UNCHANGED <<legacyVars, brokerVars>>
  PROVE  FilesInv' /\ DoneStep
<1>1. RowsKept /\ SourcesTyped'
  BY RowKeeps, RowTyped DEF FilesInv
<1>2. LegacyTyped' /\ BrokerTyped'
  <2>1. LegacyTyped'
    BY DEF FilesInv, LegacyTyped, legacyVars, uploadVars, diskVars
  <2>2. BrokerTyped'
    BY DEF FilesInv, BrokerTyped, brokerVars
  <2> QED BY <2>1, <2>2
<1>3. mode' = mode /\ \A f \in Files : /\ src'[f].st = "none" <=> src[f].st = "none"
                                       /\ outbox[f].st # "none" => outbox'[f].st # "none"
  BY <1>1 DEF RowsKept, RowKept
<1>4. ModesApart'
  BY <1>3, ModesStayApart DEF FilesInv
<1>5. MoveInv'
  <2>1. SUFFICES ASSUME mode = "legacy" PROVE MoveFits'
    BY <1>3 DEF MoveInv
  <2>2. MoveFits
    BY <2>1 DEF FilesInv, MoveInv
  <2>3. TxnFits' /\ IdleFits' /\ MovesFit' /\ LockedFits'
    BY <2>2 DEF MoveFits, TxnFits, IdleFits, MovesFit, LockedFits, Locked, Planned, Done,
       legacyVars, uploadVars, diskVars
  <2>4. CommittedFits'
    <3>1. UNCHANGED <<txn, rec, dest>>
      BY DEF legacyVars, uploadVars, diskVars
    <3>2. ASSUME txn = "committed", NEW r \in Recoverers, rec[r].pc \in Removing
          PROVE  src'[rec[r].f].st = "none"
      <4>1. rec[r].f \in Files /\ src[rec[r].f].st = "none"
        BY <2>2, <3>2 DEF MoveFits, CommittedFits, FilesInv, LegacyTyped, RecoveryFits, Removing
      <4> QED BY <1>3, <4>1
    <3>3. txn = "committed" => \A f \in Files : src'[f].st # "none" => f \in dest
      BY <1>3, <2>2 DEF MoveFits, CommittedFits
    <3> QED BY <3>1, <3>2, <3>3 DEF CommittedFits
  <2>5. AtRest'
    BY <1>3, <2>2 DEF MoveFits, AtRest, NoRows, legacyVars, uploadVars
  <2> QED BY <2>3, <2>4, <2>5 DEF MoveFits
<1>6. BlobInv'
  <2>1. SUFFICES ASSUME mode = "broker" PROVE BlobFits'
    BY <1>3 DEF BlobInv
  <2>2. BrokerTyped /\ BlobFits
    BY <2>1 DEF FilesInv, BlobInv
  <2>3. UNCHANGED <<bup, object, op, quar, staging, final, inode, br>>
    BY DEF brokerVars
  <2>4. bup = "over" \/ NoRows'
    BY <1>3, <2>2 DEF BlobFits, StagedFits, NoRows
  <2> QED BY <1>3, <2>2, <2>3, <2>4, OtherKeeps
<1>7. DoneMatchesActive' /\ DoneStep
  BY <1>1, RowDone DEF FilesInv, legacyVars
<1> QED BY <1>1, <1>2, <1>4, <1>5, <1>6, <1>7 DEF FilesInv

\* A step of the legacy mode
LEMMA LegacyStepKeeps ==
  ASSUME FilesInv, LegacyStep, UNCHANGED brokerVars
  PROVE  FilesInv' /\ DoneStep
<1>1. mode = "legacy"
  BY LegacyOnly DEF FilesInv
<1>2. SourcesTyped /\ LegacyTyped /\ MoveFits /\ DoneMatchesActive
  BY <1>1 DEF FilesInv, MoveInv
<1>3. SourcesTyped' /\ LegacyTyped' /\ MoveFits'
  BY <1>2, LegacyKeeps
<1>4. BrokerTyped'
  BY DEF FilesInv, BrokerTyped, brokerVars
<1>5. mode' = mode
  <2>1. CASE UploadMove
    BY <1>2, <2>1, UploadSources
  <2>2. CASE \E r \in Recoverers : RecoverStep(r) \/ RecoveryError(r) \/ RecovererStops(r)
    BY <1>2, <2>2, RecoveryMoves DEF RecoveryMove
  <2>3. CASE \E f \in Files : FileMove(f)
    BY <2>3 DEF FileMove, IntentExpires, CleanRecord, DeleteDocuments, DeleteRow,
       DeletePhysical, fileVars
  <2> QED BY <2>1, <2>2, <2>3, LegacyMoves
<1>6. ModesApart'
  BY <1>1, <1>5, ModesStayApart DEF FilesInv
<1>7. DoneMatchesActive' /\ DoneStep
  BY <1>2, LegacyDone
<1> QED BY <1>1, <1>3, <1>4, <1>5, <1>6, <1>7 DEF FilesInv, MoveInv, BlobInv

\* A step of the broker mode
LEMMA BrokerStepKeeps ==
  ASSUME FilesInv, BrokerModeStep, UNCHANGED legacyVars
  PROVE  FilesInv' /\ DoneStep
<1>1. mode = "broker"
  BY BrokerOnly DEF FilesInv
<1>2. SourcesTyped /\ BrokerTyped /\ BlobFits /\ DoneMatchesActive
  BY <1>1 DEF FilesInv, BlobInv
<1>3. SourcesTyped' /\ BrokerTyped' /\ BlobFits'
  BY <1>2, BrokerKeeps
<1>4. LegacyTyped'
  BY DEF FilesInv, LegacyTyped, legacyVars, uploadVars, diskVars
<1>5. mode' = mode
  <2>1. StageUpload \/ CommitMetadata \/ StageFails => mode' = mode
    BY DEF StageUpload, CommitMetadata, StageFails, fileVars
  <2>2. ASSUME NEW f \in Files, DeleteWithBroker(f) PROVE mode' = mode
    BY <2>2 DEF DeleteWithBroker
  <2>3. ASSUME NEW b \in Brokers, BrokerStep(b) \/ IOError(b) \/ BrokerStops(b)
        PROVE  mode' = mode
    BY <2>3 DEF BrokerStep, ClaimOp, VerifyFinal, OpenSource, RemoveStaging, CreateStaging, CopyBytes,
       RenameFinal, VerifyExisting, DiscardStaging, UndoStaging, CheckFinal,
       UnlinkQuarantine, DeleteBlob, CompleteOp, IOError, BrokerStops,
       fileVars
  <2>4. ASSUME NEW k \in Kinds, NEW f \in Files, OpTime(k, f) PROVE mode' = mode
    BY <2>4 DEF OpTime
  <2> QED BY <2>1, <2>2, <2>3, <2>4 DEF BrokerModeStep
<1>6. ModesApart'
  BY <1>1, <1>5, ModesStayApart DEF FilesInv
<1>7. DoneMatchesActive' /\ DoneStep
  BY <1>2, BrokerDone DEF legacyVars
<1> QED BY <1>1, <1>3, <1>4, <1>5, <1>6, <1>7 DEF FilesInv, MoveInv, BlobInv

\* Every step keeps the invariant, and what is DONE.
LEMMA FilesStep ==
  ASSUME FilesInv, [Next]_vars
  PROVE  FilesInv' /\ DoneStep
<1>1. CASE Next
  BY <1>1, RowStepKeeps, LegacyStepKeeps, BrokerStepKeeps DEF Next
<1>2. CASE UNCHANGED vars
  <2>1. SourcesTyped' /\ LegacyTyped' /\ BrokerTyped' /\ ModesApart'
    <3>1. SourcesTyped'
      BY <1>2 DEF FilesInv, SourcesTyped, vars, fileVars, rowVars, RowsTyped, queueVars, QueueTyped
    <3>2. LegacyTyped'
      BY <1>2 DEF FilesInv, LegacyTyped, vars, legacyVars, uploadVars, diskVars
    <3>3. BrokerTyped'
      BY <1>2 DEF FilesInv, BrokerTyped, vars, brokerVars
    <3>4. ModesApart'
      BY <1>2, ModesStayApart DEF FilesInv, vars, fileVars
    <3> QED BY <3>1, <3>2, <3>3, <3>4
  <2>2. MoveInv'
    BY <1>2 DEF FilesInv, MoveInv, MoveFits, TxnFits, IdleFits, MovesFit, LockedFits, CommittedFits,
       AtRest, NoRows, Locked, Planned, Done, vars, fileVars, rowVars, legacyVars, uploadVars, diskVars
  <2>3. BlobInv'
    <3>1. SUFFICES ASSUME mode = "broker" PROVE BlobFits'
      BY <1>2 DEF BlobInv, vars, fileVars
    <3>2. BrokerTyped /\ BlobFits
      BY <3>1 DEF FilesInv, BlobInv
    <3>3. UNCHANGED <<bup, object, op, quar, staging, final, inode, br, outbox, src>>
      BY <1>2 DEF vars, fileVars, rowVars, brokerVars
    <3>4. bup = "over" \/ NoRows'
      BY <3>2, <3>3 DEF BlobFits, StagedFits, NoRows
    <3> QED BY <3>2, <3>3, <3>4, OtherKeeps
  <2>4. DoneMatchesActive' /\ DoneStep
    BY <1>2, NoneDone DEF FilesInv, DoneStep, vars, fileVars, rowVars, legacyVars
  <2> QED BY <2>1, <2>2, <2>3, <2>4 DEF FilesInv
<1> QED BY <1>1, <1>2

\* The inductive invariant of the files of an upload, in either storage mode.
\* (uploadFiles, ParseWorker, file-move-intent.dispatcher.ts, runBroker)
THEOREM FilesInvariance == Spec => []FilesInv
<1>1. Init => FilesInv
  BY FilesInitInv
<1>2. FilesInv /\ [Next]_vars => FilesInv'
  BY FilesStep
<1> QED BY <1>1, <1>2, PTL DEF Spec

\* Every row, job, intent, operation and process record keeps its type, and
\* every counter its bound.  (SourceFiles, LegacyUpload, StorageBroker)
THEOREM FilesTypeCorrect == Spec => []TypeOK
<1>1. FilesInv => TypeOK
  <2>1. ASSUME SourcesTyped PROVE FilesTypeOK
    BY <2>1 DEF SourcesTyped, RowsTyped, QueueTyped, FilesTypeOK, SourceType, OutboxType,
       EntryType, AttemptType, ReadType
  <2>2. ASSUME LegacyTyped PROVE LegacyTypeOK
    BY <2>2 DEF LegacyTyped, LegacyTypeOK, IntentType, RecoveryType
  <2>3. ASSUME BrokerTyped PROVE BrokerTypeOK
    BY <2>3 DEF BrokerTyped, BrokerTypeOK, OpType, WorkType
  <2> QED BY <2>1, <2>2, <2>3 DEF FilesInv, TypeOK
<1> QED BY <1>1, FilesInvariance, PTL

\* A committed source row has its file, whichever recovery of the upload's
\* intents is slow and whatever COMMIT answered: no recoverer removes a path
\* without having seen, after the transaction ended, that the row is missing.
\* (FileMoveIntentDispatcher, uploadFiles)
THEOREM CommittedFiles == Spec => []CommittedFilesExist
<1>1. FilesInv => CommittedFilesExist
  BY DEF FilesInv, MoveInv, MoveFits, CommittedFits, AtRest, NoRows, CommittedFilesExist
<1> QED BY <1>1, FilesInvariance, PTL

\* The bytes of an upload are in quarantine or, complete, under the storage
\* key, for any number of brokers at work on one object after their leases
\* ran out.  (runBroker, sp_storage_claim_v1, sp_storage_complete_v1)
THEOREM BytesSurvive == Spec => []UploadedBytesSurvive
<1>1. FilesInv => UploadedBytesSurvive
  <2>1. ASSUME FilesInv, mode = "broker" PROVE UploadedBytesSurvive
    BY <2>1 DEF FilesInv, BlobInv, BlobFits, BytesFit, UploadedBytesSurvive
  <2>2. ASSUME FilesInv, mode = "legacy" PROVE UploadedBytesSurvive
    <3>1. \A f \in Files : object[f] = "none"
      BY <2>2 DEF FilesInv, ModesApart, BrokerIdle
    <3> QED BY <3>1 DEF UploadedBytesSurvive
  <2> QED BY <2>1, <2>2 DEF FilesInv, SourcesTyped
<1> QED BY <1>1, FilesInvariance, PTL

\* A DONE row has its own version active and no other.
\* (StructuredIngestionService.activate, completeAttempt)
THEOREM OneActiveVersion == Spec => []DoneMatchesActive
<1>1. FilesInv => DoneMatchesActive
  BY DEF FilesInv
<1> QED BY <1>1, FilesInvariance, PTL

\* No attempt takes back a DONE row of its generation: only reparse, with a
\* later generation, and deletion do.  (ParseWorker, FileService.reparse)
THEOREM DoneStays == Spec => DoneIsKept
<1>1. FilesInv /\ [Next]_vars => [DoneStep]_vars
  BY FilesStep
<1>2. [DoneStep]_vars =>
        [\A f \in Files : src[f].st = "DONE" /\ src'[f].st # "DONE" =>
           src'[f].st = "none" \/ src'[f].gen > src[f].gen]_vars
  BY DEF DoneStep
<1> QED BY <1>1, <1>2, FilesInvariance, PTL DEF Spec, DoneIsKept
=============================================================================
