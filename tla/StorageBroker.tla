---------------------------- MODULE StorageBroker ----------------------------
(***************************************************************************)
(* Uploads and deletions of STORAGE_AUTHORITY_MODE=broker.                 *)
(*                                                                         *)
(* The API only inserts rows and operation intents, in one transaction.    *)
(* Broker processes claim an intent with a fence and a lease               *)
(* (sp_storage_claim_v1), work on the file system, where no fence holds,   *)
(* and report with the fence (sp_storage_complete_v1).  A broker whose     *)
(* lease ran out goes on in the directories of the one that replaced it.   *)
(*                                                                         *)
(* No code requests DELETE_QUARANTINE or ABORT_PROMOTION; they are left    *)
(* out.                                                                    *)
(***************************************************************************)
EXTENDS SourceFiles

CONSTANTS Brokers,
          MaxFence   \* bound on the claims of an intent

ASSUME BrokerAssumption == None \notin Brokers /\ MaxFence \in Nat

VARIABLES bup,      \* the upload request
          object,   \* storage_objects.state
          op,       \* storage_operation_intents, by kind and file
          quar,     \* files in the quarantine directory
          staging,  \* which inode .staging/<intent> names, 0 for none
          final,    \* which inode the storage key names, 0 for none
          inode,    \* state of the file each claim has created
          br        \* the intent in each broker

brokerVars == <<bup, object, op, quar, staging, final, inode, br>>

Kinds == {"PROMOTE", "DELETE_BLOB"}
Fences == 1..MaxFence

NoOp == [st |-> "none", fence |-> 0, live |-> FALSE, due |-> TRUE]
PendingOp == [NoOp EXCEPT !.st = "PENDING"]
NoWork == [pc |-> "idle", kind |-> None, f |-> None, fence |-> 0, out |-> None]

\* An inode is "partial" while it is written with mode 0600, and "full" with
\* the expected bytes and mode 0440.
BrokerTypeOK ==
  /\ bup \in {"idle", "staged", "over"}
  /\ object \in [Files -> {"none", "STAGING", "AVAILABLE", "DELETE_PENDING", "DELETED"}]
  /\ op \in [Kinds -> [Files -> [st : {"none", "PENDING", "EXECUTING", "RETRY",
                                       "SUCCEEDED", "REJECTED"},
                                 fence : 0..MaxFence, live : BOOLEAN, due : BOOLEAN]]]
  /\ quar \subseteq Files
  /\ staging \in [Files -> 0..MaxFence]
  /\ final \in [Files -> 0..MaxFence]
  /\ inode \in [Files -> [Fences -> {"none", "partial", "full"}]]
  /\ br \in [Brokers -> [pc : {"idle", "verify", "open", "remove", "create", "copy",
                               "rename", "exists", "discard", "check", "unlink",
                               "undo", "delete", "complete"},
                         kind : Kinds \cup {None}, f : Files \cup {None},
                         fence : 0..MaxFence,
                         out : {None, "SUCCEEDED", "RETRY", "REJECTED"}]]

BrokerInit ==
  /\ bup = "idle"
  /\ object = [f \in Files |-> "none"]
  /\ op = [k \in Kinds |-> [f \in Files |-> NoOp]]
  /\ quar = {}
  /\ staging = [f \in Files |-> 0]
  /\ final = [f \in Files |-> 0]
  /\ inode = [f \in Files |-> [n \in Fences |-> "none"]]
  /\ br = [b \in Brokers |-> NoWork]

-----------------------------------------------------------------------------
(* FileService.uploadFilesWithBroker and deleteFileWithBroker.             *)

\* The files are checked and renamed to <intent>.upload.
StageUpload ==
  /\ mode = "broker" /\ bup = "idle"
  /\ bup' = "staged" /\ quar' = Parsed
  /\ UNCHANGED <<fileVars, object, op, staging, final, inode, br>>

\* sp_storage_request_promote_v1 for every file of the transaction
RequestPromote ==
  /\ object' = [f \in Files |-> IF f \in Parsed THEN "STAGING" ELSE object[f]]
  /\ op' = [op EXCEPT !["PROMOTE"] = [f \in Files |-> IF f \in Parsed THEN PendingOp ELSE @[f]]]

\* The transaction commits, whatever the API hears of it.
CommitMetadata ==
  /\ bup = "staged" /\ bup' = "over"
  /\ src' = [f \in Files |-> IF f \in Parsed THEN NewSource ELSE src[f]]
  /\ outbox' = [f \in Files |-> IF f \in Parsed THEN NewOutbox("storage_pending") ELSE outbox[f]]
  /\ RequestPromote
  /\ UNCHANGED <<mode, docs, queueVars, faults, quar, staging, final, inode, br>>

\* An error before the commit removes the quarantine files; after a crash, or
\* a failed commit, they are retained.
StageFails ==
  /\ bup = "staged" /\ bup' = "over"
  /\ Fault
  /\ quar' \in SUBSET quar
  /\ UNCHANGED <<mode, rowVars, queueVars, object, op, staging, final, inode, br>>

\* Tombstone, inactive documents, sp_storage_request_delete_blob_v1.
DeleteWithBroker(f) ==
  /\ mode = "broker"
  /\ src[f].st # "none" /\ ~src[f].tomb /\ object[f] = "AVAILABLE"
  /\ src' = [src EXCEPT ![f].tomb = TRUE, ![f].key = None,
                        ![f].tok = None, ![f].live = FALSE]
  /\ docs' = [docs EXCEPT ![f] = [v \in Versions |-> IF @[v] = "none" THEN "none" ELSE "inactive"]]
  /\ object' = [object EXCEPT ![f] = "DELETE_PENDING"]
  /\ op' = [op EXCEPT !["DELETE_BLOB"][f] = PendingOp]
  /\ UNCHANGED <<mode, outbox, queueVars, faults, bup, quar, staging, final, inode, br>>

-----------------------------------------------------------------------------
(* runBroker: claim, execute, complete.                                    *)

\* sp_storage_claim_v1
ClaimOp(b, k, f) ==
  LET o == op[k][f] IN
  /\ br[b].pc = "idle"
  /\ \/ o.st = "PENDING"
     \/ o.st = "RETRY" /\ o.due
     \/ o.st = "EXECUTING" /\ ~o.live
  /\ o.fence < MaxFence
  /\ op' = [op EXCEPT ![k][f] = [st |-> "EXECUTING", fence |-> o.fence + 1,
                                 live |-> TRUE, due |-> TRUE]]
  /\ br' = [br EXCEPT ![b] = [pc |-> IF k = "PROMOTE" THEN "verify" ELSE "delete",
                              kind |-> k, f |-> f, fence |-> o.fence + 1, out |-> None]]
  /\ UNCHANGED <<fileVars, bup, object, quar, staging, final, inode>>

To(b, pc) == br' = [br EXCEPT ![b].pc = pc]
Report(b, out) == br' = [br EXCEPT ![b].pc = "complete", ![b].out = out]

\* verifyExistingFinal
FinalIs(f) == IF final[f] = 0 THEN "none" ELSE inode[f][final[f]]

fsVars == <<quar, staging, final, inode>>

\* promote: a blob that is there already is kept or is a collision.
VerifyFinal(b) ==
  LET f == br[b].f IN
  /\ br[b].pc = "verify"
  /\ CASE FinalIs(f) = "full" -> To(b, "unlink")
       [] FinalIs(f) = "partial" -> Report(b, "REJECTED")
       [] OTHER -> To(b, "open")
  /\ UNCHANGED <<fileVars, bup, object, op, fsVars>>

\* The source is opened, and stays readable; it may be gone since, with the
\* blob another broker has put in place (SOURCE_MISSING, PATH_UNSAFE).
OpenSource(b) ==
  /\ br[b].pc = "open"
  /\ IF br[b].f \in quar THEN To(b, "remove") ELSE Report(b, "REJECTED")
  /\ UNCHANGED <<fileVars, bup, object, op, fsVars>>

\* removeSafeStaging, whoever created it
RemoveStaging(b) ==
  /\ br[b].pc = "remove"
  /\ staging' = [staging EXCEPT ![br[b].f] = 0]
  /\ To(b, "create")
  /\ UNCHANGED <<fileVars, bup, object, op, quar, final, inode>>

\* O_CREAT|O_EXCL
CreateStaging(b) ==
  LET f == br[b].f IN
  /\ br[b].pc = "create"
  /\ IF staging[f] = 0
       THEN /\ staging' = [staging EXCEPT ![f] = br[b].fence]
            /\ inode' = [inode EXCEPT ![f][br[b].fence] = "partial"]
            /\ To(b, "copy")
       ELSE Report(b, "REJECTED") /\ UNCHANGED <<staging, inode>>
  /\ UNCHANGED <<fileVars, bup, object, op, quar, final>>

\* copyAndHash, fsync, chmod, close
CopyBytes(b) ==
  /\ br[b].pc = "copy"
  /\ inode' = [inode EXCEPT ![br[b].f][br[b].fence] = "full"]
  /\ To(b, "rename")
  /\ UNCHANGED <<fileVars, bup, object, op, quar, staging, final>>

\* The deferred clean-up: promote leaves with this outcome, but first
\* unlinks the staging name.
Undo(b, out) == br' = [br EXCEPT ![b].pc = "undo", ![b].out = out]

\* renameNoReplace goes by name: it moves the staging file of any broker.
RenameFinal(b) ==
  LET f == br[b].f IN
  /\ br[b].pc = "rename"
  /\ \/ /\ staging[f] = 0
        /\ Undo(b, "RETRY")
        /\ UNCHANGED <<staging, final>>
     \/ /\ staging[f] # 0 /\ final[f] = 0
        /\ final' = [final EXCEPT ![f] = staging[f]]
        /\ staging' = [staging EXCEPT ![f] = 0]
        /\ To(b, "check")
     \/ /\ staging[f] # 0 /\ final[f] # 0
        /\ To(b, "exists")
        /\ UNCHANGED <<staging, final>>
  /\ UNCHANGED <<fileVars, bup, object, op, quar, inode>>

\* After EEXIST: the same blob is kept, anything else (nothing, after a
\* deletion, too) is a collision.
VerifyExisting(b) ==
  /\ br[b].pc = "exists"
  /\ IF FinalIs(br[b].f) = "full" THEN To(b, "discard") ELSE Undo(b, "REJECTED")
  /\ UNCHANGED <<fileVars, bup, object, op, fsVars>>

DiscardStaging(b) ==
  /\ br[b].pc = "discard"
  /\ staging' = [staging EXCEPT ![br[b].f] = 0]
  /\ To(b, "unlink")
  /\ UNCHANGED <<fileVars, bup, object, op, quar, final, inode>>

\* whoever created it; an error is ignored
UndoStaging(b) ==
  /\ br[b].pc = "undo"
  /\ \/ staging' = [staging EXCEPT ![br[b].f] = 0] /\ UNCHANGED faults
     \/ Fault /\ UNCHANGED staging
  /\ br' = [br EXCEPT ![b].pc = "complete"]
  /\ UNCHANGED <<mode, rowVars, queueVars, bup, object, op, quar, final, inode>>

\* Mutant of CheckFinal: the blob is not read back after the rename.
CheckFinalTrusts(b) ==
  /\ br[b].pc = "check"
  /\ To(b, "unlink")
  /\ UNCHANGED <<fileVars, bup, object, op, fsVars>>

CheckFinal(b) ==
  LET f == br[b].f IN
  /\ br[b].pc = "check"
  /\ CASE FinalIs(f) = "full" -> To(b, "unlink")
       [] FinalIs(f) = "partial" -> Report(b, "REJECTED")
       [] OTHER -> Report(b, "RETRY")
  /\ UNCHANGED <<fileVars, bup, object, op, fsVars>>

\* unlinkQuarantine: a missing file is success
UnlinkQuarantine(b) ==
  /\ br[b].pc = "unlink"
  /\ quar' = quar \ {br[b].f}
  /\ Report(b, "SUCCEEDED")
  /\ UNCHANGED <<fileVars, bup, object, op, staging, final, inode>>

\* deleteVerified on the blob
DeleteBlob(b) ==
  LET f == br[b].f IN
  /\ br[b].pc = "delete"
  /\ IF FinalIs(f) = "partial"
       THEN Report(b, "REJECTED") /\ UNCHANGED final
       ELSE Report(b, "SUCCEEDED") /\ final' = [final EXCEPT ![f] = 0]
  /\ UNCHANGED <<fileVars, bup, object, op, quar, staging, inode>>

\* An I/O error is a RETRY; while promote has a staging file of its own, by
\* way of the deferred clean-up.
IOError(b) ==
  /\ br[b].pc \notin {"idle", "undo", "complete"}
  /\ Fault
  /\ IF br[b].pc \in {"copy", "rename", "exists", "discard"}
       THEN Undo(b, "RETRY") ELSE Report(b, "RETRY")
  /\ UNCHANGED <<mode, rowVars, queueVars, bup, object, op, fsVars>>

\* sp_storage_complete_v1: nothing without the fence; a promotion makes the
\* object available and releases the parse event.
CompleteOp(b) ==
  LET k == br[b].kind
      f == br[b].f
      o == op[k][f]
      out == br[b].out
      holds == o.st = "EXECUTING" /\ o.fence = br[b].fence IN
  /\ br[b].pc = "complete"
  /\ br' = [br EXCEPT ![b] = NoWork]
  /\ op' = IF holds THEN [op EXCEPT ![k][f] = [o EXCEPT !.st = out, !.live = FALSE,
                                                        !.due = out # "RETRY"]]
                    ELSE op
  /\ object' = IF holds /\ out = "SUCCEEDED"
                 THEN [object EXCEPT ![f] = IF k = "PROMOTE" THEN "AVAILABLE" ELSE "DELETED"]
                 ELSE object
  /\ outbox' = IF holds /\ out = "SUCCEEDED" /\ k = "PROMOTE"
                 THEN [outbox EXCEPT ![f].st = "pending"] ELSE outbox
  /\ UNCHANGED <<mode, src, docs, queueVars, faults, bup, fsVars>>

\* The process ends, or its report is lost.
BrokerStops(b) ==
  /\ br[b].pc # "idle"
  /\ Fault
  /\ br' = [br EXCEPT ![b] = NoWork]
  /\ UNCHANGED <<mode, rowVars, queueVars, bup, object, op, fsVars>>

OpTime(k, f) ==
  LET o == op[k][f] IN
  /\ \/ o.st = "EXECUTING" /\ o.live
     \/ o.st = "RETRY" /\ ~o.due
  /\ op' = [op EXCEPT ![k][f].live = FALSE, ![k][f].due = TRUE]
  /\ IF \E b \in Brokers : br[b].kind = k /\ br[b].f = f /\ br[b].fence = o.fence
       THEN Fault ELSE UNCHANGED faults
  /\ UNCHANGED <<mode, rowVars, queueVars, bup, object, fsVars, br>>

-----------------------------------------------------------------------------
BrokerStep(b) ==
  \/ \E k \in Kinds, f \in Files : ClaimOp(b, k, f)
  \/ VerifyFinal(b) \/ OpenSource(b) \/ RemoveStaging(b) \/ CreateStaging(b)
  \/ CopyBytes(b) \/ RenameFinal(b) \/ VerifyExisting(b) \/ DiscardStaging(b)
  \/ CheckFinal(b) \/ UnlinkQuarantine(b) \/ UndoStaging(b) \/ DeleteBlob(b)
  \/ CompleteOp(b)

BrokerModeStep ==
  \/ StageUpload \/ CommitMetadata \/ StageFails
  \/ \E f \in Files : DeleteWithBroker(f)
  \/ \E b \in Brokers : BrokerStep(b) \/ IOError(b) \/ BrokerStops(b)
  \/ \E k \in Kinds, f \in Files : OpTime(k, f)
=============================================================================
