---------------------------- MODULE LegacyUpload ----------------------------
(***************************************************************************)
(* Uploads and deletions of STORAGE_AUTHORITY_MODE=legacy.                 *)
(*                                                                         *)
(* FileService.uploadFiles moves every file of a request from quarantine   *)
(* to its project directory under a leased move intent, written outside    *)
(* the transaction that inserts the rows.  The intents are deleted inside  *)
(* it, if the writer still owns them.  FileMoveIntentDispatcher recovers   *)
(* the intents of writers that are gone, by asking whether their rows      *)
(* exist; FileCleanupDispatcher retries deletions that failed.             *)
(***************************************************************************)
EXTENDS SourceFiles, Sequences, SequencesExt

CONSTANTS Order,      \* the files of the request, as uploadFiles takes them
          Recoverers  \* worker processes with a FileMoveIntentDispatcher

ASSUME OrderAssumption ==
  /\ Order \in Seq(Files) /\ Order # <<>>
  /\ ToSet(Order) = Files
ASSUME RecovererAssumption ==
  /\ None \notin Recoverers
  /\ "writer" \notin Recoverers \cup {None}

VARIABLES up,       \* the upload: where it is and at which file
          temp,     \* files in quarantine
          dest,     \* files in the project directory
          txn,      \* the upload's transaction
          moved,    \* movedPaths: the files the upload knows it has moved
          intents,  \* file_move_intents
          cleanup,  \* file_cleanup_records: paths by file
          rec,      \* the intent in each recoverer
          del       \* files whose deleteFile is under way

uploadVars == <<up, txn, moved>>
diskVars == <<temp, dest>>
legacyVars == <<uploadVars, diskVars, intents, cleanup, rec, del>>

Current == Order[up.i]

-----------------------------------------------------------------------------
NoIntent == [st |-> "none", owner |-> None, live |-> FALSE, due |-> TRUE]

\* `due' also stands for recover_after <= now, which an ACTIVE writer keeps
\* renewing together with its lease.
NewIntent == [st |-> "ACTIVE", owner |-> "writer", live |-> TRUE, due |-> FALSE]

Uncertain == [st |-> "UNCERTAIN", owner |-> None, live |-> FALSE, due |-> FALSE]

\* `st' is the status the dispatcher loaded, `seen' what it inspected
NoRecovery == [pc |-> "idle", f |-> None, st |-> "none", seen |-> {}]

RecoveryPhases == {"idle", "claimed", "lookup", "inspect", "temp", "untemp",
                   "dest", "undest", "drop", "review"}

UploadPhases == {"idle", "plan", "renew", "rename", "save", "finish", "commit",
                 "uncertain", "rollback", "clean", "clear", "record", "over"}

\* "deleting": the rows and the deletion of the intents wait for the COMMIT,
\* whose locks no other session gets past
TxnStates == {"none", "open", "deleting", "limbo", "committed", "aborted"}

LegacyTypeOK ==
  /\ up \in [pc : UploadPhases, i : 1..Len(Order)]
  /\ temp \subseteq Files /\ dest \subseteq Files /\ moved \subseteq Files
  /\ txn \in TxnStates
  /\ intents \in [Files -> [st : {"none", "ACTIVE", "UNCERTAIN", "REJECTED"},
                            owner : Recoverers \cup {"writer", None},
                            live : BOOLEAN, due : BOOLEAN]]
  /\ cleanup \in [{"temp", "dest"} -> SUBSET Files]
  /\ rec \in [Recoverers -> [pc : RecoveryPhases, f : Files \cup {None},
                             st : {"none", "ACTIVE", "UNCERTAIN"},
                             seen : SUBSET {"temp", "dest"}]]
  /\ del \subseteq Files

LegacyInit ==
  /\ up = [pc |-> "idle", i |-> 1]
  /\ temp = {} /\ dest = {} /\ moved = {}
  /\ txn = "none"
  /\ intents = [f \in Files |-> NoIntent]
  /\ cleanup = [p \in {"temp", "dest"} |-> {}]
  /\ rec = [r \in Recoverers |-> NoRecovery]
  /\ del = {}

-----------------------------------------------------------------------------
(* FileService.uploadFiles.                                                *)

\* activeIntentIds: the files whose intent this upload has inserted
Planned ==
  {Order[k] : k \in IF up.pc = "plan" THEN 1..(up.i - 1) ELSE 1..up.i}

Goto(pc) == up' = [up EXCEPT !.pc = pc]

\* Multer has written the files; the checks, the quota lock and its
\* transaction
Begin ==
  /\ mode = "legacy" /\ up.pc = "idle"
  /\ temp' = Files
  /\ Goto("plan") /\ txn' = "open"
  /\ UNCHANGED <<fileVars, dest, moved, intents, cleanup, rec, del>>

\* renewActiveMoveIntents: all of the writer's intents or an error
Renewable == \A f \in Planned : intents[f].st = "ACTIVE" /\ intents[f].owner = "writer"

Renewed(I) == [f \in Files |-> IF f \in I THEN NewIntent ELSE intents[f]]

PlanMove ==
  /\ up.pc = "plan"
  /\ IF Renewable
       THEN intents' = Renewed(Planned \cup {Current}) /\ Goto("renew")
       ELSE Goto("rollback") /\ UNCHANGED intents
  /\ UNCHANGED <<fileVars, txn, moved, diskVars, cleanup, rec, del>>

RenewBeforeMove ==
  /\ up.pc = "renew"
  /\ IF Renewable
       THEN intents' = Renewed(Planned) /\ Goto("rename")
       ELSE Goto("rollback") /\ UNCHANGED intents
  /\ UNCHANGED <<fileVars, txn, moved, diskVars, cleanup, rec, del>>

MoveFile ==
  /\ up.pc = "rename"
  /\ IF Current \in temp
       THEN /\ temp' = temp \ {Current} /\ dest' = dest \cup {Current}
            /\ moved' = moved \cup {Current}
            /\ Goto("save")
       ELSE Goto("rollback") /\ UNCHANGED <<diskVars, moved>>
  /\ UNCHANGED <<fileVars, txn, intents, cleanup, rec, del>>

\* renew, save source and outbox in the transaction, renew
SaveRows ==
  /\ up.pc = "save"
  /\ IF Renewable
       THEN /\ intents' = Renewed(Planned)
            /\ up' = IF up.i < Len(Order) THEN [pc |-> "plan", i |-> up.i + 1]
                                          ELSE [up EXCEPT !.pc = "finish"]
       ELSE Goto("rollback") /\ UNCHANGED intents
  /\ UNCHANGED <<fileVars, txn, moved, diskVars, cleanup, rec, del>>

\* Mutant of StillOwned: the count of deleted intents is not checked.
AssumedOwned == TRUE

\* The delete inside the transaction counts the rows it still owns.
StillOwned == \A f \in Planned : intents[f].owner = "writer"

DeleteIntents ==
  /\ up.pc = "finish"
  /\ IF StillOwned
       THEN txn' = "deleting" /\ Goto("commit")
       ELSE Goto("rollback") /\ UNCHANGED txn
  /\ UNCHANGED <<fileVars, moved, diskVars, intents, cleanup, rec, del>>

\* What COMMIT does in MySQL
Committed ==
  /\ txn' = "committed"
  /\ src' = [f \in Files |-> NewSource]
  /\ outbox' = [f \in Files |-> NewOutbox("pending")]
  /\ intents' = [f \in Files |-> NoIntent]

CommitUpload ==
  /\ up.pc = "commit"
  /\ Committed /\ Goto("over")
  /\ UNCHANGED <<mode, docs, queueVars, faults, moved, diskVars, cleanup, rec, del>>

\* An error of commitTransaction: carried out, not carried out, or undecided
CommitError ==
  /\ up.pc = "commit"
  /\ Fault
  /\ Goto("uncertain")
  /\ \/ Committed
     \/ txn' \in {"aborted", "limbo"} /\ UNCHANGED <<src, outbox, intents>>
  /\ UNCHANGED <<mode, docs, queueVars, moved, diskVars, cleanup, rec, del>>

LimboEnds ==
  /\ txn = "limbo"
  /\ \/ Committed
     \/ txn' = "aborted" /\ UNCHANGED <<src, outbox, intents>>
  /\ UNCHANGED <<mode, docs, queueVars, faults, up, moved, diskVars, cleanup, rec, del>>

\* preserveUncertainMoveIntents: an upsert that gives up after two seconds of
\* waiting for the transaction's locks; all files are retained.
PreserveUncertain ==
  /\ up.pc = "uncertain"
  /\ intents' = IF txn = "limbo" THEN intents
                ELSE [f \in Files |-> IF f \in Planned THEN Uncertain ELSE intents[f]]
  /\ Goto("over")
  /\ UNCHANGED <<fileVars, txn, moved, diskVars, cleanup, rec, del>>

\* Any statement or file operation before the commit may fail.
UploadError ==
  /\ up.pc \in {"plan", "renew", "rename", "save", "finish"}
  /\ Fault
  /\ Goto("rollback")
  /\ UNCHANGED <<mode, rowVars, queueVars, txn, moved, diskVars, intents, cleanup, rec, del>>

Rollback ==
  /\ up.pc = "rollback"
  /\ txn' = "aborted" /\ Goto("clean")
  /\ UNCHANGED <<fileVars, moved, diskVars, intents, cleanup, rec, del>>

\* cleanupPaths: every known path is unlinked, or fails and needs a record
CleanPaths ==
  /\ up.pc = "clean"
  /\ \/ /\ temp' = {} /\ dest' = dest \ moved
        /\ Goto("clear") /\ UNCHANGED faults
     \/ /\ Fault /\ Goto("record")
        /\ temp' \in SUBSET temp
        /\ \E D \in SUBSET (dest \cap moved) : dest' = dest \ D
        /\ temp' # {} \/ dest' \cap moved # {}
  /\ UNCHANGED <<mode, rowVars, queueVars, txn, moved, intents, cleanup, rec, del>>

PersistCleanup ==
  /\ up.pc = "record"
  /\ cleanup' = [temp |-> temp \ moved, dest |-> dest \cap moved]
  /\ Goto("over")
  /\ UNCHANGED <<fileVars, txn, moved, diskVars, intents, rec, del>>

ClearIntents ==
  /\ up.pc = "clear"
  /\ intents' = [f \in Files |-> IF intents[f].owner = "writer" THEN NoIntent ELSE intents[f]]
  /\ Goto("over")
  /\ UNCHANGED <<fileVars, txn, moved, diskVars, cleanup, rec, del>>

\* The API process dies.  MySQL rolls an open transaction back, and finishes
\* a COMMIT it has received.
UploadStops ==
  /\ up.pc \notin {"idle", "over"}
  /\ Fault
  /\ Goto("over")
  /\ txn' = IF up.pc = "commit" THEN "limbo"
            ELSE IF txn = "open" THEN "aborted" ELSE txn
  /\ UNCHANGED <<mode, rowVars, queueVars, moved, diskVars, intents, cleanup, rec, del>>

-----------------------------------------------------------------------------
(* FileMoveIntentDispatcher in worker process r.                           *)

\* The locks of a transaction that has deleted the intents
Locked == txn \in {"deleting", "limbo"}

ClaimIntent(r, f) ==
  /\ rec[r].pc = "idle"
  /\ intents[f].st \in {"ACTIVE", "UNCERTAIN"} /\ Claimable(intents[f]) /\ ~Locked
  /\ intents' = [intents EXCEPT ![f].owner = r, ![f].live = TRUE]
  /\ rec' = [rec EXCEPT ![r] = [pc |-> "claimed", f |-> f, st |-> intents[f].st, seen |-> {}]]
  /\ UNCHANGED <<fileVars, uploadVars, diskVars, cleanup, del>>

\* renewClaimLease, then `next', else the intent is left to its new owner
RenewIntent(r, next) ==
  LET f == rec[r].f IN
  /\ ~Locked
  /\ IF Fenced(intents[f], r)
       THEN /\ intents' = [intents EXCEPT ![f].live = TRUE]
            /\ rec' = [rec EXCEPT ![r].pc = next]
       ELSE rec' = [rec EXCEPT ![r] = NoRecovery] /\ UNCHANGED intents

RenewClaim(r) ==
  /\ rec[r].pc = "claimed"
  /\ RenewIntent(r, "lookup")
  /\ UNCHANGED <<fileVars, uploadVars, diskVars, cleanup, del>>

\* ACTIVE asks for the source row only; UNCERTAIN (readCommitFacts) for its
\* outbox event as well, and keeps an intent whose two answers differ.
LookUp(r) ==
  LET f == rec[r].f
      source == src[f].st # "none"
      event == IF rec[r].st = "UNCERTAIN" THEN outbox[f].st # "none" ELSE source IN
  /\ rec[r].pc = "lookup"
  /\ rec' = [rec EXCEPT ![r].pc = CASE source /\ event -> "drop"
                                   [] ~source /\ ~event -> "inspect"
                                   [] OTHER -> "review"]
  /\ UNCHANGED <<fileVars, uploadVars, diskVars, intents, cleanup, del>>

\* cleanupUncommittedMove inspects both paths before it unlinks any, and
\* skips, without looking again, the one that was missing.
Inspect(r) ==
  LET f == rec[r].f IN
  /\ rec[r].pc = "inspect"
  /\ rec' = [rec EXCEPT ![r].pc = "temp",
                        ![r].seen = {p \in {"temp", "dest"} :
                                       f \in IF p = "temp" THEN temp ELSE dest}]
  /\ UNCHANGED <<fileVars, uploadVars, diskVars, intents, cleanup, del>>

RenewPath(r, p, unlink, next) ==
  /\ rec[r].pc = p
  /\ IF p \in rec[r].seen THEN RenewIntent(r, unlink)
     ELSE rec' = [rec EXCEPT ![r].pc = next] /\ UNCHANGED intents
  /\ UNCHANGED <<fileVars, uploadVars, diskVars, cleanup, del>>

UnlinkPath(r) ==
  /\ \/ /\ rec[r].pc = "untemp"
        /\ temp' = temp \ {rec[r].f} /\ UNCHANGED dest
        /\ rec' = [rec EXCEPT ![r].pc = "dest"]
     \/ /\ rec[r].pc = "undest"
        /\ dest' = dest \ {rec[r].f} /\ UNCHANGED temp
        /\ rec' = [rec EXCEPT ![r].pc = "drop"]
  /\ UNCHANGED <<fileVars, uploadVars, intents, cleanup, del>>

\* fencedDelete of a settled intent, fencedUpdate of one for manual review
EndRecovery(r) ==
  LET f == rec[r].f IN
  /\ rec[r].pc \in {"drop", "review"} /\ ~Locked
  /\ intents' = IF ~Fenced(intents[f], r) THEN intents
                ELSE [intents EXCEPT ![f] = IF rec[r].pc = "drop" THEN NoIntent
                                            ELSE BackedOff(@)]
  /\ rec' = [rec EXCEPT ![r] = NoRecovery]
  /\ UNCHANGED <<fileVars, uploadVars, diskVars, cleanup, del>>

\* An error backs the intent off, an unsafe path rejects it for good.
RecoveryError(r) ==
  LET f == rec[r].f IN
  /\ rec[r].pc \notin {"idle", "claimed", "drop", "review"} /\ ~Locked
  /\ Fault
  /\ rec' = [rec EXCEPT ![r] = NoRecovery]
  /\ intents' \in IF ~Fenced(intents[f], r) THEN {intents}
                  ELSE {[intents EXCEPT ![f] = BackedOff(@)],
                        [intents EXCEPT ![f] = [Released(@) EXCEPT !.st = "REJECTED"]]}
  /\ UNCHANGED <<mode, rowVars, queueVars, uploadVars, diskVars, cleanup, del>>

RecovererStops(r) ==
  /\ rec[r].pc # "idle"
  /\ Fault
  /\ rec' = [rec EXCEPT ![r] = NoRecovery]
  /\ UNCHANGED <<mode, rowVars, queueVars, uploadVars, diskVars, intents, cleanup, del>>

\* Time passes.  A writer that is alive loses its lease only by a fault.
IntentExpires(f) ==
  /\ intents[f].live \/ ~intents[f].due
  /\ IF \/ up.pc # "over" /\ intents[f].owner = "writer"
        \/ \E r \in Recoverers : rec[r].f = f /\ intents[f].owner = r
       THEN Fault ELSE UNCHANGED faults
  /\ intents' = [intents EXCEPT ![f].live = FALSE, ![f].due = TRUE]
  /\ UNCHANGED <<mode, rowVars, queueVars, uploadVars, diskVars, cleanup, rec, del>>

\* FileCleanupDispatcher: the paths of its records are unlinked or rejected.
\* Nobody else uses them any more, so claim, renewals and unlink are one step.
CleanRecord(p, f) ==
  /\ f \in cleanup[p]
  /\ cleanup' = [cleanup EXCEPT ![p] = @ \ {f}]
  /\ IF p = "temp" THEN temp' = temp \ {f} /\ UNCHANGED dest
                   ELSE dest' = dest \ {f} /\ UNCHANGED temp
  /\ UNCHANGED <<fileVars, uploadVars, intents, rec, del>>

-----------------------------------------------------------------------------
(* FileService.deleteFile: citations, chunks and documents, then the row,  *)
(* with its outbox event by ON DELETE CASCADE, then the file.              *)

DeleteDocuments(f) ==
  /\ mode = "legacy" /\ src[f].st # "none" /\ f \notin del
  /\ docs' = [docs EXCEPT ![f] = [v \in Versions |-> "none"]]
  /\ del' = del \cup {f}
  /\ UNCHANGED <<mode, src, outbox, queueVars, faults, uploadVars, diskVars, intents, cleanup, rec>>

DeleteRow(f) ==
  /\ f \in del /\ src[f].st # "none"
  /\ src' = [src EXCEPT ![f] = NoSource]
  /\ docs' = [docs EXCEPT ![f] = [v \in Versions |-> "none"]]
  /\ outbox' = [outbox EXCEPT ![f] = NoOutbox]
  /\ UNCHANGED <<mode, queueVars, faults, legacyVars>>

\* unlink, whose failure is only logged
DeletePhysical(f) ==
  /\ f \in del /\ src[f].st = "none" /\ f \in dest
  /\ dest' = dest \ {f}
  /\ UNCHANGED <<fileVars, uploadVars, temp, intents, cleanup, rec, del>>

-----------------------------------------------------------------------------
UploadStep ==
  \/ Begin \/ PlanMove \/ RenewBeforeMove \/ MoveFile \/ SaveRows \/ DeleteIntents
  \/ CommitUpload \/ PreserveUncertain
  \/ Rollback \/ CleanPaths \/ PersistCleanup \/ ClearIntents

RecoverStep(r) ==
  \/ \E f \in Files : ClaimIntent(r, f)
  \/ RenewClaim(r) \/ LookUp(r) \/ Inspect(r)
  \/ RenewPath(r, "temp", "untemp", "dest") \/ RenewPath(r, "dest", "undest", "drop")
  \/ UnlinkPath(r) \/ EndRecovery(r)

LegacyFault ==
  \/ CommitError \/ UploadError \/ UploadStops
  \/ \E r \in Recoverers : RecoveryError(r) \/ RecovererStops(r)

LegacyStep ==
  \/ UploadStep \/ LimboEnds \/ LegacyFault
  \/ \E r \in Recoverers : RecoverStep(r)
  \/ \E f \in Files : \/ IntentExpires(f)
                      \/ \E p \in {"temp", "dest"} : CleanRecord(p, f)
                      \/ DeleteDocuments(f) \/ DeleteRow(f) \/ DeletePhysical(f)
=============================================================================
