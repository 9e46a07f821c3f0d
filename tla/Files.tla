-------------------------------- MODULE Files --------------------------------
(***************************************************************************)
(* One upload request and all that follows from it, in the storage mode    *)
(* the deployment was configured with: the rows and parsing (SourceFiles)  *)
(* with the local moves of LegacyUpload or with the brokers of             *)
(* StorageBroker.                                                          *)
(***************************************************************************)
EXTENDS LegacyUpload, StorageBroker

vars == <<fileVars, legacyVars, brokerVars>>

Init == FilesInit /\ LegacyInit /\ BrokerInit

-----------------------------------------------------------------------------
\* ParseWorker.assertBrokerObjectAvailable
Available(f) == mode = "legacy" \/ object[f] = "AVAILABLE"

\* what readVerifiedFileSnapshot finds under storage_path
Present(f) == IF mode = "legacy" THEN f \in dest ELSE FinalIs(f) = "full"

ParserStep(w) ==
  \/ WorkerStep(w)
  \/ parse[w].pc = "read" /\ ReadSource(w, Available(parse[w].f))
  \/ parse[w].pc = "bytes" /\ ParseBytes(w, Present(parse[w].f))

RowStep ==
  \/ \E p \in Publishers : PublisherStep(p)
  \/ \E w \in Workers : ParserStep(w)
  \/ \E f \in Parsed : TimeStep(f) \/ Reparse(f)
  \/ FaultStep

Next ==
  \/ RowStep /\ UNCHANGED <<legacyVars, brokerVars>>
  \/ LegacyStep /\ UNCHANGED brokerVars
  \/ BrokerModeStep /\ UNCHANGED legacyVars

(* The timers of every process run again and again (RetryDispatcher, the   *)
(* broker's loop, Bull's workers and its check for stalled jobs), MySQL    *)
(* ends every transaction and leases run out.  An upload goes on once it   *)
(* has begun, unless its process stops.  Requests and faults are not fair. *)
Fairness ==
  /\ \A p \in Publishers : WF_vars(PublisherStep(p) /\ UNCHANGED <<legacyVars, brokerVars>>)
  /\ \A w \in Workers : WF_vars(ParserStep(w) /\ UNCHANGED <<legacyVars, brokerVars>>)
  /\ \A f \in Parsed : WF_vars(TimeStep(f) /\ UNCHANGED <<legacyVars, brokerVars>>)
  /\ \A r \in Recoverers : WF_vars(RecoverStep(r) /\ UNCHANGED brokerVars)
  /\ \A f \in Files : WF_vars(IntentExpires(f) /\ UNCHANGED brokerVars)
  /\ WF_vars(up.pc # "idle" /\ UploadStep /\ UNCHANGED brokerVars)
  /\ WF_vars(LimboEnds /\ UNCHANGED brokerVars)
  /\ \A b \in Brokers : WF_vars(BrokerStep(b) /\ UNCHANGED legacyVars)
  /\ \A k \in Kinds, f \in Files : WF_vars(OpTime(k, f) /\ UNCHANGED legacyVars)

Spec == Init /\ [][Next]_vars /\ Fairness

-----------------------------------------------------------------------------
TypeOK == FilesTypeOK /\ LegacyTypeOK /\ BrokerTypeOK

\* A committed source row has its file: no recovery of the upload's intent,
\* and no clean-up by the upload itself, removes the file of a row that is
\* there, whoever is slow and whatever the commit's answer was.
\* (file-move-intent.dispatcher.ts, uploadFiles)
CommittedFilesExist ==
  mode = "legacy" => \A f \in Files : src[f].st # "none" => f \in dest

\* The bytes of a committed upload are never lost: until the file is deleted
\* they are in quarantine or under the storage key, complete, although a
\* broker whose lease ran out still works in the same directories; and an
\* object is AVAILABLE only with them in place.  (fsstore/store.go, promote)
UploadedBytesSurvive ==
  \A f \in Files :
    /\ object[f] \in {"STAGING", "AVAILABLE"} => f \in quar \/ FinalIs(f) = "full"
    /\ object[f] = "AVAILABLE" => FinalIs(f) = "full"

\* A file is DONE exactly with the active version its row names, and never
\* with two: an attempt that lost its lease or its generation leaves no
\* documents behind.  Deleted files are excluded: a tombstoned row, and a row
\* whose legacy deletion is under way, stays DONE while its documents are gone
\* or inactive.  (StructuredIngestionService.activate)
DoneMatchesActive ==
  \A f \in Files : src[f].st = "DONE" /\ ~src[f].tomb /\ f \notin del =>
    {v \in Versions : docs[f][v] = "active"} = {src[f].key}

\* A generation that is DONE stays DONE: no attempt of it or of an earlier
\* one, late or failing, takes the row back; only reparse and deletion do.
\* (ParseWorker, completeAttempt)
DoneIsKept ==
  [][\A f \in Files :
       src[f].st = "DONE" /\ src'[f].st # "DONE" =>
         src'[f].st = "none" \/ src'[f].gen > src[f].gen]_vars

\* Every intent is resolved: once the upload is over, each of its intents is
\* deleted or rejected, whichever process stopped while it held one.
\* (FileMoveIntentDispatcher)
IntentsResolve ==
  \A f \in Files :
    intents[f].st \in {"ACTIVE", "UNCERTAIN"} ~> intents[f].st \in {"none", "REJECTED"}

\* A committed file does not wait for ever: its event reaches the queue and a
\* worker takes the job, unless the file is deleted or its promotion was
\* rejected.  It holds with one fault; a job whose worker crashed twice is
\* failed by Bull for good.  (outbox dispatcher, broker, ParseWorker)
PendingIsTaken ==
  \A f \in Parsed :
    src[f].st = "PENDING" ~>
      src[f].st # "PENDING" \/ src[f].tomb \/ op["PROMOTE"][f].st = "REJECTED"
=============================================================================
