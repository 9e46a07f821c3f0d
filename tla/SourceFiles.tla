----------------------------- MODULE SourceFiles -----------------------------
(***************************************************************************)
(* The rows of an uploaded file and their way to a parsed document: the    *)
(* upload outbox and its leased dispatchers, the Bull queue file-parse,    *)
(* ParseWorker with its attempt token and lease, and the activation of a   *)
(* document version by StructuredIngestionService.                         *)
(*                                                                         *)
(* How a row comes to exist and how it goes is the matter of LegacyUpload  *)
(* and StorageBroker; Files puts the three together.                       *)
(***************************************************************************)
EXTENDS Naturals, FiniteSets

CONSTANTS Files,      \* the files of one upload request
          Parsed,     \* bound: the files whose parsing is followed
          Versions,   \* ingestion keys: checksum, parser and chunk version
          Workers,    \* slots that run ParseWorker.handleParse
          Publishers, \* processes that run FileUploadOutboxDispatcher
          MaxGen,     \* bound on parse_generation
          MaxTries,   \* attempts of a Bull job
          MaxFaults,  \* bound on errors, crashes and leases that run out
          None        \* NULL

ASSUME ParsedAssumption == Parsed \subseteq Files
ASSUME NoneAssumption == None \notin Versions \cup Workers \cup Publishers
ASSUME FileBounds ==
  MaxGen \in Nat \ {0} /\ MaxTries \in Nat \ {0} /\ MaxFaults \in Nat

VARIABLES mode,    \* STORAGE_AUTHORITY_MODE: "legacy" or "broker"
          src,     \* source_files
          docs,    \* documents and chunks of a file, by ingestion key
          outbox,  \* file_upload_outbox
          bull,    \* the queue file-parse, by file and generation
          parse,   \* the attempt in each worker slot
          pub,     \* the event in each dispatcher
          faults

rowVars == <<src, docs, outbox>>
queueVars == <<bull, parse, pub>>
fileVars == <<mode, rowVars, queueVars, faults>>

Gens == 1..MaxGen

-----------------------------------------------------------------------------
(* Rows.  `live' stands for a lease that has not expired, `due' for        *)
(* next_attempt_at <= now, `tomb' for deleted_at, `key' for                *)
(* active_ingestion_key.                                                   *)

ParseStatus == {"PENDING", "PARSING", "DONE", "FAILED"}

NoSource == [st |-> "none", gen |-> 0, tok |-> None, live |-> FALSE,
             tomb |-> FALSE, key |-> None]

NewSource == [NoSource EXCEPT !.st = "PENDING", !.gen = 1]

NoOutbox == [st |-> "none", gen |-> 0, owner |-> None, live |-> FALSE, due |-> TRUE]

NewOutbox(status) == [NoOutbox EXCEPT !.st = status, !.gen = 1]

NoEntry == [st |-> "none", by |-> None, tries |-> 0, stalled |-> FALSE]

NoAttempt == [pc |-> "idle", f |-> None, g |-> 0, v |-> None]

NoEvent == [pc |-> "idle", f |-> None, g |-> 0]

FilesTypeOK ==
  /\ mode \in {"legacy", "broker"}
  /\ src \in [Files -> [st : ParseStatus \cup {"none"}, gen : 0..MaxGen,
                        tok : Workers \cup {None}, live : BOOLEAN,
                        tomb : BOOLEAN, key : Versions \cup {None}]]
  /\ docs \in [Files -> [Versions -> {"none", "inactive", "active"}]]
  /\ outbox \in [Files -> [st : {"none", "storage_pending", "pending", "published"},
                           gen : 0..MaxGen, owner : Publishers \cup {None},
                           live : BOOLEAN, due : BOOLEAN]]
  /\ bull \in [Files -> [Gens -> [st : {"none", "waiting", "active", "failed"},
                                  by : Workers \cup {None}, tries : 0..MaxTries,
                                  stalled : BOOLEAN]]]
  /\ parse \in [Workers -> [pc : {"idle", "read", "claim", "bytes", "activate", "fail"},
                            f : Files \cup {None}, g : 0..MaxGen,
                            v : Versions \cup {None}]]
  /\ pub \in [Publishers -> [pc : {"idle", "claimed", "add", "added"},
                             f : Files \cup {None}, g : 0..MaxGen]]
  /\ faults \in 0..MaxFaults

FilesInit ==
  /\ mode \in {"legacy", "broker"}
  /\ src = [f \in Files |-> NoSource]
  /\ docs = [f \in Files |-> [v \in Versions |-> "none"]]
  /\ outbox = [f \in Files |-> NoOutbox]
  /\ bull = [f \in Files |-> [g \in Gens |-> NoEntry]]
  /\ parse = [w \in Workers |-> NoAttempt]
  /\ pub = [p \in Publishers |-> NoEvent]
  /\ faults = 0

Fault == faults < MaxFaults /\ faults' = faults + 1

-----------------------------------------------------------------------------
(* RetryDispatcher and its helpers, for any leased row r.                  *)

\* Mutant of Claimable: a lease is never taken over.
ClaimableUnowned(r) == r.due /\ r.owner = None

\* claimRetryBatch: a due row that nobody leases
Claimable(r) == r.due /\ (r.owner = None \/ ~r.live)

\* renewClaimLease, fencedUpdate and fencedDelete act on the claimant's rows
Fenced(r, d) == r.owner = d

Released(r) == [r EXCEPT !.owner = None, !.live = FALSE]

\* an error: attempts + 1 and nextRetryAt
BackedOff(r) == [Released(r) EXCEPT !.due = FALSE]

-----------------------------------------------------------------------------
(* FileUploadOutboxDispatcher.dispatchClaimed in process p.                *)

ClaimEvent(p, f) ==
  /\ pub[p].pc = "idle"
  /\ outbox[f].st = "pending" /\ Claimable(outbox[f])
  /\ outbox' = [outbox EXCEPT ![f].owner = p, ![f].live = TRUE]
  /\ pub' = [pub EXCEPT ![p] = [pc |-> "claimed", f |-> f, g |-> outbox[f].gen]]
  /\ UNCHANGED <<mode, src, docs, bull, parse, faults>>

RenewEvent(p) ==
  LET f == pub[p].f IN
  /\ pub[p].pc = "claimed"
  /\ IF Fenced(outbox[f], p)
       THEN /\ outbox' = [outbox EXCEPT ![f].live = TRUE]
            /\ pub' = [pub EXCEPT ![p].pc = "add"]
       ELSE pub' = [pub EXCEPT ![p] = NoEvent] /\ UNCHANGED outbox
  /\ UNCHANGED <<mode, src, docs, bull, parse, faults>>

\* parseQueue.add: ignored while a job of that id exists, a failed one too
AddJob(p) ==
  LET e == pub[p] IN
  /\ e.pc = "add"
  /\ bull' = [bull EXCEPT ![e.f][e.g].st = IF @ = "none" THEN "waiting" ELSE @]
  /\ pub' = [pub EXCEPT ![p].pc = "added"]
  /\ UNCHANGED <<mode, rowVars, parse, faults>>

AddRefused(p) ==
  LET f == pub[p].f IN
  /\ pub[p].pc = "add"
  /\ Fault
  /\ outbox' = IF Fenced(outbox[f], p)
                 THEN [outbox EXCEPT ![f] = BackedOff(@)] ELSE outbox
  /\ pub' = [pub EXCEPT ![p] = NoEvent]
  /\ UNCHANGED <<mode, src, docs, bull, parse>>

MarkPublished(p) ==
  LET f == pub[p].f IN
  /\ pub[p].pc = "added"
  /\ outbox' = IF Fenced(outbox[f], p)
                 THEN [outbox EXCEPT ![f] = [Released(@) EXCEPT !.st = "published"]]
                 ELSE outbox
  /\ pub' = [pub EXCEPT ![p] = NoEvent]
  /\ UNCHANGED <<mode, src, docs, bull, parse, faults>>

PublisherStops(p) ==
  /\ pub[p].pc # "idle"
  /\ Fault
  /\ pub' = [pub EXCEPT ![p] = NoEvent]
  /\ UNCHANGED <<mode, rowVars, bull, parse>>

\* Time passes: a lease runs out, early only by a fault; a backoff ends.
EventLeaseExpires(f) ==
  /\ outbox[f].live
  /\ outbox' = [outbox EXCEPT ![f].live = FALSE]
  /\ IF \E p \in Publishers : pub[p].f = f /\ outbox[f].owner = p
       THEN Fault ELSE UNCHANGED faults
  /\ UNCHANGED <<mode, src, docs, queueVars>>

EventDue(f) ==
  /\ ~outbox[f].due
  /\ outbox' = [outbox EXCEPT ![f].due = TRUE]
  /\ UNCHANGED <<mode, src, docs, queueVars, faults>>

-----------------------------------------------------------------------------
(* Bull, and ParseWorker.handleParse in slot w.                            *)

\* Mutant of AfterFailure: the attempts are not counted.
AlwaysRetried(e) == "waiting"

\* attempts: 3
AfterFailure(e) == IF e.tries + 1 < MaxTries THEN "waiting" ELSE "failed"

\* The handler returns or throws; Bull refuses an outcome without its lock.
Returns(w) ==
  LET a == parse[w] IN
  /\ parse' = [parse EXCEPT ![w] = NoAttempt]
  /\ bull' = IF bull[a.f][a.g].by = w
               THEN [bull EXCEPT ![a.f][a.g] = NoEntry] ELSE bull

Throws(w) ==
  LET a == parse[w]
      e == bull[a.f][a.g] IN
  /\ parse' = [parse EXCEPT ![w] = NoAttempt]
  /\ bull' = IF e.by # w THEN bull
             ELSE [bull EXCEPT ![a.f][a.g] =
                     [e EXCEPT !.by = None, !.tries = @ + 1, !.st = AfterFailure(e)]]

Deliver(w, f, g) ==
  /\ parse[w].pc = "idle"
  /\ bull[f][g].st = "waiting"
  /\ bull' = [bull EXCEPT ![f][g].st = "active", ![f][g].by = w]
  /\ parse' = [parse EXCEPT ![w] = [pc |-> "read", f |-> f, g |-> g, v |-> None]]
  /\ UNCHANGED <<mode, rowVars, pub, faults>>

\* The lock of an active job ran out: after a crash, or, as a fault, under a
\* worker that still runs.  A job that stalls twice fails.
Stall(f, g) ==
  LET e == bull[f][g] IN
  /\ e.st = "active"
  /\ IF parse[e.by].f = f /\ parse[e.by].g = g THEN Fault ELSE UNCHANGED faults
  /\ bull' = [bull EXCEPT ![f][g] =
                [e EXCEPT !.by = None, !.stalled = TRUE,
                          !.st = IF e.stalled THEN "failed" ELSE "waiting"]]
  /\ UNCHANGED <<mode, rowVars, parse, pub>>

\* The checks on the row as it is read; `available' is assertBrokerObjectAvailable.
\* The read and storageReadiness.assertReady may throw: the row is as it was,
\* and an attempt of the job is used up.
ReadSource(w, available) ==
  LET a == parse[w]
      s == src[a.f] IN
  /\ a.pc = "read"
  /\ \/ /\ IF s.st \in {"none", "DONE"} \/ s.gen # a.g \/ s.tomb THEN Returns(w)
           ELSE IF ~available THEN Throws(w)
           ELSE parse' = [parse EXCEPT ![w].pc = "claim"] /\ UNCHANGED bull
        /\ UNCHANGED faults
     \/ Fault /\ Throws(w)
  /\ UNCHANGED <<mode, rowVars, pub>>

\* The conditional UPDATE: unlike the read it does not look at deleted_at.
ClaimAttempt(w) ==
  LET a == parse[w]
      s == src[a.f] IN
  /\ a.pc = "claim"
  /\ IF /\ s.gen = a.g
        /\ \/ s.st \in {"PENDING", "FAILED"}
           \/ s.st = "PARSING" /\ ~s.live
       THEN /\ src' = [src EXCEPT ![a.f].st = "PARSING", ![a.f].tok = w,
                                  ![a.f].live = TRUE]
            /\ parse' = [parse EXCEPT ![w].pc = "bytes"]
            /\ UNCHANGED bull
       ELSE Returns(w) /\ UNCHANGED src
  /\ UNCHANGED <<mode, docs, outbox, pub, faults>>

\* readVerifiedFileSnapshot and parseByType
ParseBytes(w, present) ==
  /\ parse[w].pc = "bytes"
  /\ \/ /\ present
        /\ \E v \in Versions :
             parse' = [parse EXCEPT ![w].pc = "activate", ![w].v = v]
        /\ UNCHANGED faults
     \/ /\ IF present THEN Fault ELSE UNCHANGED faults
        /\ parse' = [parse EXCEPT ![w].pc = "fail"]
  /\ UNCHANGED <<mode, rowVars, bull, pub>>

\* Mutant of ActiveVersion: the older version stays active.
AddedVersion(d, v) == [d EXCEPT ![v] = "active"]

\* The version v replaces whatever was active.
ActiveVersion(d, v) ==
  [u \in Versions |-> IF u = v THEN "active"
                      ELSE IF d[u] = "active" THEN "inactive" ELSE d[u]]

\* Mutant of Owns: any attempt of the generation will do.
OwnsGeneration(w) == src[parse[w].f].gen = parse[w].g

\* Does the attempt in w own the row?  (activate and completeAttempt)
Owns(w) ==
  LET s == src[parse[w].f] IN
  s.gen = parse[w].g /\ s.st = "PARSING" /\ s.tok = w

\* StructuredIngestionService.activate, one transaction on the locked row
Activate(w) ==
  LET a == parse[w]
      ok == Owns(w) /\ src[a.f].live IN
  /\ a.pc = "activate"
  /\ IF ok
       THEN /\ docs' = [docs EXCEPT ![a.f] = ActiveVersion(@, a.v)]
            /\ src' = [src EXCEPT ![a.f].st = "DONE", ![a.f].tok = None,
                                  ![a.f].live = FALSE, ![a.f].key = a.v]
            /\ Returns(w)
       ELSE /\ parse' = [parse EXCEPT ![w].pc = "fail"]
            /\ UNCHANGED <<src, docs, bull>>
  /\ UNCHANGED <<mode, outbox, pub, faults>>

\* The catch clause: FAILED if the attempt still owns the row, and rethrow.
FailAttempt(w) ==
  LET a == parse[w] IN
  /\ a.pc = "fail"
  /\ src' = IF Owns(w)
              THEN [src EXCEPT ![a.f].st = "FAILED", ![a.f].tok = None, ![a.f].live = FALSE]
              ELSE src
  /\ Throws(w)
  /\ UNCHANGED <<mode, docs, outbox, pub, faults>>

WorkerStops(w) ==
  /\ parse[w].pc # "idle"
  /\ Fault
  /\ parse' = [parse EXCEPT ![w] = NoAttempt]
  /\ UNCHANGED <<mode, rowVars, bull, pub>>

AttemptLeaseExpires(f) ==
  /\ src[f].st = "PARSING" /\ src[f].live
  /\ src' = [src EXCEPT ![f].live = FALSE]
  /\ IF \E w \in Workers : parse[w].f = f /\ src[f].tok = w
       THEN Fault ELSE UNCHANGED faults
  /\ UNCHANGED <<mode, docs, outbox, queueVars>>

-----------------------------------------------------------------------------
\* Mutant of Requeued: the dispatcher that holds the event keeps its lease.
RequeuedInPlace(f) == [outbox[f] EXCEPT !.st = "pending", !.gen = src[f].gen + 1]

\* reparse's upsert of the event
Requeued(f) == [NoOutbox EXCEPT !.st = "pending", !.gen = src[f].gen + 1]

\* FileService.reparse: a new generation, fenced from the running attempt,
\* and its outbox event, whoever may hold the old one.
Reparse(f) ==
  /\ mode = "legacy"
  /\ src[f].st # "none" /\ src[f].gen < MaxGen
  /\ src' = [src EXCEPT ![f].gen = @ + 1, ![f].st = "PENDING",
                        ![f].tok = None, ![f].live = FALSE]
  /\ outbox' = [outbox EXCEPT ![f] = Requeued(f)]
  /\ UNCHANGED <<mode, docs, queueVars, faults>>

\* The steps that go on by themselves, and those that are faults or requests.
PublisherStep(p) ==
  \/ \E f \in Parsed : ClaimEvent(p, f)
  \/ RenewEvent(p) \/ AddJob(p) \/ MarkPublished(p)

WorkerStep(w) ==
  \/ \E f \in Parsed, g \in Gens : Deliver(w, f, g)
  \/ ClaimAttempt(w) \/ Activate(w) \/ FailAttempt(w)

TimeStep(f) ==
  \/ EventLeaseExpires(f) \/ EventDue(f) \/ AttemptLeaseExpires(f)
  \/ \E g \in Gens : Stall(f, g)

FaultStep ==
  \/ \E p \in Publishers : AddRefused(p) \/ PublisherStops(p)
  \/ \E w \in Workers : WorkerStops(w)
=============================================================================
