---------------------------- MODULE EventStream ----------------------------
(***************************************************************************)
(* One job as its browser sees it: the legacy generation request.          *)
(*                                                                         *)
(* useSSE posts the request, WorkflowLegacyBridgeService.run creates the   *)
(* job (or finds it again by X-Request-Id) and WorkflowEventStreamService  *)
(* .stream copies the job's event log to the response, polling MySQL.      *)
(* When the connection breaks, the client reconnects with Last-Event-ID,   *)
(* and the server, when it notices, cancels the job.                       *)
(*                                                                         *)
(* The job itself is what WorkflowStore and Generation make of it: a log   *)
(* that grows while the job runs and a status that changes together with   *)
(* the events announcing it.                                               *)
(***************************************************************************)
EXTENDS Integers, Sequences

CONSTANTS MaxLog,       \* bound: progress events are added to shorter logs
          MaxDrops,     \* bound: connections that break
          MaxBatch,     \* ListWorkflowEventsQueryDto.limit
          MaxAttempts   \* MAX_RECONNECT_ATTEMPTS

ASSUME BoundsAssumption ==
  MaxLog \in Nat /\ MaxDrops \in Nat /\ MaxBatch \in Nat \ {0} /\ MaxAttempts \in Nat

VARIABLES
  status,     \* workflow_jobs.status
  log,        \* types of the job's workflow_events
  stream,     \* where the server's stream() of the current request is
  cursor,     \* its cursor, as a position of the log
  pending,    \* its pendingEvents, as positions
  closing,    \* earlier requests whose close the server has yet to notice
  wire,       \* frames written and not yet read by the client
  client,     \* the StreamRun of the hook
  last,       \* run.lastEventId, 0 for null
  received,   \* positions of the events the client has handled
  attempts,   \* run.reconnectAttempts
  drops

jobVars == <<status, log>>
serverVars == <<stream, cursor, pending>>
clientVars == <<client, last, received, attempts>>
vars == <<jobVars, serverVars, closing, wire, clientVars, drops>>

-----------------------------------------------------------------------------
\* Event types of the executor; "workflow" stands for all that are not in
\* LEGACY_EVENT_TYPES, "token" for meta, reset, token and citation.
LegacyTypes == {"token", "done", "error"}
EventTypes == LegacyTypes \cup {"workflow"}

\* A client that has shown the result or an error is "done"; "failed" has
\* used up its reconnects; "gone" was stopped by its user or unmounted.
ClientOver == {"done", "failed", "gone"}

Terminal == {"SUCCEEDED", "FAILED", "STOPPED"}

TypeOK ==
  /\ status \in Terminal \cup {"RUNNING", "WAITING_MATERIAL"}
  /\ log \in Seq(EventTypes)
  /\ stream \in {"none", "list", "write", "check", "ended"}
  /\ cursor \in 0..Len(log)
  /\ pending \in Seq(1..Len(log))
  /\ closing \in 0..(MaxDrops + 1)
  /\ wire \in Seq(1..Len(log))
  /\ client \in ClientOver \cup {"connecting", "reading"}
  /\ last \in 0..Len(log)
  /\ received \in Seq(1..Len(log))
  /\ attempts \in 0..MaxAttempts
  /\ drops \in 0..MaxDrops

\* The first request has created the job; its worker is running.
Init ==
  /\ status = "RUNNING"
  /\ log = <<"workflow">>
  /\ stream = "none"
  /\ cursor = 0
  /\ pending = <<>>
  /\ closing = 0
  /\ wire = <<>>
  /\ client = "connecting"
  /\ last = 0
  /\ received = <<>>
  /\ attempts = 0
  /\ drops = 0

-----------------------------------------------------------------------------
(* The job.                                                                *)

Reported == \E i \in 1..Len(log) : log[i] = "done"

\* The log grows by evs and the status becomes s in one transaction.
JobStep(s, evs) ==
  /\ status' = s
  /\ log' = log \o evs
  /\ UNCHANGED <<serverVars, closing, wire, clientVars, drops>>

\* persistProgress
Progress ==
  /\ status = "RUNNING"
  /\ Len(log) < MaxLog
  /\ ~Reported
  /\ \E k \in {"workflow", "token"} : JobStep("RUNNING", <<k>>)

ReportDone == status = "RUNNING" /\ ~Reported /\ JobStep("RUNNING", <<"done">>)

\* complete
Succeed == status = "RUNNING" /\ Reported /\ JobStep("SUCCEEDED", <<"workflow">>)

\* fail
FailJob == status = "RUNNING" /\ JobStep("FAILED", <<"error", "workflow">>)

\* pauseForGrounding: grounding.material_gap, workflow.waiting_material
Pause ==
  /\ status = "RUNNING"
  /\ ~Reported
  /\ Len(log) < MaxLog
  /\ JobStep("WAITING_MATERIAL", <<"workflow", "workflow">>)

\* resumeMaterial, and the next claim
Resume ==
  /\ status = "WAITING_MATERIAL"
  /\ JobStep("RUNNING", <<"workflow", "workflow">>)

Finish == Succeed \/ FailJob \/ ReportDone

-----------------------------------------------------------------------------
(* WorkflowEventStreamService.stream                                       *)

\* listEvents: at most MaxBatch events behind the cursor.
ListEvents ==
  LET upto == IF cursor + MaxBatch < Len(log) THEN cursor + MaxBatch
                                              ELSE Len(log)
  IN  /\ stream = "list"
      /\ pending' = [n \in 1..(upto - cursor) |-> cursor + n]
      /\ stream' = IF upto = cursor THEN "check" ELSE "write"
      /\ UNCHANGED <<jobVars, cursor, closing, wire, clientVars, drops>>

\* One turn of the for loop: the cursor moves over every event, only the
\* legacy types are written.
WriteEvent ==
  /\ stream = "write"
  /\ cursor' = Head(pending)
  /\ pending' = Tail(pending)
  /\ wire' = IF log[Head(pending)] \in LegacyTypes
               THEN Append(wire, Head(pending)) ELSE wire
  /\ stream' = IF Tail(pending) = <<>> THEN "list" ELSE "write"
  /\ UNCHANGED <<jobVars, closing, clientVars, drops>>

\* findOne, after an empty listing: a job that has ended ends the response.
\* Events may have been appended since the listing.
CheckStatus ==
  /\ stream = "check"
  /\ stream' = IF status \in Terminal \cup {"WAITING_MATERIAL"}
                 THEN "ended" ELSE "list"
  /\ UNCHANGED <<jobVars, cursor, pending, closing, wire, clientVars, drops>>

\* WorkflowService.cancel, which does nothing to a terminal job
CancelJob ==
  IF status \in Terminal
    THEN UNCHANGED jobVars
    ELSE status' = "STOPPED" /\ log' = Append(log, "workflow")

\* The bridge notices that a connection closed before its stream had ended
\* and cancels the job.
NoticeClose ==
  /\ closing > 0
  /\ closing' = closing - 1
  /\ CancelJob
  /\ UNCHANGED <<serverVars, wire, clientVars, drops>>

-----------------------------------------------------------------------------
(* useSSE                                                                  *)

\* Mutant of Connect: the reconnect does not send Last-Event-ID.
ConnectFromStart ==
  /\ client = "connecting"
  /\ client' = "reading"
  /\ attempts' = 0
  /\ stream' = "list"
  /\ cursor' = 0
  /\ pending' = <<>>
  /\ wire' = <<>>
  /\ UNCHANGED <<jobVars, closing, last, received, drops>>

\* The request reaches the server, which finds the job by its idempotency
\* key, and the response headers reach the client.
Connect ==
  /\ client = "connecting"
  /\ client' = "reading"
  /\ attempts' = 0
  /\ stream' = "list"
  /\ cursor' = last
  /\ pending' = <<>>
  /\ wire' = <<>>
  /\ UNCHANGED <<jobVars, closing, last, received, drops>>

\* The response is not ok: its error is shown and the run is over.
ConnectRefused ==
  /\ client = "connecting"
  /\ client' = "failed"
  /\ UNCHANGED <<jobVars, serverVars, closing, wire, last, received, attempts,
                 drops>>

\* Mutant of AttemptReconnect: the limit is not looked at.
ReconnectWithoutLimit == client' = "connecting" /\ attempts' = attempts + 1

\* attemptReconnect; the delay of the timer is not modelled.
AttemptReconnect ==
  IF attempts >= MaxAttempts
    THEN client' = "failed" /\ UNCHANGED attempts
    ELSE client' = "connecting" /\ attempts' = attempts + 1

\* The connection is lost: the frames on it too, and unless the response had
\* been ended the server will see a premature close.
LoseConnection ==
  /\ stream' = "none"
  /\ cursor' = 0
  /\ pending' = <<>>
  /\ wire' = <<>>

\* fetch rejects; the request may have reached the server all the same.
ConnectFails ==
  /\ client = "connecting"
  /\ drops < MaxDrops
  /\ drops' = drops + 1
  /\ closing' \in {closing, closing + 1}
  /\ AttemptReconnect
  /\ UNCHANGED <<jobVars, serverVars, wire, last, received>>

\* reader.read rejects, or no heartbeat arrived for a minute.
Drop ==
  /\ client = "reading"
  /\ drops < MaxDrops
  /\ drops' = drops + 1
  /\ closing' = IF stream = "ended" THEN closing ELSE closing + 1
  /\ LoseConnection
  /\ AttemptReconnect
  /\ UNCHANGED <<jobVars, last, received>>

\* A frame is parsed and handled; "done" and "error" finish the run before
\* lastEventId is updated.
Receive ==
  /\ client = "reading"
  /\ wire # <<>>
  /\ LET i == Head(wire)
     IN  /\ received' = Append(received, i)
         /\ IF log[i] \in {"done", "error"}
              THEN client' = "done" /\ UNCHANGED last
              ELSE last' = i /\ UNCHANGED client
  /\ wire' = Tail(wire)
  /\ UNCHANGED <<jobVars, serverVars, closing, attempts, drops>>

\* Mutant of StreamEnds: the end of the response is taken as the end.
StreamEndsQuietly ==
  /\ client = "reading"
  /\ stream = "ended"
  /\ wire = <<>>
  /\ stream' = "none"
  /\ UNCHANGED <<jobVars, cursor, pending, closing, wire, clientVars, drops>>

\* reader.read reports the end of the response before any final event.
StreamEnds ==
  /\ client = "reading"
  /\ stream = "ended"
  /\ wire = <<>>
  /\ stream' = "none"
  /\ AttemptReconnect
  /\ UNCHANGED <<jobVars, cursor, pending, closing, wire, last, received,
                 drops>>

\* abortRunTransport: a live connection is aborted and the run is over.
AbortTransport ==
  /\ client' = "gone"
  /\ closing' = IF stream \in {"none", "ended"} THEN closing ELSE closing + 1
  /\ LoseConnection
  /\ UNCHANGED <<last, received, attempts, drops>>

\* The page is left, or stop() cannot get its cancellation confirmed.
Leave == client # "gone" /\ AbortTransport /\ UNCHANGED jobVars

\* stop(): the job is cancelled by a request of its own, then the transport
\* is aborted.
Stop == client \in {"connecting", "reading"} /\ AbortTransport /\ CancelJob

-----------------------------------------------------------------------------
ServerStep == ListEvents \/ WriteEvent \/ CheckStatus
ClientStep == Connect \/ Receive \/ StreamEnds

\* Nobody stops the job or leaves the page, no material is missing and no
\* request is refused.
UndisturbedNext ==
  \/ Progress \/ Finish
  \/ ServerStep \/ NoticeClose
  \/ ClientStep \/ ConnectFails \/ Drop

Next == UndisturbedNext \/ Pause \/ Resume \/ ConnectRefused \/ Leave \/ Stop

\* The server polls, the client reads and reconnects by timers, closed
\* sockets are noticed, and jobs settle (Generation, JobsSettle).
Fairness == /\ WF_vars(ServerStep) /\ WF_vars(ClientStep) /\ WF_vars(NoticeClose)
            /\ WF_vars(Finish)

Spec == Init /\ [][Next]_vars /\ Fairness

UndisturbedSpec == Init /\ [][UndisturbedNext]_vars /\ Fairness

-----------------------------------------------------------------------------
(* Properties.                                                             *)

\* However often the connection breaks, the events the client has handled
\* are the legacy events of the log from its beginning, each once, in order
\* and without a gap, although the server's cursor runs ahead of the
\* client's and the reconnect starts from the older one.
ReceivedGapless ==
  /\ \A m, n \in 1..Len(received) : m < n => received[m] < received[n]
  /\ \A n \in 1..Len(received) :
       /\ log[received[n]] \in LegacyTypes
       /\ \A i \in 1..received[n] :
            log[i] \in LegacyTypes => \E m \in 1..n : received[m] = i

\* A result or a failure reaches the screen: the final event is shown even
\* when it is appended between the listing that misses it and the status
\* check that ends the response, and even when its frame is lost.
OutcomeIsShown ==
  status \in {"SUCCEEDED", "FAILED"} ~> client \in ClientOver

\* A client that reconnects finds the rest of its stream and reaches a
\* final event, or gives up after MAX_RECONNECT_ATTEMPTS (useSSE.test.tsx,
\* "reconnects after the last parsed event and resets superseded model
\* output").
ReconnectedClientSettles ==
  client = "connecting" /\ last # 0 ~> client \in ClientOver
=============================================================================
