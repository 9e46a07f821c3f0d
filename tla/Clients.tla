------------------------------- MODULE Clients -------------------------------
(***************************************************************************)
(* The two clients of the event log: a page that posts a legacy generation *)
(* request and reads the stream (EventStream), or a page that creates a    *)
(* workflow and polls it (StoreClient).                                    *)
(***************************************************************************)
EXTENDS EventStream, StoreClient

VARIABLE via  \* which of the two is followed

allVars == <<vars, storeVars, via>>

ClientsInit == Init /\ StoreInit /\ via \in {"stream", "store"}

ByStream(A) == via = "stream" /\ A /\ UNCHANGED <<storeVars, via>>
ByStore(A) == via = "store" /\ A /\ UNCHANGED <<vars, via>>

ClientsNext == ByStream(Next) \/ ByStore(StoreNext)

\* Those of EventStream; and the timer and the effects of the polling page.
ClientsFairness ==
  /\ WF_allVars(ByStream(ServerStep)) /\ WF_allVars(ByStream(ClientStep))
  /\ WF_allVars(ByStream(NoticeClose)) /\ WF_allVars(ByStream(Finish))
  /\ WF_allVars(ByStore(PageStep))

ClientsSpec == ClientsInit /\ [][ClientsNext]_allVars /\ ClientsFairness

-----------------------------------------------------------------------------
ClientsTypeOK == TypeOK /\ StoreTypeOK /\ via \in {"stream", "store"}

\* Neither client skips an event, repeats one or mixes those of two jobs:
\* not over broken connections and an older Last-Event-ID, nor while
\* refreshes, actions, recoveries and new jobs overwrite one another.
\* (useSSE, workflowStore, WorkflowService.listEvents)
SeenGapless == ReceivedGapless /\ ViewIsOneStretch
=============================================================================
