----------------------------- MODULE StoreClient -----------------------------
(***************************************************************************)
(* The workbench page and its jobs: workflowStore, which polls the job and *)
(* its events, and the hooks that drive it (useAuthoringWorkflow,          *)
(* useChatOperations).                                                     *)
(*                                                                         *)
(* The page keeps one runtime per project, and every asynchronous function *)
(* writes it when its answers arrive, whatever has happened to it in the   *)
(* meantime: a refresh writes back the runtime it started from, an action  *)
(* puts the job it was about into the runtime it finds, a recovery and a   *)
(* creation replace it.                                                    *)
(*                                                                         *)
(* Jobs are what WorkflowStore and Authoring make of them, QUEUED and      *)
(* REVISION_REQUIRED counted as RUNNING.  The preview of a proposal and    *)
(* the text of tokens are left out.                                        *)
(***************************************************************************)
EXTENDS Integers, Sequences, FiniteSets

CONSTANTS MaxJobs,     \* bound: jobs the user starts
          Eventful,    \* bound: the jobs that may wait, fail or be acted on
          MaxEvents,   \* bound: a longer log gets only final events
          PageSize,    \* the limit of listEvents
          MaxTroubles  \* bound: lost answers, reloads, returns to the page, and
                       \* jobs after the first

ASSUME ClientBounds == /\ MaxJobs \in Nat /\ MaxEvents \in Nat
                       /\ PageSize \in Nat \ {0} /\ MaxTroubles \in Nat
                       /\ Eventful \subseteq 1..MaxJobs

VARIABLES
  job,       \* the jobs at the server: status, log, latest open proposal
  view,      \* jobsByProject[projectId]
  saved,     \* the reference in localStorage
  recovery,  \* recoverProject, until its job arrives
  refresh,   \* the entry of refreshes
  act,       \* mutateAction
  creation,  \* handleQuickAction, by the job it creates
  fin,       \* finalizedJobs, and the loads that are under way
  loaded,    \* jobs whose artifact the page has shown
  troubles   \* lost answers, reloads and returns so far

pageVars == <<view, saved, recovery, refresh, act, creation, fin, loaded>>
storeVars == <<job, pageVars, troubles>>

-----------------------------------------------------------------------------
Ids == 1..MaxJobs
Actions == {"cancel", "approve", "resume"}
Ended == {"SUCCEEDED", "FAILED", "STOPPED"}
JobStatus == Ended \cup {"none", "RUNNING", "WAITING_APPROVAL", "WAITING_MATERIAL"}

\* An event id belongs to a job; job 0 is null.
NoCursor == [job |-> 0, at |-> 0]

\* `from' is the cursor the runtime began with, `res' the job that the
\* event with resourceId belongs to, 0 for null.
Runtime(n, st, cursor, res) ==
  [job |-> n, st |-> st, from |-> cursor, cur |-> cursor, events |-> <<>>,
   res |-> res, pending |-> "none"]
NoRuntime == Runtime(0, "none", NoCursor, 0)

NoRef == [job |-> 0, cur |-> NoCursor, res |-> 0]

NoRecovery == [pc |-> "idle", ref |-> NoRef, st |-> "none"]
NoRefresh == [pc |-> "idle", rt |-> NoRuntime, listed |-> FALSE, events |-> <<>>,
              st |-> "none"]
NoAct == [pc |-> "idle", kind |-> "none", job |-> 0, st |-> "none"]

Cursors == [job : 0..MaxJobs, at : Nat]

StoreTypeOK ==
  /\ \A n \in Ids : /\ job[n].st \in JobStatus
                    /\ job[n].log \in Seq({"event", "done"})
                    /\ job[n].proposal \in {"none", "ACTIVE", "APPROVED"}
  /\ view.job \in 0..MaxJobs /\ view.st \in JobStatus
  /\ view.cur \in Cursors /\ view.res \in 0..MaxJobs
  /\ view.pending \in Actions \cup {"none"}
  /\ saved \in [job : 0..MaxJobs, cur : Cursors, res : 0..MaxJobs]
  /\ recovery.pc \in {"idle", "sent", "read"}
  /\ refresh.pc \in {"idle", "fetch"} /\ refresh.st \in JobStatus
  /\ act \in [pc : {"idle", "sent", "approved", "ok", "refused"},
              kind : Actions \cup {"none"}, job : 0..MaxJobs, st : JobStatus]
  /\ creation \in [Ids -> {"none", "clicked", "made", "over"}]
  /\ fin \in [Ids -> {"no", "loading", "failed", "done"}]
  /\ loaded \subseteq Ids
  /\ troubles \in 0..MaxTroubles

StoreInit ==
  /\ job = [n \in Ids |-> [st |-> "none", log |-> <<>>, proposal |-> "none"]]
  /\ view = NoRuntime
  /\ saved = NoRef
  /\ recovery = NoRecovery
  /\ refresh = NoRefresh
  /\ act = NoAct
  /\ creation = [n \in Ids |-> "none"]
  /\ fin = [n \in Ids |-> "no"]
  /\ loaded = {}
  /\ troubles = 0

Begun == Cardinality({n \in Ids : creation[n] # "none"})

Trouble ==
  /\ Begun > 0 /\ troubles + Begun <= MaxTroubles
  /\ troubles' = troubles + 1

-----------------------------------------------------------------------------
(* The jobs at the server.                                                 *)

JobBecomes(n, st, evs, proposal) ==
  job' = [job EXCEPT ![n] = [st |-> st, log |-> @.log \o evs, proposal |-> proposal]]

Committed(n) == "done" \in {job[n].log[i] : i \in 1..Len(job[n].log)}

\* suspend, pauseForGrounding, commit, complete, fail; the events of claim and
\* persistProgress add nothing to those of the others.
JobRuns(n) ==
  /\ job[n].st = "RUNNING"
  /\ \/ /\ n \in Eventful /\ ~Committed(n) /\ Len(job[n].log) < MaxEvents
        /\ \/ JobBecomes(n, "WAITING_APPROVAL", <<"event">>, "ACTIVE")
           \/ JobBecomes(n, "WAITING_MATERIAL", <<"event">>, job[n].proposal)
     \/ ~Committed(n) /\ JobBecomes(n, "RUNNING", <<"done">>, "none")
     \/ Committed(n) /\ JobBecomes(n, "SUCCEEDED", <<"event">>, "none")
     \/ n \in Eventful /\ JobBecomes(n, "FAILED", <<"event">>, job[n].proposal)
  /\ UNCHANGED <<pageVars, troubles>>

-----------------------------------------------------------------------------
(* The runtime.                                                            *)

\* persist
RefOf(rt) == IF rt.st = "STOPPED" THEN NoRef
             ELSE [job |-> rt.job, cur |-> rt.cur, res |-> rt.res]

\* setRuntime; a changed runtime lets the effect try a failed load again.
SetRuntime(rt) ==
  /\ view' = rt
  /\ saved' = RefOf(rt)
  /\ fin' = [n \in Ids |-> IF fin[n] = "failed" THEN "no" ELSE fin[n]]

\* dismissProject
DropRuntime == view' = NoRuntime /\ saved' = NoRef

\* refreshProject: one refresh of a project at a time
BeginRefresh(rt) ==
  refresh' = IF refresh.pc = "idle"
               THEN [NoRefresh EXCEPT !.pc = "fetch", !.rt = rt] ELSE refresh

IsRunning(st) == st = "RUNNING"

\* Mutant of NeedsPolling: the events of a job that has ended are not waited for.
NeedsPollingUntilEnd == view.st \in {"RUNNING", "WAITING_APPROVAL"}

\* needsPolling
NeedsPolling ==
  \/ IsRunning(view.st) \/ view.st = "WAITING_APPROVAL"
  \/ view.st = "SUCCEEDED" /\ view.res = 0

\* The timer of the effect, or the effect itself when the status changes
Poll ==
  /\ view.job # 0 /\ NeedsPolling
  /\ refresh.pc = "idle"
  /\ BeginRefresh(view)
  /\ UNCHANGED <<job, view, saved, recovery, act, creation, fin, loaded, troubles>>

\* The user comes back to the page, and recoverProject finds a runtime.
ShowAgain ==
  /\ Trouble
  /\ view.job # 0 /\ ~NeedsPolling
  /\ refresh.pc = "idle"
  /\ BeginRefresh(view)
  /\ UNCHANGED <<job, view, saved, recovery, act, creation, fin, loaded>>

\* The events behind the cursor, one page of them
Page(n, at) ==
  LET upto == IF at + PageSize < Len(job[n].log) THEN at + PageSize ELSE Len(job[n].log)
  IN  [i \in 1..(upto - at) |-> [job |-> n, at |-> at + i]]

\* Mutant of ReadEvents: the cursor's event need not belong to the job.
ReadEventsOfAnyCursor ==
  /\ refresh.pc = "fetch" /\ ~refresh.listed
  /\ refresh' = [refresh EXCEPT !.listed = TRUE,
                   !.events = Page(refresh.rt.job, refresh.rt.cur.at)]
  /\ UNCHANGED <<job, view, saved, recovery, act, creation, fin, loaded, troubles>>

\* WorkflowService.listEvents refuses a cursor of another job, and then the
\* refresh is over.
ReadEvents ==
  /\ refresh.pc = "fetch" /\ ~refresh.listed
  /\ refresh' = IF refresh.rt.cur.job \in {0, refresh.rt.job}
                  THEN [refresh EXCEPT !.listed = TRUE,
                          !.events = Page(refresh.rt.job, refresh.rt.cur.at)]
                  ELSE NoRefresh
  /\ UNCHANGED <<job, view, saved, recovery, act, creation, fin, loaded, troubles>>

\* getJob, in parallel
ReadJob ==
  /\ refresh.pc = "fetch" /\ refresh.st = "none"
  /\ refresh' = [refresh EXCEPT !.st = job[refresh.rt.job].st]
  /\ UNCHANGED <<job, view, saved, recovery, act, creation, fin, loaded, troubles>>

\* reduceEvents
Reduced(rt, evs) ==
  LET ids == {i \in 1..Len(evs) : job[evs[i].job].log[evs[i].at] = "done"}
  IN  [rt EXCEPT !.events = @ \o evs,
                 !.cur = IF evs = <<>> THEN @ ELSE evs[Len(evs)],
                 !.res = IF ids = {} THEN @ ELSE evs[CHOOSE i \in ids : TRUE].job]

\* The end of refreshProject
FinishRefresh ==
  /\ SetRuntime([Reduced(refresh.rt, refresh.events) EXCEPT !.st = refresh.st,
                                                            !.pending = "none"])
  /\ refresh' = NoRefresh
  /\ UNCHANGED <<job, recovery, act, creation, loaded, troubles>>

\* Both answers are there; of a job that waits for approval the proposal is
\* fetched as well (findActive).
ResolveRefresh ==
  /\ refresh.listed /\ refresh.st # "none"
  /\ refresh.st = "WAITING_APPROVAL" => job[refresh.rt.job].proposal # "none"
  /\ FinishRefresh

\* There is none any more, or it has expired: the refresh rejects.
ProposalMissing ==
  /\ refresh.listed /\ refresh.st = "WAITING_APPROVAL"
  /\ job[refresh.rt.job].proposal # "APPROVED"
  /\ refresh' = NoRefresh
  /\ UNCHANGED <<job, view, saved, recovery, act, creation, fin, loaded, troubles>>

-----------------------------------------------------------------------------
(* cancelProject, approveProject, resumeProject                            *)

\* WorkflowStatusPanel and the stop button of ChatPanel
Offered(k) ==
  CASE k = "cancel"  -> view.st \notin Ended
    [] k = "approve" -> view.st = "WAITING_APPROVAL"
    [] k = "resume"  -> view.st = "WAITING_MATERIAL"

\* mutateAction, until its request.  Bound: one action at a time; a refresh
\* enables the buttons again while one is under way.
Click(k) ==
  /\ view.job \in Eventful /\ Offered(k)
  /\ view.pending = "none"
  /\ act.pc = "idle"
  /\ act' = [pc |-> "sent", kind |-> k, job |-> view.job, st |-> "none"]
  /\ SetRuntime([view EXCEPT !.pending = k])
  /\ UNCHANGED <<job, recovery, refresh, creation, loaded, troubles>>

Answered(pc, st) == act' = [act EXCEPT !.pc = pc, !.st = st]

\* WorkflowService.cancel
HandleCancel(n) ==
  \/ job[n].st = "STOPPED" /\ Answered("ok", "STOPPED") /\ UNCHANGED job
  \/ job[n].st \in {"SUCCEEDED", "FAILED"} /\ Answered("refused", "none") /\ UNCHANGED job
  \/ /\ job[n].st \notin Ended
     /\ Answered("ok", "STOPPED")
     /\ JobBecomes(n, "STOPPED", <<"event">>, job[n].proposal)

\* AuthoringProposalService.approve, which refuses an expired proposal
HandleApprove(n) ==
  \/ job[n].proposal = "APPROVED" /\ Answered("approved", "none") /\ UNCHANGED job
  \/ /\ job[n].proposal = "ACTIVE" /\ job[n].st = "WAITING_APPROVAL"
     /\ Answered("approved", "none")
     /\ JobBecomes(n, "RUNNING", <<>>, "APPROVED")
  \/ job[n].proposal # "APPROVED" /\ Answered("refused", "none") /\ UNCHANGED job

\* WorkflowService.resumeMaterial
HandleResume(n) ==
  \/ /\ job[n].st = "WAITING_MATERIAL"
     /\ Answered("ok", "RUNNING")
     /\ JobBecomes(n, "RUNNING", <<"event">>, job[n].proposal)
  \/ job[n].st # "WAITING_MATERIAL" /\ Answered("refused", "none") /\ UNCHANGED job

HandleAction ==
  /\ act.pc = "sent"
  /\ \/ act.kind = "cancel" /\ HandleCancel(act.job)
     \/ act.kind = "approve" /\ HandleApprove(act.job)
     \/ act.kind = "resume" /\ HandleResume(act.job)
  /\ UNCHANGED <<view, saved, recovery, refresh, creation, fin, loaded, troubles>>

\* WorkflowController.approve reads the job after the transaction.
AnswerApprove ==
  /\ act.pc = "approved"
  /\ Answered("ok", job[act.job].st)
  /\ UNCHANGED <<job, view, saved, recovery, refresh, creation, fin, loaded, troubles>>

\* The rest of mutateAction: the answer goes into the runtime there is now;
\* when it was dismissed meanwhile, what is written names no project.
ApplyAnswer ==
  /\ act.pc \in {"ok", "refused"}
  /\ act' = NoAct
  /\ IF view.job = 0
       THEN UNCHANGED <<view, saved, fin>>
       ELSE SetRuntime(IF act.pc = "ok"
                         THEN [view EXCEPT !.job = act.job, !.st = act.st,
                                           !.pending = "none"]
                         ELSE [view EXCEPT !.pending = "none"])
  /\ UNCHANGED <<job, recovery, refresh, creation, loaded, troubles>>

-----------------------------------------------------------------------------
(* Starting, finalizing, dismissing, recovering                            *)

\* handleQuickAction is locked while a runtime is shown that has not failed
\* or been stopped, but not while an earlier click is still at work.
ClickStart(n) ==
  /\ view.st \in {"none", "FAILED", "STOPPED"}
  /\ \A i \in Ids : creation[i] = "none" <=> i >= n
  /\ troubles + n - 1 <= MaxTroubles
  /\ creation' = [creation EXCEPT ![n] = "clicked"]
  /\ UNCHANGED <<job, view, saved, recovery, refresh, act, fin, loaded, troubles>>

\* WorkflowService.create
CreateJob(n) ==
  /\ creation[n] = "clicked"
  /\ creation' = [creation EXCEPT ![n] = "made"]
  /\ JobBecomes(n, "RUNNING", <<"event">>, "none")
  /\ UNCHANGED <<view, saved, recovery, refresh, act, fin, loaded, troubles>>

\* createWorkflow, with the answer
ShowCreated(n) ==
  /\ creation[n] = "made"
  /\ creation' = [creation EXCEPT ![n] = "over"]
  /\ SetRuntime(Runtime(n, "RUNNING", NoCursor, 0))
  /\ UNCHANGED <<job, recovery, refresh, act, loaded, troubles>>

\* The effect that loads the authoritative artifact
BeginLoad(n) ==
  /\ view.job = n /\ view.st = "SUCCEEDED" /\ view.res # 0
  /\ fin[n] = "no"
  /\ fin' = [fin EXCEPT ![n] = "loading"]
  /\ UNCHANGED <<job, view, saved, recovery, refresh, act, creation, loaded, troubles>>

\* It dismisses the project, whatever job is shown by then.
FinishLoad(n) ==
  /\ fin[n] = "loading"
  /\ fin' = [fin EXCEPT ![n] = "done"]
  /\ loaded' = loaded \cup {n}
  /\ DropRuntime
  /\ UNCHANGED <<job, recovery, refresh, act, creation, troubles>>

\* onDismiss of the panel
Dismiss ==
  /\ view.st \in {"FAILED", "STOPPED"}
  /\ DropRuntime
  /\ UNCHANGED <<job, recovery, refresh, act, creation, fin, loaded, troubles>>

\* recoverProject after a reload: getJob of the saved reference
RecoverJob ==
  /\ recovery.pc = "sent"
  /\ recovery' = [recovery EXCEPT !.pc = "read", !.st = job[recovery.ref.job].st]
  /\ UNCHANGED <<job, view, saved, refresh, act, creation, fin, loaded, troubles>>

ShowRecovered ==
  LET rt == Runtime(recovery.ref.job, recovery.st, recovery.ref.cur, recovery.ref.res)
  IN  /\ recovery.pc = "read"
      /\ recovery' = NoRecovery
      /\ SetRuntime(rt)
      /\ BeginRefresh(rt)
      /\ UNCHANGED <<job, act, creation, loaded, troubles>>

-----------------------------------------------------------------------------
(* What goes wrong                                                         *)

\* The user reloads the page: only localStorage stays.  A request under way
\* has been handled, or never will be.
Reload ==
  /\ Trouble
  /\ view' = NoRuntime
  /\ recovery' = IF saved.job = 0 THEN NoRecovery
                 ELSE [pc |-> "sent", ref |-> saved, st |-> "none"]
  /\ refresh' = NoRefresh
  /\ act' = NoAct
  /\ creation' = [n \in Ids |-> IF creation[n] = "none" THEN "none" ELSE "over"]
  /\ fin' = [n \in Ids |-> "no"]
  /\ UNCHANGED <<job, saved, loaded>>

\* A request or its answer is lost.
LoseRefresh ==
  /\ Trouble /\ refresh.pc # "idle"
  /\ refresh' = NoRefresh
  /\ UNCHANGED <<job, view, saved, recovery, act, creation, fin, loaded>>

LoseAnswer ==
  /\ Trouble /\ act.pc \in {"sent", "approved", "ok"}
  /\ Answered("refused", "none")
  /\ UNCHANGED <<job, view, saved, recovery, refresh, creation, fin, loaded>>

LoseCreation(n) ==
  /\ Trouble /\ creation[n] \in {"clicked", "made"}
  /\ creation' = [creation EXCEPT ![n] = "over"]
  /\ UNCHANGED <<job, view, saved, recovery, refresh, act, fin, loaded>>

LoseRecovery ==
  /\ Trouble /\ recovery.pc # "idle"
  /\ recovery' = NoRecovery
  /\ UNCHANGED <<job, view, saved, refresh, act, creation, fin, loaded>>

LoadFails(n) ==
  /\ Trouble /\ fin[n] = "loading"
  /\ fin' = [fin EXCEPT ![n] = "failed"]
  /\ UNCHANGED <<job, view, saved, recovery, refresh, act, creation, loaded>>

-----------------------------------------------------------------------------
RefreshStep == ReadEvents \/ ReadJob \/ ResolveRefresh \/ ProposalMissing
LoadStep == \E n \in Ids : BeginLoad(n) \/ FinishLoad(n)

\* What timers and effects do by themselves
PageStep == Poll \/ RefreshStep \/ LoadStep

StoreNext ==
  \/ \E n \in Ids : \/ JobRuns(n) \/ ClickStart(n) \/ CreateJob(n) \/ ShowCreated(n)
                    \/ LoadFails(n) \/ LoseCreation(n)
  \/ PageStep \/ ShowAgain
  \/ \E k \in Actions : Click(k)
  \/ HandleAction \/ AnswerApprove \/ ApplyAnswer \/ LoseAnswer
  \/ Dismiss \/ RecoverJob \/ ShowRecovered
  \/ Reload \/ LoseRefresh \/ LoseRecovery

-----------------------------------------------------------------------------
(* Properties.                                                             *)

\* The events the page holds are a gapless stretch of one job's log, each
\* event once, from the cursor it was recovered with up to its cursor,
\* although refreshes, actions, recoveries and creations overwrite one
\* another.
\* (workflowStore, WorkflowService.listEvents)
ViewIsOneStretch ==
  /\ \A i \in 1..Len(view.events) :
       view.events[i] = [job |-> view.cur.job, at |-> view.from.at + i]
  /\ view.cur.at = view.from.at + Len(view.events)

\* The result of the job on the page is loaded, although status and events
\* are fetched in parallel and in pages, and whatever else is under way.  Four
\* things keep a page from it: it was left or shows another job by then; the
\* answer of a resume was lost or overtaken by an older refresh, and a page
\* that shows WAITING_MATERIAL does not poll; the artifact could not be
\* loaded, which is said to the user; or an answer for this job was written
\* into the runtime of another one, whose cursor the server refuses.
\* (useAuthoringWorkflow, needsPolling)
ResultIsLoaded ==
  \A n \in Ids :
    job[n].st = "SUCCEEDED" /\ view.job = n ~>
      \/ n \in loaded
      \/ view.job # n
      \/ view.st = "WAITING_MATERIAL"
      \/ fin[n] = "failed"
      \/ view.cur.job \notin {0, n}
=============================================================================
