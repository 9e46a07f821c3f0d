# Verification of write-agent

TLA+ models of the write-agent backend and of the browser code that follows its
jobs, the TLC runs that check them on small instances, and TLAPS proofs of every
safety property the runs check, for instances of any size.

## The system

write-agent is a NestJS API process, a NestJS worker process, a Next.js web
client, MySQL, Redis with Bull queues, Qdrant, and a Go storage broker. Its core
is the *workflow*: a user asks for a directory, an outline or a text; the API
inserts a durable job; a worker claims it, retrieves evidence, calls a model,
verifies and publishes the result; the browser follows the job's event log over
server-sent events. MySQL is the authority. Bull only wakes workers up.

| part | state | operations | interacts with |
|---|---|---|---|
| workflow rows (`workflow.service`, `mysql-workflow-execution.store`) | status, lease, fencing token, checkpoint, event log | create, cancel, resumeMaterial, approve, claim, persistProgress, complete, suspend, fail | everything |
| engine (`workflow.engine`) | one run per delivery, abort signal | run, monitorControl | store, executor |
| generation executor, domain commit | checkpoint phases, attempt number, receipt, evidence assignment | execute, commit | store, content, citation, model gateway |
| dispatch, recovery | Bull entries, pending deliveries, backoff | dispatch, scan | API handlers, worker |
| event stream, legacy bridge | cursor per request | stream, cancel on close | store, browser |
| `useSSE` | last event id, reconnect attempts | start, stop, reconnect | bridge |
| authoring | proposals, graph checkpoints | store, approve, commit | store, citation |
| citation, atomic grounding | assignments, ledger, sealed candidates | assign, verify, seal | executor, retrieval |
| model gateway | `model_runs` | call, retry, repair | executor |
| files, structured ingestion | source files, outbox, move intents, versions | upload, parse, move, clean up | storage, retrieval |
| retrieval, dense index | retrieval runs, index versions | retrieve, activate | executor |
| storage authority, broker | operation intents, objects | promote, delete, verify | files |
| `workflowStore`, `useAuthoringWorkflow` | runtime per project, saved reference | create, recover, refresh, cancel, approve, resume, dismiss, load | API, store |
| content, outline, directory versions; exports, templates; auth, projects, sessions | rows | CRUD and small queues | - |

What is hard here: several workers and deliveries compete for one job; a worker
may stop between any two transactions and a later one continues from its
checkpoint; a user cancels or resumes at any time; leases expire under runs that
keep going; connections drop with frames in flight; a queue add may be lost,
hang, or be swallowed by an entry that is about to be removed. `PROJECT.json`
lists these hazards at their lines, with the properties aimed at them.

## Modules

| module | role |
|---|---|
| `JobLifecycle` | abstract specification: status moves along `ALLOWED_TRANSITIONS`, an artifact is published at most once and while RUNNING |
| `WorkflowStore` | the durable rows and the engine runs that compete for them; implements `JobLifecycle` |
| `WorkflowStoreProofs` | TLAPS proofs about `WorkflowStore` |
| `Generation` | extends `WorkflowStore` with the executor's steps, checkpoints and the commit |
| `Authoring` | extends `WorkflowStore` with the authoring graph, its proposals and their commit |
| `ModelGateway` | model calls as `model_runs` records them: attempts, retries, repairs, single dispatches |
| `AtomicGeneration` | `WorkflowStore` and `ModelGateway` composed by the executor's atomic mode |
| `EventStream` | one job as a browser sees it: log, stream, bridge, `useSSE` |
| `StoreClient` | the workbench page that creates workflows and polls them: `workflowStore` and its hooks |
| `Clients` | composes `EventStream` and `StoreClient`, the two clients of the event log |
| `Dispatch` | how jobs reach workers: dispatch, Bull, recovery scan |
| `SourceFiles` | the rows of a file: outbox, parse queue, parse leases, activation of a version |
| `LegacyUpload` | how a row comes and goes when the API moves files itself: intents, renewals, recovery, deletion |
| `StorageBroker` | how it comes and goes through operation intents and broker processes |
| `Files` | composes the three |
| `MC*` | instances for TLC |
| `GenerationProofs`, `AuthoringProofs` | TLAPS proofs about `Generation` and `Authoring`, their refinement of `WorkflowStore` included |
| `AtomicProofs`, `AtomicTextProofs` | the same for `AtomicGeneration` with `ModelGateway`: types, refinement and ledger; revisions and text |
| `ClientsProofs`, `DispatchProofs`, `FilesProofs` | proofs about `Clients` with its parts, `Dispatch`, and `Files` with its parts |

```
JobLifecycle <--implements-- WorkflowStore <--implements-- Generation
                                           <--implements-- Authoring
                                           <--implements-- AtomicGeneration --extends--> ModelGateway
EventStream, StoreClient <--extends-- Clients
SourceFiles <--extends-- LegacyUpload, StorageBroker <--extends-- Files
```

**WorkflowStore.** Each operation of the code locks the job row and runs in one
transaction, so each is one action. Between two transactions of a run every
other action may happen. `leaseLive` stands for `lease_expires_at > now`;
`LeaseExpires` is time. A claim's random lease UUID and its fencing number are
both represented by the fencing number. `Abandon` covers every way a run ends
without writing: refused by the fence, aborted, rethrown, killed. Events keep
their type, the claim that wrote them and the status they announce. What a run
does between claim and end is left open, so that the proofs hold for every
executor, the authoring graph and the atomic one included.
`WorkflowService.transition` and `appendEvent` have no caller and no action.

**Generation.** One action per transaction or external call of `execute`; the
handlers of `WorkflowStore` are conjoined with what they do to the new columns,
and the run `generation` checks that the result implements `WorkflowStore!Spec`.
The model is of the default configuration, `ATOMIC_GROUNDING_MODE` off and the
legacy definition; in it content jobs are not strict and the verifier never asks
for a revision, so the revision phases are not entered. A run makes at most one
model call, so a token is identified with the claim that streamed it.
"directory" stands for directories and outlines, "content" for content, rewrite
and expand, which differ in nothing the properties see; "compress" always pauses
in this mode, because only an `atomic:v1` assignment can be inherited.

**Authoring.** The ten nodes of the graph are taken in five groups; a group and
the checkpoint that ends it are one action, and a run that is killed loses what
it had not persisted. A proposal keeps its status, the payload it shows, and
whether it has expired; time passes by an action of its own. Approval, store and commit are each one transaction. `commitApproved`
looks for a receipt before it looks at the proposal, as the code does.
A "body" (content, rewrite, expand) retrieves evidence and assigns it to the job;
a second assignment from another retrieval fails. A "compress" job inherits the
evidence of the result it shortens, which is the same at every attempt; evidence
that cannot be inherited is a material gap. A "structured" job (directory,
outline) needs no evidence and meets no gap. The assignment is not fenced
(`AssignEvidence`): a run that lost its lease may make it, and `MayAssign`, the
upsert, is what keeps it from replacing what its successor has used. The sources
or the outline may change at any time, so the verification before a draft is
sealed and before it is committed is a choice. At `targeted_revision` the code
asks the store for more evidence, and the store refuses an assignment that counts
no revision; the graph never counts one, so a draft with unsupported claims always
ends as a material gap, and the model has no revised text. A payload is named by
the claim whose model call wrote it and by the evidence it was rendered from, so
that what is shown, approved and saved can be compared. The run `authoring` checks
that the result implements `WorkflowStore!Spec`.

**ModelGateway.** One row per attempt that reaches the provider, with the states
of `model_runs`; a caller is a loop around one operation id. The provider is
external: it may answer, emit pieces of text, fail in a way that is or is not
retryable, or never answer, and the timeout may come first. A retry happens only
before any output; a JSON call may be repaired. The recorder may fail before or
after the provider was called. `completePrepared` dispatches at most once per
operation id, whichever process asks. Validation of requests, tools, usage and
prices decide no state and are one of the errors of an attempt.

**AtomicGeneration.** `executeAtomic` and `resumeAtomicRevision` in the mode
`shadow_no_persist`, the one in which the executor enters them. What the
verifier says of a candidate is a choice among sealed, revision and gap; the
candidate is named by its model row and by the evidence it was checked against.
The monitor of a run acts only while a call is open: elsewhere its abort is
noticed at the next transaction, which the fence refuses at the same point. A
fault of the recorder uses up the same budget as other faults. A trace is the
job and, for what belongs to one attempt of the loop, the claim; an operation
key is the job, the attempt and the evidence set, as the code derives it. A
token in the log is the number of its `model_runs` row and its place in the
answer, so that two texts, or two halves of different ones, can be told apart.

**EventStream.** The job is reduced to its status and the types of its events,
as `WorkflowStore` and `Generation` produce them. The server's `stream` is
listing, writing and status check, each separated from the next; frames travel on
a wire that is lost with its connection; the server notices a premature close at
some later moment and cancels the job, as the bridge does. Event types are
merged into classes that client and server treat alike.

**StoreClient.** `view` is the runtime of the project, `saved` the reference in
localStorage. Every asynchronous function of the store is its synchronous parts:
what it captures, what the server does with its requests, and what it writes when
the answers are there, so that a refresh writes back the runtime it started from
and an action puts its job into whatever runtime there is by then. The jobs run
as `WorkflowStore` and `Authoring` let them. Proposal previews and streamed text
are left out, and so are two tabs that share one localStorage; `reset` has no
caller. Three behaviours seen in this model are narrower than a finding but worth
knowing: a lost or overtaken answer to a resume leaves the page on
WAITING_MATERIAL, which is not polled, until it is reloaded; the start of a job is
locked by the runtime shown and not by a start under way, so that a double click
creates two jobs of which the page follows one; and an answer about the other one
then leaves a runtime with the job of one and the cursor of the other, which every
refresh is refused for. `ResultIsLoaded` names these cases.

**Dispatch.** The row is reduced to whether it can be claimed. API and worker
have their own `pendingDeliveries`. Bull is external and modelled from its use:
an add is ignored while an entry of that name exists, an entry is removed only
after its handler has returned, a crash leaves an entry for the stalled check.
`Poison` jobs are those whose claim throws because of an invalid policy
snapshot; they stay due for ever.

**SourceFiles.** `src` is `source_files`, `docs` the documents and chunks of each
version, `outbox` the upload outbox with the lease of its dispatcher, `bull` the
queue `file-parse`. An attempt of `ParseWorker` reads the row, claims it with a
token and a lease, reads the bytes, and activates a version or records a
failure; between these steps its lease may run out, its job may be taken for
stalled and given to another worker, and the file may be reparsed or deleted. The
read, with `storageReadiness.assertReady` in the broker mode, may throw before the
claim: the row stays as it was, and the job has one attempt less.

**LegacyUpload.** The request inserts an intent per file, moves the files,
renews the intents, inserts rows and outbox in one transaction and cleans up.
The commit may be answered, refused, or have an unknown outcome: then the
transaction is in limbo until MySQL has decided, and the intents are marked
`UNCERTAIN`. `FileMoveIntentDispatcher` processes claim what is due, lock the
intent and the row, and remove files, at any time in between. A process may stop
at every step. Quarantine and the project
directory are the sets `temp` and `dest`.

**StorageBroker.** Staging and the requests of promotions and deletions by the
API; `sp_storage_claim_v1` and `sp_storage_complete_v1` with fence, lease and
retries; promote and delete of the file store one system call at a time, with
inodes, since a broker whose lease ran out keeps writing in the directories of
the broker that replaced it. The look at the storage key and the opening of the
quarantine file are two steps (`VerifyFinal`, `OpenSource`), so that a broker may
reject an intent whose bytes another one has just put in place; so are the rename,
the look at what was there (`VerifyExisting`) or is there now (`CheckFinal`), and
the deferred removal of the staging name (`UndoStaging`), which takes away whatever
file has the name by then. `DELETE_QUARANTINE` and `ABORT_PROMOTION` are
requested by no code and left out, as are the checks of readiness and of the
authority epoch, which only refuse to start.

## Runs

| run | shows | bounds |
|---|---|---|
| `store` | fencing, finality, log and column consistency, refinement of `JobLifecycle` | 1 job, 3 runs, 3 claims, progress up to 6 events |
| `generation` | what is published, reported and replayed under crashes; every job settles; refinement of `WorkflowStore` | 1 job of any type, 2 runs, 3 claims, 2 tokens per call |
| `generation_crash` | finding: a crash fails content jobs | 2 claims, no errors but crashes |
| `generation_replay` | finding: a resumed job's replay shows the discarded draft | 2 claims |
| `authoring` | what is published is what was approved; one open proposal; a waiting proposal can be committed; refinement of `WorkflowStore` | 1 job of each kind and definition, 2 runs, 4 claims |
| `authoring_saved` | finding: an approved second proposal is not saved | 1 run at a time, 5 claims |
| `atomic` | one dispatch of a revision, one text per attempt, a true ledger of model calls | 1 job, 2 runs, 3 claims, 1 retry, 1 repair, 2 pieces of text, 1 fault |
| `stream` | neither client skips, repeats or mixes events; outcomes are shown and results loaded | stream: 5 progress events, batches of 2, 2 broken connections; page: two jobs, or one job and a reload, a lost answer or a return to the page; pages of 2 events |
| `stream_reconnect` | finding: a reconnecting client never settles | 1 broken connection |
| `dispatch` | no lost wakeup | 2 jobs, one poisonous, 2 faults, concurrency 1 |
| `files` | committed files and bytes survive, DONE names the active version and is kept | 1 file in either mode, 2 versions, 2 workers, 2 brokers, 1 outbox and 1 intent dispatcher, 2 generations, 2 tries, 3 fences, 2 faults |
| `files_live` | every intent is resolved, a committed file reaches a worker | 2 files of one request, one of them parsed, 1 process of each kind, 1 fault |

Jobs do not share state in the store, so one job suffices there; three claims
are enough for a run to be superseded by a run that is superseded itself, and
two runs for every pairwise race. In `generation` a lease is lost, a run killed
or a job resumed only while a claim is left (`ClaimLeft`), so that the bound on
claims is never what strands a job; `MaxLog` is above any log that can arise. In
`authoring` the four claims are draft, approval, and a crash or a gap with the
resume behind it; the finding needs five: draft, approval with a crash, the gap,
the second draft, its approval. In `atomic` the runs are symmetric, which is
sound because no liveness is checked there; the first call, its revision and one
replay of either need three claims, and two pieces of text make a torn text
visible. In `stream` a batch is smaller than the log, so a cursor stops inside
it; of two jobs on a page only the first waits, fails or is acted on
(`Eventful`), which keeps every race of two runtimes and halves the states. In `dispatch` two faults allow, for example, a lost add followed by a crash
during the recovery; the limit of the scan is larger than the number of
poisonous jobs, as `LimitAssumption` demands: with 100 of them in production
younger jobs would depend on their own deliveries. In `files` every race is
between two workers, two brokers, or a dispatcher and the request, over one
file: files of one request share only its transaction, which `files_live` covers
with two. A fault is a crash, an expired lease of a process that goes on, a
stall, an error, or a lost reply of a commit; two of them are a crash during the
recovery from the first. Deadlock is not checked: jobs end, and the bounds stop
the rest.

**Fairness.** `Generation`: claimable jobs are offered to workers again and
again (the recovery dispatcher scans every few seconds), an unrenewed lease
expires, and a run proceeds until it ends; no fairness for users, errors, crashes
or the loss of a renewed lease. `EventStream`: the server polls, the client reads
and its timers fire, sockets are found closed, and jobs finish; none for drops,
stops and pauses. `Clients`: in addition the polling timer, the answers to a
refresh and the effect that loads the artifact; none for users, jobs, reloads and
lost answers. `Dispatch`: Bull and its stalled check, timers, the scan and
answers to adds are fair; API requests, late adds and faults are not. `Files`:
the timers of the dispatchers (`RetryDispatcher`), the broker's loop, Bull's
workers and its stalled check, the expiry of leases and the end of every MySQL
transaction are fair, and an upload that has begun goes on unless its process
stops; requests, reparses, deletions and faults are not fair. `PendingIsTaken`
holds for one fault: a Bull job whose worker dies twice is failed for good and
the file stays PENDING until somebody reparses it.

## Findings

1. `generation_crash`. A content, rewrite or expand job whose worker stops after
   the evidence was assigned is failed by its replay: the new retrieval run
   conflicts with the stored assignment, whose upsert then writes NULL to a NOT
   NULL column (`citation/sql-grounding-evidence.store.ts:142`).
2. `generation_replay`. `resumeMaterial` drops the checkpoint, so the next
   attempt starts with `meta`; clients clear their text on `reset` only and show
   the discarded draft in front of the new one. Reached when evidence is
   withdrawn between verification and commit.
3. `stream_reconnect`. A dropped connection cancels the job, the STOPPED event
   is not a legacy event, and the client, whose attempts are reset by every
   response, reconnects for ever.
4. `authoring_saved`. A body is committed and its worker stops before it reports;
   the next run re-verifies the candidate before it asks for the receipt, finds
   that a source has changed, and pauses. The user resumes, a second proposal is
   shown and approved, and its commit returns the receipt of the first
   (`authoring/commit/authoring-commit.service.ts:103`): the job succeeds with
   the old text, although the panel that asked for the approval promises that it
   saves the text shown.

## Observations

What the models show, and no statement of the repository contradicts, so that no
run refutes it. A liveness property that excluded them would be false of the code;
where `PROJECT.json` lists them as hazards, no property is claimed to catch them.

- *Dead ends of an approval.* A proposal that expires while its job waits can
  neither be approved nor replaced, and only cancellation moves the job; one
  approved in time and committed too late fails its job; an approved body that
  meets a gap and is resumed loses, with the checkpoint, the sealed candidate that
  every later commit asks for. `DeadEndPublishesNothing` is the safety half: from
  a dead end nothing is ever published. It does not say that anybody notices.
- *No targeted revision in the authoring graph.* `reviseIfRequired` calls
  `prepareGroundingRevision`, whose store refuses unless
  `targeted_revision_attempts` is 1
  (`citation/sql-grounding-evidence.store.ts:495`); only
  `reserveAtomicRevision` and `requireGroundingRevision` count one, and the graph
  calls neither. The test of the graph puts a mock in that place.
- *The limit of the recovery scan.* With as many unclaimable due jobs as the scan
  takes, the younger ones are never scanned. `JobsAreClaimed` is checked and
  `LimitAssumption` made for fewer of them.

## Proofs

TLAPS checks the theorems below for every value of the constants that the named
assumptions allow: any sets of jobs, runs, files, brokers and other actors, and
any bounds, since every bound sits in a guard. Each proof module names an
inductive invariant stronger than what the runs check. TLC checked these
invariants on the instances of the runs before they were proved; the properties
then follow from them in a line or two. Every safety property of a run that
passes, and every refinement one checks, is a theorem.

**Assumptions.** `NoJob \notin Jobs`, `0 \in Payloads` and the bounds are
naturals; kinds of events include those a component appends. `MaxText` is at
least 1: a text has a first piece. In `AtomicGeneration`, `Payloads = Nat`,
because a token is numbered (`TokenPayloadsAssumption`), and the callers of the
gateway are the runs. In `Dispatch` the limit of a scan exceeds the number of
poisonous jobs. In `StoreClient` the eventful jobs are among the jobs. In `Files`
the request has at least one file, `Order` lists its files in any order (a file
named twice would do too), no process is called `None` and no recoverer `writer`,
and there is at
least one generation and one attempt of a Bull job.

**WorkflowStore** (`WorkflowStoreProofs`). `TypeCorrect` is inductive by itself.
`Invariance` proves `IInv`, the conjunction of `TypeOK`, `RowConsistent`,
`TokensIdentifyRuns`, `LogByKnownClaims`, `LogFollowsClaims`,
`TerminalEventClosesLog` and `LogExplainsStatus`. Mutual exclusion is not
inductive: that two runs cannot both pass the fence follows from each claim
number having been handed to one run only and never exceeding the row's
(`TokensIdentifyRuns`). That a log follows its claims needs that no event
carries a claim above the row's (`LogByKnownClaims`). That a terminal event
closes a log needs that the row agrees with it. `LogSteps` is the lemma the log
invariants share: a step keeps a job's log, or extends it by events of one
writer, of which only the last names a status, the new one. `MutualExclusion`,
`FencedLog`, `ClosedLog`, `ExplainedStatus` and `ConsistentRows` follow;
`Finality` is the action property `TerminalIsFinal`; `Implementation` is the
refinement of `JobLifecycle`.

**What carries over.** `ImplementsStore`, `AuthoringImplementsStore` and
`AtomicImplementsStore` prove step by step that the generation executor, the
authoring graph with its services and the atomic executor implement
`WorkflowStore!Spec`. Each of their actions is one action of the store and an
effect on columns the store does not have, or leaves the store's rows alone. So
all theorems of the store hold of the three, `JobLifecycle` included
(`*ImplementsLifecycle`), and their proofs start from `IInv`.

**Generation** (`GenerationProofs`). `ResultInv` says of every job how its log,
its checkpoint, its attempt number, its evidence assignment, its receipt and its
status fit (`JobInv`), and of every run that still holds the fence how its place
and its locals fit its job (`RunInv`). A run without the fence may know anything;
nothing it does reaches the rows. `LatestDraftPublished` needs that the draft a
run holds is exactly the log's tail while it streams, and exactly the
checkpoint's output from then on; `DoneReportedOnce` that the checkpoint is
`done` if the log is; `FinishedCallsAreKept` that the checkpoint of a finished
call is dropped by a resume only; `PausedHasNoArtifact` that a receipt closes the
way to the pause.

**Authoring** (`AuthoringProofs`). `AuthInv` is the chain from a draft over the
checkpoint to the proposal on offer and its commit: which numbers exist, which
proposal the checkpoint names, what is sealed with which text, and at which node a
fenced run can be with which of them (`FencedInv`). The evidence comes in by
`CandidateKept`, a sealed text was rendered from what is assigned now, and by
`AssignInv`: until a proposal is approved at most one run has assigned what it
retrieved, whether it still holds the fence or not, and nothing is sealed
meanwhile; a compression inherits the same each time.
`WaitingCommittable` and `DeadEndsStay` need most of it: that a proposal which
waits has its candidate, and that a dead end is not left again.

**AtomicGeneration and ModelGateway** (`AtomicProofs`, `AtomicTextProofs`).
`AtomicTyped` relates places, calls and rows: a run is idle exactly when its slot
is, a call is held only where the executor awaits one, and the row it names
exists. `LedgerInv` fixes which row a call is on at each of its stages, and
counts the rows nobody is going to close against the faults and the callers that
walked away. `RevisionInv` says that an attempt has one key and a key one row, and
that a checkpoint without a key is of an attempt that never used one; without
the last part a crash between the retrieval and the intent could pay twice.
`TextInv` relates the tokens in a log to the call, the run and the checkpoint
they came from, piece by piece; a retry is harmless because it starts only while
nothing is out.

**Clients** (`ClientsProofs`). `StreamInv`: what the browser has handled is the
log up to one position, what is on the wire continues it up to the server's
cursor, and the page the server has listed continues that; a reconnect starts at
the first of the three. `StoreInv` asks of every copy of a runtime, shown, saved
or captured by a function that has not finished, that its events are one stretch
up to its cursor; of the shown one alone it is not inductive. `ClientsInvariance`
joins them.

**Dispatch** (`DispatchProofs`). `DispatchInv` adds to the types and to
`ScansLeaveNothingPending` that a scan awaits at most `MaxConcurrency` deliveries
and that a lease held by a handler is the row's.

**Files** (`FilesProofs`). `FilesInv` has a part for each mode, and the parts
exclude each other (`ModesApart`): steps of the other mode are disabled. With the
local moves (`MoveFits`), `CommittedFiles` rests on what can coincide: while the
upload moves files, whoever recovers an intent has taken it from the writer, so
that a writer that still owns all of them when it deletes them is alone with
them; from then until MySQL has decided all files are in place and nobody
recovers anything; and a recoverer removes a path only after it has found,
without the transaction's locks in its way, that the row is missing. With brokers
(`BlobFits`), `BytesSurvive` rests on fences: no two brokers at work on an
operation have the same one, each creates its inode under it and finds none there
before, so a broker that outlived its lease can complete an inode but never
shorten the one the key names; and a promotion that reports success has seen the
blob complete. `OneActiveVersion` and the action property `DoneStays` need no
more than that steps on the rows keep, or replace, both sides of the equation
(`RowKept`).

**Only model-checked.** Liveness: `JobsSettle`, `OutcomeIsShown`,
`ResultIsLoaded`, `JobsAreClaimed`, `IntentsResolve` and `PendingIsTaken`. Proofs
about fairness and ENABLED are out of reach of the installed provers. The four
findings are counterexamples of TLC. Nothing in the project is defined by
RECURSIVE operators.

## Not modelled

- Text analysis and rendering: parsers, chunker, tokenizers, prompts, the
  grounding verifier, the quantity lexer, the schemas and the renderer of sealed
  candidates. They are functions of their input without state of their own; the
  models have their outcome as a choice, which includes every outcome the code
  can produce.
- Retrieval and the dense index: ranking and metrics are numeric; run states and
  index activation are single transactions that no other modelled part reads.
- Versions of contents, outlines and directories: request handlers of one
  transaction each, whose races are decided by row locks and unique keys.
- Row locks are taken as granted: deadlocks by lock order between transactions,
  which MySQL breaks by aborting one, are not modelled; the hazard list has
  their places. An aborted transaction appears as an error of its step.
- Exports and templates, accounts, projects and sessions: row access and small
  queues.
- Migrations and schema contracts describe tables once; operations and
  configuration report or are read at start.
- The executor's legacy revision phases, unreachable in either mode.

## Plan

1. What is left of the proofs: lemmas that several modules restate (logs that
   grow, rows that stay) could move to a module of their own; the operators of
   `Generation` and `AtomicGeneration` on logs deserve one set of lemmas.
2. Abstract specifications that would say more than invariants: a model of one
   promised text per attempt that both executors implement, and of one stored
   blob per object that `LegacyUpload` and `StorageBroker` both implement.
3. The locks a proposal and its job row are taken in, as a model of their own, so
   that the deadlock MySQL breaks can be shown with its retry.
4. The parts of the system with state that no module has yet: retrieval runs and
   index activation, and the version tables of contents and outlines.
