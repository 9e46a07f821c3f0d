----------------------------- MODULE ModelGateway -----------------------------
(***************************************************************************)
(* ModelGateway.stream and complete, with the model_runs rows they write:  *)
(* one row per provider attempt, opened before the provider is called and  *)
(* closed after it.  An attempt that fails may be retried, an answer that  *)
(* does not fit its schema may be repaired once more.                      *)
(*                                                                         *)
(* The provider is the environment: it sends text, completes, fails or     *)
(* breaks off.  A database call of the recorder may fail, and then it may  *)
(* have been committed or not.  The caller may go away at any moment: it   *)
(* stops pulling, or its process dies.                                     *)
(*                                                                         *)
(* Requests, tools and usage are left out: an invalid one is one more      *)
(* error of the attempt.  attempt_number is left out as well, the index of *)
(* a row stands for its id.                                                *)
(***************************************************************************)
EXTENDS Integers, Sequences, FiniteSets

CONSTANTS Callers,     \* who may have one call open
          MaxRetries,  \* DEFAULT_MAX_RETRIES
          MaxRepairs,  \* max_repair_attempts
          MaxText,     \* bound: text deltas of one attempt
          MaxFaults    \* bound: failed calls of the recorder

ASSUME GatewayBounds == /\ MaxRetries \in Nat /\ MaxRepairs \in Nat
                        /\ MaxText \in Nat \ {0} /\ MaxFaults \in Nat

VARIABLES
  modelRuns,   \* model_runs, in the order of insertion
  call,        \* the generator each caller holds
  dbFaults,    \* recorder calls that failed so far
  walkedAway   \* calls left by their caller while their row was RUNNING

gatewayVars == <<modelRuns, call, dbFaults, walkedAway>>

-----------------------------------------------------------------------------
\* Where a call is.  "yield": a text_delta is with the caller; "accept",
\* "reject" and "closing": finishRun is awaited; "catch": an error was
\* thrown; "answered", "failed" and "threw": the caller has its completed or
\* error event, or the generator rejected.
Stages == {"none", "start", "stream", "yield", "accept", "reject", "catch",
           "closing", "delay", "answered", "failed", "threw"}

Errors == {"none", "retryable", "fatal", "aborted", "invalid"}

\* trace and key are tuples of what the columns trace_id and operation_key
\* are made from.
NoKey == <<>>
NoTrace == <<>>
NoCall == [pc |-> "none", mode |-> "text", trace |-> NoTrace, key |-> NoKey,
           retries |-> 0, repairs |-> 0, row |-> 0, text |-> 0, err |-> "none"]

Open(c) == call[c].pc \notin {"none", "answered", "failed", "threw"}

GatewayTypeOK ==
  /\ \A i \in 1..Len(modelRuns) :
       modelRuns[i].status \in {"RUNNING", "SUCCEEDED", "FAILED", "CANCELLED"}
  /\ \A c \in Callers :
       /\ call[c].pc \in Stages
       /\ call[c].mode \in {"text", "structured"}
       /\ call[c].err \in Errors
       /\ call[c].row \in 0..Len(modelRuns)
       /\ call[c].retries \in 0..MaxRetries
       /\ call[c].repairs \in 0..MaxRepairs
       /\ call[c].text \in 0..MaxText
  /\ dbFaults \in 0..MaxFaults
  /\ walkedAway \in Nat

GatewayInit ==
  /\ modelRuns = <<>>
  /\ call = [c \in Callers |-> NoCall]
  /\ dbFaults = 0
  /\ walkedAway = 0

\* The changes of a call's fields
Set(c, pc, err) == call' = [call EXCEPT ![c].pc = pc, ![c].err = err]

-----------------------------------------------------------------------------
(* The recorder: ModelRunService.                                          *)

FaultLeft == dbFaults < MaxFaults

\* Mutant of KeyTaken: the index is not unique.
KeyNeverTaken(key) == FALSE

\* uq_model_runs_operation_key; NULL keys do not collide.
KeyTaken(key) ==
  key # NoKey /\ \E i \in 1..Len(modelRuns) : modelRuns[i].key = key

\* INSERT of the RUNNING row
Insert(c) ==
  modelRuns' = Append(modelRuns, [trace |-> call[c].trace, key |-> call[c].key,
                                  status |-> "RUNNING"])

\* UPDATE ... WHERE id = row AND status = 'RUNNING'
Update(c, s) ==
  modelRuns' = [modelRuns EXCEPT ![call[c].row].status =
                  IF @ = "RUNNING" THEN s ELSE @]

\* Mutant of Closable: any terminal row is taken for this one's.
AlwaysClosable(c) == TRUE

\* finishAttempt refuses a row in another terminal state.  The same terminal
\* state is never written twice: a second close has another error_code.
Closable(c) == modelRuns[call[c].row].status = "RUNNING"

-----------------------------------------------------------------------------
(* One call.                                                               *)

\* prepareSingleDispatch is used with max_retries and max_repair_attempts 0.
Retries(c) == IF call[c].key = NoKey THEN MaxRetries ELSE 0
Repairs(c) == IF call[c].key = NoKey THEN MaxRepairs ELSE 0

Begin(c, mode, trace, key) ==
  /\ call[c].pc = "none"
  /\ call' = [call EXCEPT ![c] = [NoCall EXCEPT !.pc = "start", !.mode = mode,
                                                !.trace = trace, !.key = key]]
  /\ UNCHANGED <<modelRuns, dbFaults, walkedAway>>

\* startRun, inside the try: a row is there before the provider is called.
StartRun(c) ==
  /\ call[c].pc = "start"
  /\ ~KeyTaken(call[c].key)
  /\ Insert(c)
  /\ call' = [call EXCEPT ![c].pc = "stream", ![c].row = Len(modelRuns) + 1]
  /\ UNCHANGED <<dbFaults, walkedAway>>

\* A duplicate operation_key is no transient error.
RefuseSecondDispatch(c) ==
  /\ call[c].pc = "start"
  /\ KeyTaken(call[c].key)
  /\ Set(c, "catch", "fatal")
  /\ UNCHANGED <<modelRuns, dbFaults, walkedAway>>

\* startAttempt fails, after the commit or before it; run stays null.
StartRunFails(c) ==
  /\ call[c].pc = "start"
  /\ FaultLeft
  /\ dbFaults' = dbFaults + 1
  /\ \E e \in {"retryable", "fatal"} : Set(c, "catch", e)
  /\ \/ UNCHANGED modelRuns
     \/ ~KeyTaken(call[c].key) /\ Insert(c)
  /\ UNCHANGED walkedAway

\* text_delta: yielded at once in text mode.  A structured answer is kept
\* back, and of its text it only matters whether there is any.
Delta(c) ==
  /\ call[c].pc = "stream"
  /\ call[c].text < IF call[c].mode = "text" THEN MaxText ELSE 1
  /\ call' = [call EXCEPT ![c].text = @ + 1,
                ![c].pc = IF call[c].mode = "text" THEN "yield" ELSE "stream"]
  /\ UNCHANGED <<modelRuns, dbFaults, walkedAway>>

\* The caller pulls the next event.
Pull(c) == call' = [call EXCEPT ![c].pc = "stream"]

\* The provider completed.  A structured answer without text is no JSON.
Completed(c) ==
  /\ call[c].pc = "stream"
  /\ \/ (call[c].mode = "structured" => call[c].text > 0)
        /\ Set(c, "accept", "none")
     \/ call[c].mode = "structured" /\ Set(c, "reject", "none")
  /\ UNCHANGED <<modelRuns, dbFaults, walkedAway>>

\* An error event, a tool call, invalid usage or finish reason, a stream that
\* ends without completing, an SDK error.
ProviderFails(c) ==
  /\ call[c].pc = "stream"
  /\ \E e \in {"retryable", "fatal"} : Set(c, "catch", e)
  /\ UNCHANGED <<modelRuns, dbFaults, walkedAway>>

\* finishRun(SUCCEEDED), then the terminal events
Accept(c) ==
  /\ call[c].pc = "accept"
  /\ Update(c, "SUCCEEDED")
  /\ Set(c, "answered", "none")
  /\ UNCHANGED <<dbFaults, walkedAway>>

\* The next pass of the loop: a new row, and emittedOutput is false again.
NextAttempt(c) ==
  [call[c] EXCEPT !.pc = "start", !.row = 0, !.text = 0, !.err = "none"]

\* finishRun(FAILED, STRUCTURED_OUTPUT_INVALID), then a repair if one is left
Reject(c) ==
  /\ call[c].pc = "reject"
  /\ Update(c, "FAILED")
  /\ IF call[c].repairs < Repairs(c)
     THEN call' = [call EXCEPT ![c] = [NextAttempt(c) EXCEPT !.repairs = @ + 1]]
     ELSE Set(c, "failed", "invalid")
  /\ UNCHANGED <<dbFaults, walkedAway>>

\* finishRun throws inside the try: its UPDATE was committed or not.
FinishFails(c) ==
  /\ call[c].pc \in {"accept", "reject"}
  /\ FaultLeft
  /\ dbFaults' = dbFaults + 1
  /\ \E e \in {"retryable", "fatal"} : Set(c, "catch", e)
  /\ \/ UNCHANGED modelRuns
     \/ Update(c, IF call[c].pc = "accept" THEN "SUCCEEDED" ELSE "FAILED")
  /\ UNCHANGED walkedAway

\* normalizeModelError: an external abort before a timeout before the error
\* itself.  The timer of the attempt may have fired at any time.
Catch(c, abort) ==
  /\ call[c].pc = "catch"
  /\ \E e \in IF abort THEN {"aborted"} ELSE {"retryable", call[c].err} :
       Set(c, "closing", e)
  /\ UNCHANGED <<modelRuns, dbFaults, walkedAway>>

\* Mutant of Retryable: output already sent does not matter.
RetryableAnyway(c, abort) ==
  /\ call[c].err = "retryable"
  /\ call[c].retries < Retries(c)
  /\ ~abort

\* Mutant of Retryable: one retry too many.
RetryableOnceMore(c, abort) ==
  /\ call[c].err = "retryable"
  /\ call[c].text = 0
  /\ call[c].retries <= Retries(c)
  /\ ~abort

\* emittedOutput is set by text, also by text kept back.
Retryable(c, abort) ==
  /\ call[c].err = "retryable"
  /\ call[c].text = 0
  /\ call[c].retries < Retries(c)
  /\ ~abort

\* Mutant of CloseRow: only the last attempt is closed.
CloseLast(c) ==
  IF call[c].row = 0 \/ Retryable(c, FALSE)
  THEN UNCHANGED modelRuns
  ELSE Update(c, IF call[c].err = "aborted" THEN "CANCELLED" ELSE "FAILED")

\* finishRun of the catch: nothing to do without a row
CloseRow(c) ==
  IF call[c].row = 0
  THEN UNCHANGED modelRuns
  ELSE Update(c, IF call[c].err = "aborted" THEN "CANCELLED" ELSE "FAILED")

\* The rest of the catch: close the row, then retry or report the error.
CloseFailed(c, abort) ==
  /\ call[c].pc = "closing"
  /\ call[c].row # 0 => Closable(c)
  /\ CloseRow(c)
  /\ IF Retryable(c, abort)
     THEN call' = [call EXCEPT ![c].pc = "delay", ![c].retries = @ + 1]
     ELSE Set(c, "failed", call[c].err)
  /\ UNCHANGED <<dbFaults, walkedAway>>

\* An error inside the catch leaves the generator: the row is in another
\* terminal state already, or the recorder fails.
CloseThrows(c) ==
  /\ call[c].pc = "closing"
  /\ call[c].row # 0
  /\ Set(c, "threw", call[c].err)
  /\ \/ /\ ~Closable(c)
        /\ UNCHANGED <<modelRuns, dbFaults>>
     \/ /\ FaultLeft
        /\ dbFaults' = dbFaults + 1
        /\ UNCHANGED modelRuns \/ (Closable(c) /\ CloseRow(c))
  /\ UNCHANGED walkedAway

\* abortableDelay
DelayOver(c, abort) ==
  /\ call[c].pc = "delay"
  /\ IF abort THEN Set(c, "failed", "aborted")
              ELSE call' = [call EXCEPT ![c] = NextAttempt(c)]
  /\ UNCHANGED <<modelRuns, dbFaults, walkedAway>>

\* A step of the generator between two pulls of its caller
GatewayStep(c, abort) ==
  \/ StartRun(c) \/ RefuseSecondDispatch(c) \/ StartRunFails(c)
  \/ Delta(c) \/ Completed(c) \/ ProviderFails(c)
  \/ Accept(c) \/ Reject(c) \/ FinishFails(c)
  \/ Catch(c, abort) \/ CloseFailed(c, abort) \/ CloseThrows(c)
  \/ DelayOver(c, abort)

HasOpenRow(c) ==
  Open(c) /\ call[c].row # 0 /\ modelRuns[call[c].row].status = "RUNNING"

\* The caller is done with the call, or left it: return() runs the finally
\* block only, and a process that dies runs nothing.
Leave(c) ==
  /\ call' = [call EXCEPT ![c] = NoCall]
  /\ walkedAway' = walkedAway + (IF HasOpenRow(c) THEN 1 ELSE 0)
  /\ UNCHANGED <<modelRuns, dbFaults>>

-----------------------------------------------------------------------------
(* What model_runs says is what happened.                                  *)

RowsOf(c) == {i \in 1..Len(modelRuns) : /\ modelRuns[i].trace = call[c].trace
                                        /\ modelRuns[i].key = call[c].key}

\* The caller has an answer exactly of a row that SUCCEEDED; a call that ended
\* with an error event has no such row.
AnswersAreRecorded ==
  \A c \in Callers :
    LET good == {i \in RowsOf(c) : modelRuns[i].status = "SUCCEEDED"}
    IN  /\ call[c].pc = "answered" => good = {call[c].row}
        /\ call[c].pc = "failed" => good = {}

\* The rows left RUNNING that no call is going to close
Orphans == {i \in 1..Len(modelRuns) :
              /\ modelRuns[i].status = "RUNNING"
              /\ \A c \in Callers : Open(c) => call[c].row # i}

\* Nothing reaps a row left RUNNING, so none is left without a reason: each
\* costs a database error or a caller that went away.
OrphansAreFaults == Cardinality(Orphans) <= dbFaults + walkedAway

\* The ledger of model calls, from which costs are reported, is true through
\* retries, repairs, timeouts, aborts, lost replies of the database and
\* crashes.  (streamWithAdapter, startAttempt, finishAttempt)
LedgerIsTrue == AnswersAreRecorded /\ OrphansAreFaults
=============================================================================
