------------------------ MODULE ExecutionLifecycle ------------------------
(***************************************************************************)
(* An execution from its acceptance by the API to the end of its last      *)
(* attempt: the row in PostgreSQL, the BullMQ job that carries it, the     *)
(* worker slots that process the job and the API requests that create,     *)
(* enqueue and manually retry it.                                          *)
(*                                                                         *)
(* Every database transaction is one step, every call to Redis or to a     *)
(* connector another, so that everything between two awaits of the code    *)
(* can interleave.  Faults (a worker crash, a lock lost by a stalled       *)
(* worker, a failed read, a transaction rolled back, an acknowledgement of *)
(* a commit lost, a failed or crashed enqueue) are steps of their own with *)
(* a budget.                                                               *)
(***************************************************************************)
EXTENDS ExecutionRules, FiniteSets

CONSTANTS
  Executions,        \* execution ids; the job id is a function of the execution id
  Slots,             \* concurrent processors over all worker processes
  Requests,          \* concurrent API requests
  FaultBudget,       \* bound: how often each kind of fault may happen
  MaxManualRetries,  \* bound: accepted manual retries of one execution
  MaxStalledCount,   \* BullMQ's maxStalledCount (the default, 1)
  None

FaultKinds == {"crash", "stall", "read", "rollback", "ack_lost", "enqueue"}

ASSUME LifecycleAssumption ==
  /\ FaultBudget \in [FaultKinds -> Nat]
  /\ MaxManualRetries \in Nat
  /\ MaxStalledCount \in Nat
  /\ None \notin Executions
  /\ None \notin Slots

VARIABLES
  status,      \* executions.status, Absent before the row exists
  attempts,    \* executions.attempts
  slot,        \* local state of the processor running in each slot
  job,         \* the BullMQ job of each execution
  request,     \* local state of each API request
  faults,      \* how many faults of each kind have happened
  manual,      \* how many manual retries of each execution were accepted
  runs,        \* history: how often each row was marked running
  completions  \* history: how often the engine finished an execution's workflow

rowVars == <<status, attempts, runs>>
historyVars == <<manual, completions>>
vars == <<status, attempts, slot, job, request, faults, manual, runs, completions>>

Absent == "absent"
Status == ExecutionStatus \cup {Absent}
Settled == {"succeeded", "failed", "dead_letter"}

(***************************************************************************)
(* A processor: "find" and "mark" are the two statements of the first      *)
(* transaction, "engine" the run of the workflow, "succeed", "retry",      *)
(* "dead_letter" and "fail" the transaction that settles the attempt,      *)
(* "alert" the failure notification; "returned" and "threw" are how        *)
(* process(job) ended, before BullMQ is told.  attempt is the stale copy   *)
(* of executions.attempts the code calls running.attempts.                 *)
(***************************************************************************)
Writes == {"mark", "succeed", "retry", "dead_letter", "fail"}
Owning == {"engine", "succeed", "retry", "dead_letter", "fail"}
PC == {"idle", "find", "engine", "alert", "returned", "threw"} \cup Writes

IdleSlot == [pc |-> "idle", exec |-> None, attempt |-> 0, run |-> 0]
NoJob == [state |-> "none", made |-> 0, stalls |-> 0, owner |-> None]
WaitingJob == [state |-> "waiting", made |-> 0, stalls |-> 0, owner |-> None]
IdleRequest == [pc |-> "idle", exec |-> None]

SlotState ==
  [pc : PC, exec : Executions \cup {None}, attempt : 0..MaxAttempts, run : Nat]
JobState ==
  [state : {"none", "waiting", "active", "completed", "failed"},
   made : 0..MaxAttempts, stalls : 0..MaxStalledCount, owner : Slots \cup {None}]
RequestState ==
  [pc : {"idle", "remove", "add"}, exec : Executions \cup {None}]

\* Every variable keeps its type; the counters of a job and of an attempt keep their bounds.
TypeOK ==
  /\ status \in [Executions -> Status]
  /\ attempts \in [Executions -> 0..MaxAttempts]
  /\ slot \in [Slots -> SlotState]
  /\ job \in [Executions -> JobState]
  /\ request \in [Requests -> RequestState]
  /\ faults \in [FaultKinds -> Nat]
  /\ manual \in [Executions -> Nat]
  /\ runs \in [Executions -> Nat]
  /\ completions \in [Executions -> Nat]

Init ==
  /\ status = [e \in Executions |-> Absent]
  /\ attempts = [e \in Executions |-> 0]
  /\ slot = [s \in Slots |-> IdleSlot]
  /\ job = [e \in Executions |-> NoJob]
  /\ request = [r \in Requests |-> IdleRequest]
  /\ faults = [k \in FaultKinds |-> 0]
  /\ manual = [e \in Executions |-> 0]
  /\ runs = [e \in Executions |-> 0]
  /\ completions = [e \in Executions |-> 0]

Fault(k) ==
  /\ faults[k] < FaultBudget[k]
  /\ faults' = [faults EXCEPT ![k] = @ + 1]

Goto(s, p) == slot' = [slot EXCEPT ![s].pc = p]

---------------------------------------------------------------------------
(***************************************************************************)
(* The execution repository: the status each conditional update requires   *)
(* in its WHERE clause and the status it writes.                           *)
(***************************************************************************)

\* Seeded regression: an execution that is running may be marked running again.
GuardWithoutRunningCheck ==
  [mark |-> {"queued", "retrying", "running"}, succeed |-> {"running"}, retry |-> {"running"},
   dead_letter |-> {"running", "failed", "retrying"}, fail |-> {"running"}]

StatusGuard ==
  [mark        |-> {"queued", "retrying"},
   succeed     |-> {"running"},
   retry       |-> {"running"},
   dead_letter |-> {"running", "failed", "retrying"},
   fail        |-> {"running"}]

StatusWritten ==
  [mark |-> "running", succeed |-> "succeeded", retry |-> "retrying",
   dead_letter |-> "dead_letter", fail |-> "failed"]

\* The row after the conditional update of step p matched it.
RowWritten(e, p) ==
  /\ status[e] \in StatusGuard[p]
  /\ status' = [status EXCEPT ![e] = StatusWritten[p]]
  /\ attempts' = IF p = "mark" THEN [attempts EXCEPT ![e] = @ + 1] ELSE attempts
  /\ runs' = IF p = "mark" THEN [runs EXCEPT ![e] = @ + 1] ELSE runs

\* Where the catch block of execute() continues with a processing error.
SettleStep(err, attempt) ==
  IF ShouldRetry(err, attempt) THEN "retry"
  ELSE IF IsRetryableExecutionError(err) THEN "dead_letter"
  ELSE "fail"

\* Where a processor continues when the transaction of its step threw err: only the
\* transaction that marks success stands inside the try block.
AfterThrow(s, err) ==
  IF slot[s].pc = "succeed" THEN SettleStep(err, slot[s].attempt) ELSE "threw"

(***************************************************************************)
(* Processing one job.                                                     *)
(***************************************************************************)

\* BullMQ hands a waiting job to a free slot and locks it with the slot's token.
Fetch(s, e) ==
  /\ slot[s].pc = "idle"
  /\ job[e].state = "waiting"
  /\ job' = [job EXCEPT ![e].state = "active", ![e].owner = s]
  /\ slot' = [slot EXCEPT ![s] = [pc |-> "find", exec |-> e, attempt |-> 0, run |-> 0]]
  /\ UNCHANGED <<rowVars, request, faults, historyVars>>

FindExecution(s) ==
  /\ slot[s].pc = "find"
  /\ Goto(s, IF status[slot[s].exec] \in {"queued", "retrying"} THEN "mark" ELSE "threw")
  /\ UNCHANGED <<rowVars, job, request, faults, historyVars>>

MarkRunning(s) ==
  LET e == slot[s].exec IN
  /\ slot[s].pc = "mark"
  /\ RowWritten(e, "mark")
  /\ slot' = [slot EXCEPT ![s] = [pc |-> "engine", exec |-> e,
                                  attempt |-> attempts'[e], run |-> runs'[e]]]
  /\ UNCHANGED <<job, request, faults, historyVars>>

\* The workflow ran to its end.
EngineSucceeds(s) ==
  /\ slot[s].pc = "engine"
  /\ Goto(s, "succeed")
  /\ completions' = [completions EXCEPT ![slot[s].exec] = @ + 1]
  /\ UNCHANGED <<rowVars, job, request, faults, manual>>

\* A step of the workflow failed.
EngineFails(s) ==
  /\ slot[s].pc = "engine"
  /\ \E err \in ErrorClass : Goto(s, SettleStep(err, slot[s].attempt))
  /\ UNCHANGED <<rowVars, job, request, faults, historyVars>>

\* The workflow is gone or no longer published: failExecution outside the try block.
WorkflowUnavailable(s) ==
  /\ slot[s].pc = "engine"
  /\ Goto(s, "fail")
  /\ UNCHANGED <<rowVars, job, request, faults, historyVars>>

AfterSettling ==
  [succeed |-> "returned", retry |-> "threw", dead_letter |-> "alert", fail |-> "alert"]

SettleAttempt(s) ==
  /\ slot[s].pc \in Writes \ {"mark"}
  /\ RowWritten(slot[s].exec, slot[s].pc)
  /\ Goto(s, AfterSettling[slot[s].pc])
  /\ UNCHANGED <<job, request, faults, historyVars>>

\* The conditional update matched no row: the transaction throws not-ready.
UpdateMissed(s) ==
  /\ slot[s].pc \in Writes
  /\ status[slot[s].exec] \notin StatusGuard[slot[s].pc]
  /\ Goto(s, AfterThrow(s, NotReady))
  /\ UNCHANGED <<rowVars, job, request, faults, historyVars>>

\* The failure alert was sent or failed: its errors are swallowed.
SendFailureAlert(s) ==
  /\ slot[s].pc = "alert"
  /\ Goto(s, "returned")
  /\ UNCHANGED <<rowVars, job, request, faults, historyVars>>

\* Seeded regression: the producer's attempts option is one fewer than the worker's
\* maxAttempts.
DeliveriesLeftOneFewer(e) == job[e].made + 2 < MaxAttempts

\* The producer gives a job as many attempts as the row may have.
DeliveriesLeft(e) == job[e].made + 1 < MaxAttempts

\* BullMQ moves the job on when the processor ends, if the processor still holds its lock.
FinishJob(s) ==
  LET e == slot[s].exec IN
  /\ slot[s].pc \in {"returned", "threw"}
  /\ slot' = [slot EXCEPT ![s] = IdleSlot]
  /\ \/ /\ job[e].owner # s
        /\ UNCHANGED job
     \/ /\ job[e].owner = s
        /\ slot[s].pc = "returned"
        /\ job' = [job EXCEPT ![e].state = "completed", ![e].owner = None]
     \/ /\ job[e].owner = s
        /\ slot[s].pc = "threw"
        /\ job' = [job EXCEPT
             ![e].state = IF DeliveriesLeft(e) THEN "waiting" ELSE "failed",
             ![e].made = @ + 1,
             ![e].owner = None]
  /\ UNCHANGED <<rowVars, request, faults, historyVars>>

---------------------------------------------------------------------------
(***************************************************************************)
(* BullMQ's upkeep.                                                        *)
(***************************************************************************)

\* The processor that holds the lock of e's job is still at work on it.
HolderAlive(e) ==
  LET s == job[e].owner IN s # None /\ slot[s].pc # "idle" /\ slot[s].exec = e

\* A lock nobody renews expires: of a crashed worker, or (a fault) of a stalled one that
\* carries on without knowing.
LockExpires(e) ==
  /\ job[e].state = "active"
  /\ job[e].owner # None
  /\ IF HolderAlive(e) THEN Fault("stall") ELSE UNCHANGED faults
  /\ job' = [job EXCEPT ![e].owner = None]
  /\ UNCHANGED <<rowVars, slot, request, historyVars>>

\* The stalled check moves an active job without a lock back to wait, or fails it when that
\* has happened too often.
CheckStalled(e) ==
  /\ job[e].state = "active"
  /\ job[e].owner = None
  /\ job' = IF job[e].stalls < MaxStalledCount
            THEN [job EXCEPT ![e].state = "waiting", ![e].stalls = @ + 1]
            ELSE [job EXCEPT ![e].state = "failed"]
  /\ UNCHANGED <<rowVars, slot, request, faults, historyVars>>

\* removeOnComplete and removeOnFail drop a finished job once it is old.
EvictFinishedJob(e) ==
  /\ job[e].state \in {"completed", "failed"}
  /\ job' = [job EXCEPT ![e] = NoJob]
  /\ UNCHANGED <<rowVars, slot, request, faults, historyVars>>

(***************************************************************************)
(* The API: creating an execution, retrying one by hand, enqueueing.       *)
(***************************************************************************)

\* An ingestion transaction commits a new execution; its job is added afterwards.
CreateExecution(r, e) ==
  /\ request[r].pc = "idle"
  /\ status[e] = Absent
  /\ status' = [status EXCEPT ![e] = "queued"]
  /\ request' = [request EXCEPT ![r] = [pc |-> "add", exec |-> e]]
  /\ UNCHANGED <<attempts, runs, slot, job, faults, historyVars>>

\* Seeded regression: the reset of the attempt counter is forgotten.
RetryTransactionKeepingAttempts(r, e) ==
  /\ request[r].pc = "idle"
  /\ status[e] = "dead_letter"
  /\ manual[e] < MaxManualRetries
  /\ status' = [status EXCEPT ![e] = "queued"]
  /\ UNCHANGED attempts
  /\ manual' = [manual EXCEPT ![e] = @ + 1]
  /\ request' = [request EXCEPT ![r] = [pc |-> "remove", exec |-> e]]
  /\ UNCHANGED <<runs, slot, job, faults, completions>>

\* The transaction of a manual retry; the job is replaced afterwards.
RetryTransaction(r, e) ==
  /\ request[r].pc = "idle"
  /\ status[e] = "dead_letter"
  /\ manual[e] < MaxManualRetries
  /\ status' = [status EXCEPT ![e] = "queued"]
  /\ attempts' = [attempts EXCEPT ![e] = 0]
  /\ manual' = [manual EXCEPT ![e] = @ + 1]
  /\ request' = [request EXCEPT ![r] = [pc |-> "remove", exec |-> e]]
  /\ UNCHANGED <<runs, slot, job, faults, completions>>

\* replaceExisting: a locked job cannot be removed, and the failure is swallowed.
RemoveJob(r) ==
  LET e == request[r].exec IN
  /\ request[r].pc = "remove"
  /\ job' = IF job[e].owner = None THEN [job EXCEPT ![e] = NoJob] ELSE job
  /\ request' = [request EXCEPT ![r].pc = "add"]
  /\ UNCHANGED <<rowVars, slot, faults, historyVars>>

\* Adding a job whose id the queue still knows, in whatever state, is a no-op.
AddJob(r) ==
  LET e == request[r].exec IN
  /\ request[r].pc = "add"
  /\ job' = IF job[e].state = "none" THEN [job EXCEPT ![e] = WaitingJob] ELSE job
  /\ request' = [request EXCEPT ![r] = IdleRequest]
  /\ UNCHANGED <<rowVars, slot, faults, historyVars>>

---------------------------------------------------------------------------
(***************************************************************************)
(* Faults.                                                                 *)
(***************************************************************************)

\* The worker process dies: what the slot had not committed is lost, its lock stays.
CrashSlot(s) ==
  /\ slot[s].pc # "idle"
  /\ Fault("crash")
  /\ slot' = [slot EXCEPT ![s] = IdleSlot]
  /\ UNCHANGED <<rowVars, job, request, historyVars>>

\* Reading the execution or, when it is marked running already, its workflow fails: both
\* reads stand outside the try block.
ReadFails(s) ==
  /\ slot[s].pc \in {"find", "engine"}
  /\ Fault("read")
  /\ Goto(s, "threw")
  /\ UNCHANGED <<rowVars, job, request, historyVars>>

\* A transaction fails and is rolled back.
TransactionRollsBack(s) ==
  /\ slot[s].pc \in Writes
  /\ Fault("rollback")
  /\ Goto(s, AfterThrow(s, InternalFailure))
  /\ UNCHANGED <<rowVars, job, request, historyVars>>

\* A transaction commits and the processor is told it failed.
CommitUnacknowledged(s) ==
  /\ slot[s].pc \in Writes
  /\ Fault("ack_lost")
  /\ RowWritten(slot[s].exec, slot[s].pc)
  /\ Goto(s, AfterThrow(s, InternalFailure))
  /\ UNCHANGED <<job, request, historyVars>>

\* Removing or adding the job fails, or the API process dies after its commit.  A failed
\* removal is ignored, a failed addition is an error response.
EnqueueFails(r) ==
  /\ request[r].pc # "idle"
  /\ Fault("enqueue")
  /\ \/ request' = [request EXCEPT ![r] = IdleRequest]
     \/ /\ request[r].pc = "remove"
        /\ request' = [request EXCEPT ![r].pc = "add"]
  /\ UNCHANGED <<rowVars, slot, job, historyVars>>

---------------------------------------------------------------------------
ProcessorStep(s) ==
  \/ FindExecution(s)
  \/ MarkRunning(s)
  \/ EngineSucceeds(s)
  \/ EngineFails(s)
  \/ WorkflowUnavailable(s)
  \/ SettleAttempt(s)
  \/ UpdateMissed(s)
  \/ SendFailureAlert(s)
  \/ FinishJob(s)

RequestStep(r) == RemoveJob(r) \/ AddJob(r)

Next ==
  \/ \E s \in Slots : ProcessorStep(s)
  \/ \E s \in Slots :
       CrashSlot(s) \/ ReadFails(s) \/ TransactionRollsBack(s) \/ CommitUnacknowledged(s)
  \/ \E s \in Slots, e \in Executions : Fetch(s, e)
  \/ \E e \in Executions : LockExpires(e) \/ CheckStalled(e) \/ EvictFinishedJob(e)
  \/ \E r \in Requests : RequestStep(r) \/ EnqueueFails(r)
  \/ \E r \in Requests, e \in Executions : CreateExecution(r, e) \/ RetryTransaction(r, e)

Spec == Init /\ [][Next]_vars

---------------------------------------------------------------------------
(***************************************************************************)
(* Safety, under every fault.                                              *)
(***************************************************************************)

\* No two processors work on attempts of one execution at the same time, although a job may
\* be delivered again while the processor that lost its lock is still at work: the status
\* conditions of process-execution are the only thing that keeps them apart.
SingleOwner ==
  \A s, t \in Slots :
    slot[s].pc \in Owning /\ slot[t].pc \in Owning /\ slot[s].exec = slot[t].exec => s = t

\* What settles an attempt is the processor that started it: although no UPDATE names the
\* attempt, none ever writes the outcome of an earlier run over a later one.
NoStaleSettlement ==
  [][\A s \in Slots :
       LET e == slot[s].exec IN
       /\ slot[s].pc \in Owning
       /\ slot'[s] # slot[s]
       /\ status[e] = "running"
       /\ status'[e] # "running"
       => slot[s].run = runs[e] /\ slot[s].attempt = attempts[e]]_vars

\* A workflow is run to its end a second time only if a transaction failed in between:
\* redelivery, crashes, stalls and manual retries alone never repeat a completed run.
CompletesOnce ==
  \A e \in Executions : completions[e] <= 1 + faults["rollback"] + faults["ack_lost"]

\* Every change of a row's status is one the domain's transition table allows.
TransitionsFollowRules ==
  [][\A e \in Executions :
       status[e] # Absent /\ status'[e] # status[e]
         => status'[e] \in ExecutionTransitions[status[e]]]_vars

---------------------------------------------------------------------------
(***************************************************************************)
(* The inductive invariant behind the theorems of ExecutionLifecycleProofs.*)
(***************************************************************************)

\* An owning processor's copies are the row's, and the row is running, or succeeded without
\* the processor having heard of its commit.
OwnershipInv ==
  \A s \in Slots :
    /\ slot[s].pc # "idle" => slot[s].exec \in Executions
    /\ slot[s].pc \in Owning =>
         LET e == slot[s].exec IN
         /\ status[e] \in {"running", "succeeded"}
         /\ slot[s].attempt = attempts[e]
         /\ slot[s].run = runs[e]
    /\ slot[s].pc = "retry" => slot[s].attempt < MaxAttempts
    /\ slot[s].pc = "dead_letter" => slot[s].attempt = MaxAttempts

\* A row that may be marked running has an attempt left.
AttemptBudgetInv ==
  \A e \in Executions :
    /\ status[e] \in {Absent, "queued"} => attempts[e] = 0
    /\ status[e] = "retrying" => attempts[e] < MaxAttempts

\* Only an active job is locked, and a job that can still run has a delivery left.
JobInv ==
  \A e \in Executions :
    /\ job[e].owner # None => job[e].state = "active"
    /\ job[e].state \in {"waiting", "active"} => job[e].made < MaxAttempts

TransactionFaults == faults["rollback"] + faults["ack_lost"]

\* Whatever may still complete has completed at most once per failed transaction so far.
CompletionInv ==
  /\ \A e \in Executions :
       /\ completions[e] <= 1 + TransactionFaults
       /\ status[e] \in {Absent, "queued", "retrying", "dead_letter"}
            => completions[e] <= TransactionFaults
  /\ \A s \in Slots :
       slot[s].pc \in {"engine", "retry", "dead_letter"}
         => completions[slot[s].exec] <= TransactionFaults

IInv ==
  /\ TypeOK
  /\ OwnershipInv
  /\ SingleOwner
  /\ AttemptBudgetInv
  /\ JobInv
  /\ CompletionInv

---------------------------------------------------------------------------
(***************************************************************************)
(* The queue transfer, until something goes wrong.                         *)
(***************************************************************************)

\* Something is left that can still move e's execution on.
HasCarrier(e) ==
  \/ job[e].state \in {"waiting", "active"}
  \/ \E r \in Requests : request[r].exec = e
  \/ \E s \in Slots : slot[s].exec = e

\* An execution that is not settled has a job, a processor or a request that will settle it:
\* the queue transfer is durable.
NothingStranded ==
  \A e \in Executions : status[e] \in {"queued", "running", "retrying"} => HasCarrier(e)

\* The retry budget is counted twice, by the row (attempts) and by BullMQ (attemptsMade), and
\* the two agree: a row in retrying has a redelivery coming, and a job has none left exactly
\* when its row is exhausted.
RetryBudgetsAgree ==
  \A e \in Executions :
    /\ status[e] = "retrying" /\ (\A s \in Slots : slot[s].exec # e)
         => job[e].state = "waiting" /\ job[e].made = attempts[e]
    /\ status[e] = "running" => job[e].made + 1 = attempts[e]
    /\ job[e].state = "failed" => status[e] \in Settled

\* No fault has happened yet, and nothing was retried by hand.
Undisturbed ==
  (\A k \in FaultKinds : faults[k] = 0) /\ \A e \in Executions : manual[e] = 0

\* Until then the queue transfer is durable and the two budgets run out together: redelivery,
\* late settlements and retries alone never leave an execution behind.
TransferIsDurable == Undisturbed => NothingStranded /\ RetryBudgetsAgree

\* "Exhausted failures move the execution to dead-letter state" (docs/architecture.md): when
\* BullMQ gives a job up, its execution is settled.
ExhaustedJobIsSettled ==
  \A e \in Executions : job[e].state = "failed" => status[e] \in Settled

\* The rows behave as ExecutionContract says, whatever goes wrong underneath.
Contract == INSTANCE ExecutionContract WITH status <- status, attempts <- attempts
ImplementsContract == Contract!ContractSpec
=============================================================================
