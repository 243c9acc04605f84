--------------------- MODULE ExecutionLifecycleProofs ---------------------
(***************************************************************************)
(* Theorems about ExecutionLifecycle, and about AcceptedCalls, where the   *)
(* calls create its executions: for every set of executions, slots and     *)
(* requests, every retry budget and every fault budget.                    *)
(*                                                                         *)
(* The inductive invariant is IInv.  Most steps of a processor only move   *)
(* its control point: GotoPreserves deals with those once.                 *)
(***************************************************************************)
EXTENDS AcceptedCalls, TLAPS

USE MaxAttemptsAssumption, LifecycleAssumption

\* The catch block of process-execution schedules a retry only while attempts are left, and
\* dead-letters only the last attempt.
LEMMA SettleStepFacts ==
  ASSUME NEW err \in ErrorClass, NEW a \in 0..MaxAttempts
  PROVE  /\ SettleStep(err, a) \in {"retry", "dead_letter", "fail"}
         /\ SettleStep(err, a) = "retry" => a < MaxAttempts
         /\ SettleStep(err, a) = "dead_letter" => a = MaxAttempts
BY DEF SettleStep, ShouldRetry

LEMMA NotReadyFails == \A a \in 0..MaxAttempts : SettleStep(NotReady, a) = "fail"
BY DEF SettleStep, ShouldRetry, IsRetryableExecutionError, NotReady

LEMMA InternalFailureIsError == InternalFailure \in ErrorClass
BY DEF InternalFailure, ErrorClass

LEMMA InitIInv == Init => IInv
BY DEF Init, IInv, TypeOK, OwnershipInv, SingleOwner, AttemptBudgetInv, JobInv,
       CompletionInv, TransactionFaults, Status, ExecutionStatus, Absent, IdleSlot, NoJob,
       IdleRequest, SlotState, JobState, RequestState, PC, Writes, Owning, FaultKinds

\* A fault raises the count of its own kind by one and no other.
LEMMA FaultFacts ==
  ASSUME TypeOK, NEW k \in FaultKinds, Fault(k)
  PROVE  /\ faults' \in [FaultKinds -> Nat]
         /\ TransactionFaults \in Nat
         /\ TransactionFaults' \in Nat
         /\ TransactionFaults' = IF k \in {"rollback", "ack_lost"}
                                 THEN TransactionFaults + 1 ELSE TransactionFaults
BY DEF TypeOK, Fault, FaultKinds, TransactionFaults

\* A step that only moves the control point of one processor preserves the invariant if the
\* processor does not acquire an attempt, keeps to the attempt budget when it decides how to
\* settle, and reaches a point from which it may complete again only within the budget of
\* failed transactions.
LEMMA GotoPreserves ==
  ASSUME IInv, NEW s \in Slots, NEW p \in PC,
         slot[s].pc # "idle", Goto(s, p),
         UNCHANGED <<rowVars, job, request, historyVars>>,
         faults' \in [FaultKinds -> Nat],
         TransactionFaults' >= TransactionFaults,
         p \in Owning => slot[s].pc \in Owning,
         p = "retry" => slot[s].attempt < MaxAttempts,
         p = "dead_letter" => slot[s].attempt = MaxAttempts,
         p \in {"engine", "retry", "dead_letter"} =>
           completions[slot[s].exec] <= TransactionFaults'
  PROVE  IInv'
<1> USE DEF IInv
<1> DEFINE moved == [slot[s] EXCEPT !.pc = p]
<1>1. /\ slot \in [Slots -> SlotState]
      /\ slot' = [slot EXCEPT ![s] = moved]
      /\ slot' \in [Slots -> SlotState]
      /\ \A t \in Slots : slot'[t] = IF t = s THEN moved ELSE slot[t]
      /\ moved.pc = p /\ moved.exec = slot[s].exec
      /\ moved.attempt = slot[s].attempt /\ moved.run = slot[s].run
  BY DEF Goto, TypeOK, SlotState
<1> HIDE DEF moved
<1>2. TypeOK'
  BY <1>1 DEF TypeOK, rowVars, historyVars
<1>3. OwnershipInv'
  BY <1>1 DEF OwnershipInv, rowVars, Owning
<1>4. SingleOwner'
  BY <1>1 DEF SingleOwner
<1>5. AttemptBudgetInv' /\ JobInv'
  BY DEF AttemptBudgetInv, JobInv, rowVars
<1>6. CompletionInv'
  <2>1. TransactionFaults \in Nat /\ TransactionFaults' \in Nat
    BY DEF TypeOK, TransactionFaults, FaultKinds
  <2>2. /\ \A e \in Executions : completions'[e] = completions[e] /\ completions[e] \in Nat
        /\ status' = status
    BY DEF TypeOK, rowVars, historyVars
  <2>3. \A t \in Slots : slot[t].pc # "idle" => slot[t].exec \in Executions
    BY DEF OwnershipInv
  <2>4. /\ \A e \in Executions : completions[e] <= 1 + TransactionFaults
        /\ \A e \in Executions : status[e] \in {Absent, "queued", "retrying", "dead_letter"}
             => completions[e] <= TransactionFaults
        /\ \A t \in Slots : slot[t].pc \in {"engine", "retry", "dead_letter"}
             => completions[slot[t].exec] <= TransactionFaults
    BY DEF CompletionInv
  <2>5. \A e \in Executions :
          /\ completions'[e] <= 1 + TransactionFaults'
          /\ status'[e] \in {Absent, "queued", "retrying", "dead_letter"}
               => completions'[e] <= TransactionFaults'
    BY <2>1, <2>2, <2>4
  <2>6. \A t \in Slots : slot'[t].pc \in {"engine", "retry", "dead_letter"}
          => completions'[slot'[t].exec] <= TransactionFaults'
    BY <1>1, <2>1, <2>2, <2>3, <2>4
  <2> QED BY <2>5, <2>6 DEF CompletionInv
<1> QED BY <1>2, <1>3, <1>4, <1>5, <1>6

\* What the invariant says of the executions, unfolded once.
LEMMA CompletionFacts ==
  ASSUME IInv
  PROVE  /\ TransactionFaults \in Nat
         /\ \A e \in Executions : completions[e] \in Nat /\ runs[e] \in Nat
         /\ \A e \in Executions : completions[e] <= 1 + TransactionFaults
         /\ \A e \in Executions : status[e] \in {Absent, "queued", "retrying", "dead_letter"}
              => completions[e] <= TransactionFaults
         /\ \A t \in Slots : slot[t].pc \in {"engine", "retry", "dead_letter"}
              => completions[slot[t].exec] <= TransactionFaults
         /\ \A t \in Slots : slot[t].pc # "idle" => slot[t].exec \in Executions
BY DEF IInv, TypeOK, CompletionInv, TransactionFaults, FaultKinds, OwnershipInv

\* The transaction that settles an attempt: its processor owned a running row, so it was the
\* only one to.
LEMMA SettlingPreserves ==
  ASSUME IInv, NEW s \in Slots, NEW q \in PC,
         slot[s].pc \in Writes \ {"mark"}, q # "idle", q # "engine",
         RowWritten(slot[s].exec, slot[s].pc), Goto(s, q),
         UNCHANGED <<job, request, historyVars>>,
         faults' \in [FaultKinds -> Nat],
         TransactionFaults' \in Nat, TransactionFaults' >= TransactionFaults,
         q \in Owning => slot[s].pc = "succeed",
         q = "retry" => slot[s].attempt < MaxAttempts,
         q = "dead_letter" => slot[s].attempt = MaxAttempts,
         q \in {"retry", "dead_letter"} => completions[slot[s].exec] <= TransactionFaults'
  PROVE  IInv' /\ status[slot[s].exec] = "running"
<1> DEFINE e == slot[s].exec
           p == slot[s].pc
           moved == [pc |-> q, exec |-> e, attempt |-> slot[s].attempt, run |-> slot[s].run]
<1>1. /\ slot \in [Slots -> SlotState]
      /\ slot' \in [Slots -> SlotState]
      /\ \A t \in Slots : slot'[t] = IF t = s THEN moved ELSE slot[t]
      /\ e \in Executions
  BY DEF Goto, IInv, TypeOK, SlotState, OwnershipInv, Writes
<1>2. /\ p \in Owning
      /\ status[e] = "running"
      /\ slot[s].attempt = attempts[e]
      /\ slot[s].run = runs[e]
      /\ p = "retry" => slot[s].attempt < MaxAttempts
  BY DEF IInv, OwnershipInv, Owning, Writes, RowWritten, StatusGuard
<1>3. /\ status' = [status EXCEPT ![e] = StatusWritten[p]]
      /\ StatusWritten[p] \in {"succeeded", "retrying", "dead_letter", "failed"}
      /\ StatusWritten[p] = "retrying" => p = "retry"
      /\ StatusWritten[p] = "dead_letter" => p = "dead_letter"
      /\ p = "succeed" => StatusWritten[p] = "succeeded"
      /\ attempts' = attempts /\ runs' = runs
      /\ status \in [Executions -> Status]
  BY <1>2 DEF RowWritten, StatusWritten, Writes, IInv, TypeOK
<1>4. TypeOK'
  BY <1>1, <1>3 DEF IInv, TypeOK, historyVars, Status, ExecutionStatus
<1>5. \A t \in Slots : t # s /\ slot[t].pc \in Owning => slot[t].exec # e
  BY <1>2 DEF IInv, SingleOwner
<1>6. OwnershipInv'
  BY <1>1, <1>2, <1>3, <1>5 DEF IInv, OwnershipInv, Owning
<1>7. SingleOwner'
  BY <1>1, <1>2 DEF IInv, SingleOwner
<1>8. AttemptBudgetInv'
  BY <1>1, <1>2, <1>3 DEF IInv, AttemptBudgetInv, Absent
<1>9. JobInv'
  BY DEF IInv, JobInv
<1>10. CompletionInv'
  <2>1. completions' = completions
    BY DEF historyVars
  <2>2. status'[e] \in {Absent, "queued", "retrying", "dead_letter"}
          => completions[e] <= TransactionFaults
    BY <1>1, <1>2, <1>3, CompletionFacts DEF Absent
  <2> QED BY <1>1, <1>3, <2>1, <2>2, CompletionFacts DEF CompletionInv
<1> QED BY <1>2, <1>4, <1>6, <1>7, <1>8, <1>9, <1>10 DEF IInv

\* Marking a row running: it was queued or retrying, so no processor owned it.
LEMMA MarkingPreserves ==
  ASSUME IInv, NEW s \in Slots, slot[s].pc = "mark",
         RowWritten(slot[s].exec, "mark"),
         \/ slot' = [slot EXCEPT ![s] = [pc |-> "engine", exec |-> slot[s].exec,
              attempt |-> attempts'[slot[s].exec], run |-> runs'[slot[s].exec]]]
         \/ Goto(s, "threw"),
         UNCHANGED <<job, request, historyVars>>,
         faults' \in [FaultKinds -> Nat],
         TransactionFaults' \in Nat, TransactionFaults' >= TransactionFaults
  PROVE  IInv'
<1> DEFINE e == slot[s].exec
<1>1. /\ e \in Executions
      /\ status[e] \in {"queued", "retrying"}
      /\ status' = [status EXCEPT ![e] = "running"]
      /\ attempts' = [attempts EXCEPT ![e] = @ + 1]
      /\ runs' = [runs EXCEPT ![e] = @ + 1]
      /\ status \in [Executions -> Status]
      /\ attempts \in [Executions -> 0..MaxAttempts]
      /\ runs \in [Executions -> Nat]
      /\ slot \in [Slots -> SlotState]
  BY DEF IInv, OwnershipInv, TypeOK, RowWritten, StatusGuard, StatusWritten
<1>2. attempts[e] < MaxAttempts
  BY <1>1 DEF IInv, AttemptBudgetInv
<1>3. /\ attempts'[e] \in 0..MaxAttempts /\ attempts'[e] = attempts[e] + 1
      /\ runs'[e] \in Nat /\ runs'[e] = runs[e] + 1
      /\ attempts' \in [Executions -> 0..MaxAttempts]
      /\ runs' \in [Executions -> Nat]
      /\ status' \in [Executions -> Status]
  BY <1>1, <1>2 DEF Status, ExecutionStatus
<1>4. /\ slot' \in [Slots -> SlotState]
      /\ \A t \in Slots \ {s} : slot'[t] = slot[t]
      /\ slot'[s].exec = e
      /\ slot'[s].pc \in {"engine", "threw"}
      /\ slot'[s].pc = "engine" => /\ slot'[s].attempt = attempts'[e]
                                   /\ slot'[s].run = runs'[e]
  BY <1>1, <1>3 DEF Goto, SlotState, PC
<1> HIDE DEF e
<1>5. \A t \in Slots : slot[t].pc \in Owning => slot[t].exec # e
  BY <1>1 DEF IInv, OwnershipInv
<1>6. TypeOK'
  BY <1>3, <1>4 DEF IInv, TypeOK, historyVars
<1>7. OwnershipInv'
  BY <1>1, <1>4, <1>5 DEF IInv, OwnershipInv, Owning
<1>8. SingleOwner'
  BY <1>4, <1>5 DEF IInv, SingleOwner
<1>9. AttemptBudgetInv'
  BY <1>1 DEF IInv, AttemptBudgetInv, Absent
<1>10. JobInv'
  BY DEF IInv, JobInv
<1>11. CompletionInv'
  <2>1. completions' = completions
    BY DEF historyVars
  <2>2. completions[e] <= TransactionFaults
    BY <1>1, CompletionFacts
  <2> QED BY <1>1, <1>4, <2>1, <2>2, CompletionFacts DEF CompletionInv
<1> QED BY <1>6, <1>7, <1>8, <1>9, <1>10, <1>11 DEF IInv

\* A step of the queue or of a request that leaves the rows, the processors and the fault
\* counts of transactions alone.
LEMMA QueueStepPreserves ==
  ASSUME IInv, UNCHANGED <<rowVars, slot, historyVars>>,
         job' \in [Executions -> JobState], JobInv',
         request' \in [Requests -> RequestState],
         faults' \in [FaultKinds -> Nat], TransactionFaults' = TransactionFaults
  PROVE  IInv'
<1>1. TypeOK'
  BY DEF IInv, TypeOK, rowVars, historyVars
<1>2. OwnershipInv' /\ SingleOwner' /\ AttemptBudgetInv'
  BY DEF IInv, OwnershipInv, SingleOwner, AttemptBudgetInv, rowVars
<1>3. CompletionInv'
  BY DEF IInv, CompletionInv, rowVars, historyVars
<1> QED BY <1>1, <1>2, <1>3 DEF IInv

---------------------------------------------------------------------------
\* A processor's own steps preserve the invariant.
LEMMA ProcessorStepPreserves ==
  ASSUME IInv, NEW s \in Slots, ProcessorStep(s)
  PROVE  IInv'
<1>1. /\ slot[s] \in SlotState
      /\ slot[s].attempt \in 0..MaxAttempts
      /\ slot[s].pc # "idle" => slot[s].exec \in Executions
      /\ faults \in [FaultKinds -> Nat]
      /\ TransactionFaults \in Nat
  BY DEF IInv, TypeOK, SlotState, OwnershipInv, TransactionFaults, FaultKinds
<1>2. UNCHANGED faults =>
        faults' \in [FaultKinds -> Nat] /\ TransactionFaults' = TransactionFaults
  BY <1>1 DEF TransactionFaults
<1>3. CASE FindExecution(s)
  <2> DEFINE p == IF status[slot[s].exec] \in {"queued", "retrying"} THEN "mark" ELSE "threw"
  <2>1. p \in PC /\ p \notin Owning
    BY DEF PC, Writes, Owning
  <2>2. /\ slot[s].pc # "idle" /\ Goto(s, p)
        /\ UNCHANGED <<rowVars, job, request, historyVars>> /\ UNCHANGED faults
    BY <1>3 DEF FindExecution
  <2> QED BY <1>1, <1>2, <2>1, <2>2, GotoPreserves DEF Owning
<1>4. CASE MarkRunning(s)
  <2>1. /\ slot[s].pc = "mark" /\ RowWritten(slot[s].exec, "mark")
        /\ slot' = [slot EXCEPT ![s] = [pc |-> "engine", exec |-> slot[s].exec,
             attempt |-> attempts'[slot[s].exec], run |-> runs'[slot[s].exec]]]
        /\ UNCHANGED <<job, request, historyVars>> /\ UNCHANGED faults
    BY <1>4 DEF MarkRunning
  <2>2. /\ faults' \in [FaultKinds -> Nat]
        /\ TransactionFaults' \in Nat /\ TransactionFaults' >= TransactionFaults
    BY <1>1, <1>2, <2>1
  <2> QED BY <2>1, <2>2, MarkingPreserves
<1>5. CASE EngineSucceeds(s)
  <2> DEFINE e == slot[s].exec
  <2>1. /\ e \in Executions
        /\ status[e] \in {"running", "succeeded"}
        /\ completions[e] <= TransactionFaults
        /\ completions' = [completions EXCEPT ![e] = @ + 1]
        /\ UNCHANGED <<rowVars, job, request, faults, manual>>
        /\ slot' = [slot EXCEPT ![s].pc = "succeed"]
        /\ slot[s].pc = "engine"
    BY <1>1, <1>5, CompletionFacts DEF EngineSucceeds, Goto, IInv, OwnershipInv, Owning
  <2>2. /\ slot' \in [Slots -> SlotState]
        /\ \A t \in Slots \ {s} : slot'[t] = slot[t]
        /\ slot'[s].pc = "succeed" /\ slot'[s].exec = e
        /\ slot'[s].attempt = slot[s].attempt /\ slot'[s].run = slot[s].run
        /\ completions' \in [Executions -> Nat]
        /\ completions'[e] = completions[e] + 1
        /\ \A f \in Executions \ {e} : completions'[f] = completions[f]
    BY <2>1 DEF IInv, TypeOK, SlotState, PC, Writes
  <2> HIDE DEF e
  <2>3. TypeOK'
    BY <2>1, <2>2 DEF IInv, TypeOK, rowVars
  <2>4. OwnershipInv' /\ SingleOwner'
    BY <2>1, <2>2 DEF IInv, OwnershipInv, SingleOwner, rowVars, Owning
  <2>5. AttemptBudgetInv' /\ JobInv'
    BY <2>1 DEF IInv, AttemptBudgetInv, JobInv, rowVars
  <2>6. \A t \in Slots : slot[t].pc \in {"engine", "retry", "dead_letter"} /\ t # s
          => slot[t].exec # e
    BY <2>1 DEF IInv, SingleOwner, Owning, e
  <2>7. CompletionInv'
    BY <1>2, <2>1, <2>2, <2>6, CompletionFacts DEF CompletionInv, rowVars, Absent
  <2> QED BY <2>3, <2>4, <2>5, <2>7 DEF IInv
<1>6. CASE EngineFails(s)
  <2>1. PICK err \in ErrorClass : Goto(s, SettleStep(err, slot[s].attempt))
    BY <1>6 DEF EngineFails
  <2> DEFINE p == SettleStep(err, slot[s].attempt)
  <2>2. /\ p \in {"retry", "dead_letter", "fail"}
        /\ p = "retry" => slot[s].attempt < MaxAttempts
        /\ p = "dead_letter" => slot[s].attempt = MaxAttempts
    BY <1>1, SettleStepFacts
  <2>3. /\ slot[s].pc = "engine" /\ Goto(s, p)
        /\ UNCHANGED <<rowVars, job, request, historyVars>> /\ UNCHANGED faults
    BY <1>6, <2>1 DEF EngineFails
  <2>4. completions[slot[s].exec] <= TransactionFaults
    BY <2>3, CompletionFacts
  <2> HIDE DEF p
  <2>5. p \in PC /\ (p \in Owning => slot[s].pc \in Owning)
    BY <2>2, <2>3 DEF PC, Writes, Owning
  <2> QED BY <1>1, <1>2, <2>2, <2>3, <2>4, <2>5, GotoPreserves
<1>7. CASE WorkflowUnavailable(s)
  <2>1. /\ slot[s].pc = "engine" /\ Goto(s, "fail")
        /\ UNCHANGED <<rowVars, job, request, historyVars>> /\ UNCHANGED faults
    BY <1>7 DEF WorkflowUnavailable
  <2>2. "fail" \in PC /\ slot[s].pc \in Owning
    BY <2>1 DEF PC, Writes, Owning
  <2> QED BY <1>1, <1>2, <2>1, <2>2, GotoPreserves
<1>8. CASE SettleAttempt(s)
  <2> DEFINE q == AfterSettling[slot[s].pc]
  <2>1. q \in {"returned", "threw", "alert"}
    BY <1>8 DEF SettleAttempt, AfterSettling, Writes
  <2>2. q \in PC /\ q \notin Owning
    BY <2>1 DEF PC, Owning
  <2>3. /\ slot[s].pc \in Writes \ {"mark"} /\ Goto(s, q)
        /\ RowWritten(slot[s].exec, slot[s].pc)
        /\ UNCHANGED <<job, request, historyVars>> /\ UNCHANGED faults
    BY <1>8 DEF SettleAttempt
  <2> HIDE DEF q
  <2> QED BY <1>1, <1>2, <2>1, <2>2, <2>3, SettlingPreserves
<1>9. CASE UpdateMissed(s)
  <2> DEFINE p == AfterThrow(s, NotReady)
  <2>1. p = IF slot[s].pc = "succeed" THEN "fail" ELSE "threw"
    BY <1>1, NotReadyFails DEF AfterThrow
  <2>2. /\ slot[s].pc \in Writes /\ Goto(s, p)
        /\ UNCHANGED <<rowVars, job, request, historyVars>> /\ UNCHANGED faults
    BY <1>9 DEF UpdateMissed
  <2> HIDE DEF p
  <2>3. p \in PC /\ (p \in Owning => slot[s].pc \in Owning) /\ slot[s].pc # "idle"
    BY <2>1, <2>2 DEF PC, Writes, Owning
  <2> QED BY <1>1, <1>2, <2>1, <2>2, <2>3, GotoPreserves
<1>10. CASE SendFailureAlert(s)
  <2>1. /\ slot[s].pc = "alert" /\ Goto(s, "returned")
        /\ UNCHANGED <<rowVars, job, request, historyVars>> /\ UNCHANGED faults
    BY <1>10 DEF SendFailureAlert
  <2>2. "returned" \in PC /\ "returned" \notin Owning
    BY DEF PC, Owning
  <2> QED BY <1>1, <1>2, <2>1, <2>2, GotoPreserves
<1>11. CASE FinishJob(s)
  <2> DEFINE e == slot[s].exec
  <2>1. /\ e \in Executions
        /\ slot' = [slot EXCEPT ![s] = IdleSlot]
        /\ UNCHANGED <<rowVars, request, faults, historyVars>>
        /\ job \in [Executions -> JobState]
        /\ slot \in [Slots -> SlotState]
        /\ IdleSlot \in SlotState
    BY <1>1, <1>11 DEF FinishJob, IInv, TypeOK, IdleSlot, SlotState, PC
  <2>2. job' \in [Executions -> JobState] /\ JobInv'
    BY <1>11, <2>1 DEF FinishJob, DeliveriesLeft, IInv, JobInv, JobState
  <2>3. TypeOK'
    BY <2>1, <2>2 DEF IInv, TypeOK, rowVars, historyVars
  <2>4. /\ \A t \in Slots \ {s} : slot'[t] = slot[t]
        /\ slot'[s].pc = "idle"
    BY <2>1 DEF IdleSlot
  <2>5. OwnershipInv' /\ SingleOwner' /\ AttemptBudgetInv'
    BY <2>1, <2>4 DEF IInv, OwnershipInv, SingleOwner, AttemptBudgetInv, rowVars, Owning
  <2>6. CompletionInv'
    BY <1>2, <2>1, <2>4 DEF IInv, CompletionInv, rowVars, historyVars
  <2> QED BY <2>2, <2>3, <2>5, <2>6 DEF IInv
<1> QED BY <1>3, <1>4, <1>5, <1>6, <1>7, <1>8, <1>9, <1>10, <1>11 DEF ProcessorStep

\* BullMQ's upkeep preserves the invariant.
LEMMA QueueStepsPreserve ==
  ASSUME IInv, NEW e \in Executions,
         LockExpires(e) \/ CheckStalled(e) \/ EvictFinishedJob(e)
  PROVE  IInv'
<1>1. /\ UNCHANGED <<rowVars, slot, historyVars>> /\ UNCHANGED request
      /\ job \in [Executions -> JobState]
      /\ request \in [Requests -> RequestState]
      /\ faults \in [FaultKinds -> Nat]
  BY DEF LockExpires, CheckStalled, EvictFinishedJob, IInv, TypeOK
<1>2. job' \in [Executions -> JobState] /\ JobInv'
  BY <1>1 DEF LockExpires, CheckStalled, EvictFinishedJob, IInv, JobInv, JobState, NoJob
<1>3. faults' \in [FaultKinds -> Nat] /\ TransactionFaults' = TransactionFaults
  <2>1. CASE UNCHANGED faults
    BY <1>1, <2>1 DEF TransactionFaults
  <2>2. CASE Fault("stall")
    BY <2>2, FaultFacts DEF FaultKinds, IInv
  <2> QED BY <2>1, <2>2 DEF LockExpires, CheckStalled, EvictFinishedJob
<1> QED BY <1>1, <1>2, <1>3, QueueStepPreserves

\* A worker fetching a job preserves the invariant.
LEMMA FetchPreserves ==
  ASSUME IInv, NEW s \in Slots, NEW e \in Executions, Fetch(s, e)
  PROVE  IInv'
<1>1. /\ slot' = [slot EXCEPT ![s] = [pc |-> "find", exec |-> e, attempt |-> 0, run |-> 0]]
      /\ job' = [job EXCEPT ![e].state = "active", ![e].owner = s]
      /\ job[e].state = "waiting"
      /\ UNCHANGED <<rowVars, request, faults, historyVars>>
      /\ job \in [Executions -> JobState]
      /\ slot \in [Slots -> SlotState]
  BY DEF Fetch, IInv, TypeOK
<1>2. /\ slot' \in [Slots -> SlotState]
      /\ \A t \in Slots \ {s} : slot'[t] = slot[t]
      /\ slot'[s].pc = "find" /\ slot'[s].exec = e
  BY <1>1 DEF SlotState, PC
<1>3. job' \in [Executions -> JobState] /\ JobInv'
  BY <1>1 DEF IInv, JobInv, JobState
<1>4. TypeOK'
  BY <1>1, <1>2, <1>3 DEF IInv, TypeOK, rowVars, historyVars
<1>5. OwnershipInv' /\ SingleOwner' /\ AttemptBudgetInv'
  BY <1>1, <1>2 DEF IInv, OwnershipInv, SingleOwner, AttemptBudgetInv, rowVars, Owning
<1>6. CompletionInv'
  BY <1>1, <1>2 DEF IInv, CompletionInv, rowVars, historyVars, TransactionFaults
<1> QED BY <1>3, <1>4, <1>5, <1>6 DEF IInv

\* The API's steps preserve the invariant.
LEMMA RequestStepsPreserve ==
  ASSUME IInv, NEW r \in Requests, RequestStep(r) \/ EnqueueFails(r)
  PROVE  IInv'
<1>1. /\ UNCHANGED <<rowVars, slot, historyVars>>
      /\ job \in [Executions -> JobState]
      /\ request \in [Requests -> RequestState]
      /\ faults \in [FaultKinds -> Nat]
  BY DEF RequestStep, RemoveJob, AddJob, EnqueueFails, IInv, TypeOK
<1>2. request' \in [Requests -> RequestState]
  BY <1>1 DEF RequestStep, RemoveJob, AddJob, EnqueueFails, RequestState, IdleRequest
<1>3. job' \in [Executions -> JobState] /\ JobInv'
  BY <1>1 DEF RequestStep, RemoveJob, AddJob, EnqueueFails, IInv, JobInv, JobState, NoJob,
              WaitingJob
<1>4. faults' \in [FaultKinds -> Nat] /\ TransactionFaults' = TransactionFaults
  <2>1. CASE UNCHANGED faults
    BY <1>1, <2>1 DEF TransactionFaults
  <2>2. CASE Fault("enqueue")
    BY <2>2, FaultFacts DEF FaultKinds, IInv
  <2> QED BY <2>1, <2>2 DEF RequestStep, RemoveJob, AddJob, EnqueueFails
<1> QED BY <1>1, <1>2, <1>3, <1>4, QueueStepPreserves

\* A row that becomes queued is owned by no processor.
LEMMA QueueingPreserves ==
  ASSUME IInv, NEW e \in Executions, status[e] \in {Absent, "dead_letter"},
         status' = [status EXCEPT ![e] = "queued"],
         attempts' \in {attempts, [attempts EXCEPT ![e] = 0]},
         status[e] = Absent \/ attempts'[e] = 0,
         UNCHANGED <<runs, slot, job, faults, completions>>,
         request' \in [Requests -> RequestState], manual' \in [Executions -> Nat]
  PROVE  IInv'
<1>1. /\ status \in [Executions -> Status]
      /\ attempts \in [Executions -> 0..MaxAttempts]
  BY DEF IInv, TypeOK
<1>2. /\ attempts' \in [Executions -> 0..MaxAttempts]
      /\ attempts'[e] = 0
      /\ \A f \in Executions \ {e} : attempts'[f] = attempts[f]
  BY <1>1 DEF IInv, AttemptBudgetInv
<1>3. TypeOK'
  <2>1. status' \in [Executions -> Status]
    BY <1>1 DEF Status, ExecutionStatus
  <2> QED BY <1>1, <1>2, <2>1 DEF IInv, TypeOK
<1>4. \A t \in Slots : slot[t].pc \in Owning => slot[t].exec # e
  BY <1>1 DEF IInv, OwnershipInv, Absent
<1>5. OwnershipInv' /\ SingleOwner'
  BY <1>1, <1>2, <1>4 DEF IInv, OwnershipInv, SingleOwner, Owning
<1>6. AttemptBudgetInv' /\ JobInv'
  BY <1>1, <1>2 DEF IInv, AttemptBudgetInv, JobInv, Absent
<1>7. CompletionInv'
  BY <1>1 DEF IInv, CompletionInv, TransactionFaults
<1> QED BY <1>3, <1>5, <1>6, <1>7 DEF IInv

\* Accepting an execution and retrying a dead-lettered one preserve the invariant.
LEMMA TransactionsPreserve ==
  ASSUME IInv, NEW r \in Requests, NEW e \in Executions,
         CreateExecution(r, e) \/ RetryTransaction(r, e)
  PROVE  IInv'
<1>1. /\ status[e] \in {Absent, "dead_letter"}
      /\ status' = [status EXCEPT ![e] = "queued"]
      /\ UNCHANGED <<runs, slot, job, faults, completions>>
      /\ attempts' \in {attempts, [attempts EXCEPT ![e] = 0]}
      /\ status[e] = Absent \/ attempts'[e] = 0
  BY DEF CreateExecution, RetryTransaction, IInv, TypeOK, historyVars
<1>2. manual' \in [Executions -> Nat]
  BY DEF CreateExecution, RetryTransaction, IInv, TypeOK, historyVars
<1>3. request' \in [Requests -> RequestState]
  BY DEF CreateExecution, RetryTransaction, IInv, TypeOK, RequestState
<1> QED BY <1>1, <1>2, <1>3, QueueingPreserves

\* A crash, a failed read, a rolled back transaction and a lost acknowledgement preserve the invariant.
LEMMA FaultsPreserve ==
  ASSUME IInv, NEW s \in Slots,
         CrashSlot(s) \/ ReadFails(s) \/ TransactionRollsBack(s) \/ CommitUnacknowledged(s)
  PROVE  IInv'
<1>1. /\ slot[s].attempt \in 0..MaxAttempts
      /\ slot[s].pc # "idle" => slot[s].exec \in Executions
  BY DEF IInv, TypeOK, SlotState, OwnershipInv
<1> DEFINE p == AfterThrow(s, InternalFailure)
<1>2. /\ p \in PC /\ p # "idle" /\ p # "engine"
      /\ p \in Owning => slot[s].pc = "succeed"
      /\ p = "retry" => slot[s].attempt < MaxAttempts
      /\ p = "dead_letter" => slot[s].attempt = MaxAttempts
  BY <1>1, SettleStepFacts, InternalFailureIsError DEF AfterThrow, PC, Writes, Owning
<1> HIDE DEF p
<1>3. CASE CrashSlot(s)
  <2>1. /\ slot' = [slot EXCEPT ![s] = IdleSlot]
        /\ UNCHANGED <<rowVars, job, request, historyVars>>
        /\ IdleSlot \in SlotState
        /\ slot \in [Slots -> SlotState]
    BY <1>3 DEF CrashSlot, IInv, TypeOK, IdleSlot, SlotState, PC
  <2>2. /\ \A t \in Slots \ {s} : slot'[t] = slot[t]
        /\ slot'[s].pc = "idle"
    BY <2>1 DEF IdleSlot
  <2>3. faults' \in [FaultKinds -> Nat] /\ TransactionFaults' = TransactionFaults
    BY <1>3, FaultFacts DEF CrashSlot, FaultKinds, IInv
  <2>4. TypeOK'
    BY <2>1, <2>3 DEF IInv, TypeOK, rowVars, historyVars
  <2>5. OwnershipInv' /\ SingleOwner' /\ AttemptBudgetInv' /\ JobInv'
    BY <2>1, <2>2 DEF IInv, OwnershipInv, SingleOwner, AttemptBudgetInv, JobInv, rowVars,
                      Owning
  <2>6. CompletionInv'
    BY <2>1, <2>2, <2>3 DEF IInv, CompletionInv, rowVars, historyVars
  <2> QED BY <2>4, <2>5, <2>6 DEF IInv
<1>4. CASE TransactionRollsBack(s)
  <2>1. /\ slot[s].pc \in Writes /\ Goto(s, p) /\ Fault("rollback")
        /\ UNCHANGED <<rowVars, job, request, historyVars>>
    BY <1>4 DEF TransactionRollsBack, p
  <2>2. /\ faults' \in [FaultKinds -> Nat]
        /\ TransactionFaults \in Nat /\ TransactionFaults' = TransactionFaults + 1
    BY <2>1, FaultFacts DEF FaultKinds, IInv
  <2>3. /\ slot[s].pc # "idle"
        /\ completions[slot[s].exec] <= TransactionFaults'
        /\ p \in Owning => slot[s].pc \in Owning
    BY <1>1, <1>2, <2>1, <2>2, CompletionFacts DEF Writes, Owning
  <2> QED BY <1>2, <2>1, <2>2, <2>3, GotoPreserves
<1>5. CASE CommitUnacknowledged(s)
  <2>1. /\ slot[s].pc \in Writes /\ Goto(s, p) /\ Fault("ack_lost")
        /\ RowWritten(slot[s].exec, slot[s].pc)
        /\ UNCHANGED <<job, request, historyVars>>
    BY <1>5 DEF CommitUnacknowledged, p
  <2>2. /\ faults' \in [FaultKinds -> Nat]
        /\ TransactionFaults \in Nat /\ TransactionFaults' = TransactionFaults + 1
    BY <2>1, FaultFacts DEF FaultKinds, IInv
  <2>3. CASE slot[s].pc = "mark"
    <3>1. p = "threw"
      BY <2>3 DEF p, AfterThrow
    <3> QED BY <2>1, <2>2, <2>3, <3>1, MarkingPreserves
  <2>4. CASE slot[s].pc # "mark"
    <3>1. completions[slot[s].exec] <= TransactionFaults'
      BY <1>1, <2>1, <2>2, CompletionFacts DEF Writes
    <3> QED BY <1>2, <2>1, <2>2, <2>4, <3>1, SettlingPreserves
  <2> QED BY <2>3, <2>4
<1>6. CASE ReadFails(s)
  <2>1. /\ slot[s].pc # "idle" /\ Goto(s, "threw") /\ Fault("read")
        /\ UNCHANGED <<rowVars, job, request, historyVars>>
    BY <1>6 DEF ReadFails
  <2>2. faults' \in [FaultKinds -> Nat] /\ TransactionFaults \in Nat
        /\ TransactionFaults' = TransactionFaults
    BY <2>1, FaultFacts DEF FaultKinds, IInv
  <2>3. "threw" \in PC /\ "threw" \notin Owning
    BY DEF PC, Owning
  <2> QED BY <2>1, <2>2, <2>3, GotoPreserves
<1> QED BY <1>3, <1>4, <1>5, <1>6

---------------------------------------------------------------------------
\* Every step of the lifecycle, faults included, preserves the inductive invariant.
LEMMA NextIInv == IInv /\ [Next]_vars => IInv'
<1> SUFFICES ASSUME IInv, [Next]_vars PROVE IInv'
  OBVIOUS
<1>1. CASE UNCHANGED vars
  BY <1>1 DEF vars, IInv, TypeOK, OwnershipInv, SingleOwner, AttemptBudgetInv, JobInv,
              CompletionInv, TransactionFaults
<1>2. CASE Next
  BY <1>2, ProcessorStepPreserves, FaultsPreserve, FetchPreserves, QueueStepsPreserve,
     RequestStepsPreserve, TransactionsPreserve DEF Next
<1> QED BY <1>1, <1>2

\* The inductive invariant holds in every reachable state of the lifecycle.
THEOREM InductiveInvariant == Spec => []IInv
BY InitIInv, NextIInv, PTL DEF Spec

\* Rows, processors, jobs and requests keep their types, and neither the row's attempts nor
\* the job's deliveries ever exceed EXECUTION_RETRY_MAX_ATTEMPTS.
THEOREM TypeCorrect == Spec => []TypeOK
<1>1. IInv => TypeOK
  BY DEF IInv
<1> QED BY <1>1, InductiveInvariant, PTL

\* However often a job is delivered, at most one processor works on an execution.
THEOREM OneProcessorPerExecution == Spec => []SingleOwner
<1>1. IInv => SingleOwner
  BY DEF IInv
<1> QED BY <1>1, InductiveInvariant, PTL

\* A workflow completes again only after a failed transaction.
THEOREM CompletionsBounded == Spec => []CompletesOnce
<1>1. IInv => CompletesOnce
  BY DEF IInv, CompletionInv, CompletesOnce, TransactionFaults, TypeOK, FaultKinds
<1> QED BY <1>1, InductiveInvariant, PTL

---------------------------------------------------------------------------
\* A step that writes a row is one of the contract's.
LEMMA RowWrittenImplements ==
  ASSUME IInv, NEW s \in Slots, slot[s].pc \in Writes, RowWritten(slot[s].exec, slot[s].pc)
  PROVE  Contract!ContractNext
<1> DEFINE e == slot[s].exec
           p == slot[s].pc
<1>1. /\ e \in Executions
      /\ status[e] \in StatusGuard[p]
      /\ status' = [status EXCEPT ![e] = StatusWritten[p]]
      /\ attempts \in [Executions -> 0..MaxAttempts]
      /\ p = "mark" => attempts' = [attempts EXCEPT ![e] = @ + 1]
      /\ p # "mark" => attempts' = attempts
  BY DEF IInv, TypeOK, OwnershipInv, Writes, RowWritten
<1>2. p # "mark" => status[e] = "running"
  BY <1>1 DEF IInv, OwnershipInv, Owning, Writes, StatusGuard
<1>3. CASE p = "mark"
  <2>1. /\ status[e] \in {"queued", "retrying"}
        /\ status' = [status EXCEPT ![e] = "running"]
        /\ attempts[e] < MaxAttempts
    BY <1>1, <1>3 DEF StatusGuard, StatusWritten, IInv, AttemptBudgetInv
  <2>2. Contract!Start(e)
    BY <1>1, <1>3, <2>1 DEF Contract!Start, Contract!Moves
  <2> QED BY <1>1, <2>2 DEF Contract!ContractNext
<1>4. CASE p = "succeed"
  <2>1. Contract!Succeed(e)
    BY <1>1, <1>2, <1>4 DEF Contract!Succeed, Contract!Moves, StatusWritten
  <2> QED BY <1>1, <2>1 DEF Contract!ContractNext
<1>5. CASE p = "retry"
  <2>1. attempts[e] < MaxAttempts
    BY <1>5 DEF IInv, OwnershipInv, Owning
  <2>2. Contract!ScheduleRetry(e)
    BY <1>1, <1>2, <1>5, <2>1 DEF Contract!ScheduleRetry, Contract!Moves, StatusWritten
  <2> QED BY <1>1, <2>2 DEF Contract!ContractNext
<1>6. CASE p = "dead_letter"
  <2>1. attempts[e] = MaxAttempts
    BY <1>6 DEF IInv, OwnershipInv, Owning
  <2>2. Contract!DeadLetter(e)
    BY <1>1, <1>2, <1>6, <2>1 DEF Contract!DeadLetter, Contract!Moves, StatusWritten
  <2> QED BY <1>1, <2>2 DEF Contract!ContractNext
<1>7. CASE p = "fail"
  <2>1. Contract!Fail(e)
    BY <1>1, <1>2, <1>7 DEF Contract!Fail, Contract!Moves, StatusWritten
  <2> QED BY <1>1, <2>1 DEF Contract!ContractNext
<1> QED BY <1>3, <1>4, <1>5, <1>6, <1>7 DEF Writes

\* Every step is a step of the contract or leaves the rows alone.
LEMMA StepImplements ==
  IInv /\ [Next]_vars => [Contract!ContractNext]_<<status, attempts>>
<1> SUFFICES ASSUME IInv, [Next]_vars,
                    ~UNCHANGED <<status, attempts>>
             PROVE  Contract!ContractNext
  OBVIOUS
<1>1. ASSUME NEW s \in Slots, ProcessorStep(s) PROVE Contract!ContractNext
  <2>1. slot[s].pc \in Writes /\ RowWritten(slot[s].exec, slot[s].pc)
    BY <1>1 DEF ProcessorStep, FindExecution, MarkRunning, EngineSucceeds, EngineFails,
                WorkflowUnavailable, SettleAttempt, UpdateMissed, SendFailureAlert, FinishJob,
                rowVars, Writes
  <2> QED BY <2>1, RowWrittenImplements
<1>2. ASSUME NEW s \in Slots,
             CrashSlot(s) \/ ReadFails(s) \/ TransactionRollsBack(s)
               \/ CommitUnacknowledged(s)
      PROVE  Contract!ContractNext
  <2>1. slot[s].pc \in Writes /\ RowWritten(slot[s].exec, slot[s].pc)
    BY <1>2 DEF CrashSlot, ReadFails, TransactionRollsBack, CommitUnacknowledged, rowVars
  <2> QED BY <2>1, RowWrittenImplements
<1>3. ASSUME NEW r \in Requests, NEW e \in Executions, CreateExecution(r, e)
      PROVE  Contract!ContractNext
  <2>1. Contract!Accept(e)
    BY <1>3 DEF CreateExecution, Contract!Accept, Contract!Moves, Contract!Absent, Absent
  <2> QED BY <2>1 DEF Contract!ContractNext
<1>4. ASSUME NEW r \in Requests, NEW e \in Executions, RetryTransaction(r, e)
      PROVE  Contract!ContractNext
  <2>1. Contract!RetryByHand(e)
    BY <1>4 DEF RetryTransaction, Contract!RetryByHand, Contract!Moves
  <2> QED BY <2>1 DEF Contract!ContractNext
<1>5. ASSUME NEW s \in Slots, NEW e \in Executions, Fetch(s, e)
      PROVE  FALSE
  BY <1>5 DEF Fetch, rowVars
<1>6. ASSUME NEW e \in Executions, LockExpires(e) \/ CheckStalled(e) \/ EvictFinishedJob(e)
      PROVE  FALSE
  BY <1>6 DEF LockExpires, CheckStalled, EvictFinishedJob, rowVars
<1>7. ASSUME NEW r \in Requests, RequestStep(r) \/ EnqueueFails(r)
      PROVE  FALSE
  BY <1>7 DEF RequestStep, RemoveJob, AddJob, EnqueueFails, rowVars
<1>8. CASE UNCHANGED vars
  BY <1>8 DEF vars
<1> QED BY <1>1, <1>2, <1>3, <1>4, <1>5, <1>6, <1>7, <1>8 DEF Next

\* The rows implement ExecutionContract: bounded attempts, dead-lettering only on exhaustion,
\* final outcomes, whatever crashes, stalls or loses an acknowledgement underneath.
THEOREM LifecycleImplementsContract == Spec => ImplementsContract
<1>1. Init => Contract!ContractInit
  BY DEF Init, Contract!ContractInit, Contract!Absent, Absent
<1>2. IInv /\ [Next]_vars => [Contract!ContractNext]_Contract!contractVars
  BY StepImplements DEF Contract!contractVars
<1> QED BY <1>1, <1>2, InductiveInvariant, PTL DEF Spec, ImplementsContract,
           Contract!ContractSpec

\* No outcome of an earlier run is ever written over a later run.
THEOREM OnlyTheCurrentRunSettles == Spec => NoStaleSettlement
<1>1. IInv => \A s \in Slots :
        slot[s].pc \in Owning =>
          slot[s].run = runs[slot[s].exec] /\ slot[s].attempt = attempts[slot[s].exec]
  BY DEF IInv, OwnershipInv
<1>2. IInv /\ [Next]_vars =>
        [\A s \in Slots :
           LET e == slot[s].exec IN
           /\ slot[s].pc \in Owning
           /\ slot'[s] # slot[s]
           /\ status[e] = "running"
           /\ status'[e] # "running"
           => slot[s].run = runs[e] /\ slot[s].attempt = attempts[e]]_vars
  BY <1>1
<1> QED BY <1>2, InductiveInvariant, PTL DEF Spec, NoStaleSettlement

\* The repository's conditional updates stay inside the domain's transition table.
THEOREM StatusChangesFollowRules == Spec => TransitionsFollowRules
<1>1. IInv /\ [Next]_vars =>
        [\A e \in Executions :
           status[e] # Absent /\ status'[e] # status[e]
             => status'[e] \in ExecutionTransitions[status[e]]]_vars
  <2> SUFFICES ASSUME IInv, [Next]_vars,
                      NEW e \in Executions, status[e] # Absent, status'[e] # status[e]
               PROVE  status'[e] \in ExecutionTransitions[status[e]]
    OBVIOUS
  <2>1. PICK f \in Executions :
          \/ Contract!Accept(f) \/ Contract!Start(f) \/ Contract!Succeed(f)
          \/ Contract!Fail(f) \/ Contract!ScheduleRetry(f) \/ Contract!DeadLetter(f)
          \/ Contract!RetryByHand(f)
    BY StepImplements DEF Contract!ContractNext
  <2>2. status \in [Executions -> Status]
    BY DEF IInv, TypeOK
  <2>3. e = f
    BY <2>1, <2>2 DEF Contract!Accept, Contract!Start, Contract!Succeed, Contract!Fail,
       Contract!ScheduleRetry, Contract!DeadLetter, Contract!RetryByHand, Contract!Moves
  <2> QED BY <2>1, <2>2, <2>3 DEF Contract!Accept, Contract!Start, Contract!Succeed,
       Contract!Fail, Contract!ScheduleRetry, Contract!DeadLetter, Contract!RetryByHand,
       Contract!Moves, Contract!Absent, Absent, ExecutionTransitions
<1> QED BY <1>1, InductiveInvariant, PTL DEF Spec, TransitionsFollowRules

---------------------------------------------------------------------------
(***************************************************************************)
(* The queue transfer, as long as nothing goes wrong.  Until the first     *)
(* fault, an execution that was not retried by hand is in one of five      *)
(* situations, and each names the one request, job or processor that will  *)
(* move it on.                                                             *)
(***************************************************************************)
Working(e) == {s \in Slots : slot[s].exec = e}
Asking(e) == {r \in Requests : request[r].exec = e}

Fresh(e) == status[e] = Absent /\ job[e] = NoJob /\ Working(e) = {} /\ Asking(e) = {}
Accepted(e) ==
  /\ status[e] = "queued" /\ job[e].state = "none" /\ job[e].owner = None /\ Working(e) = {}
  /\ \E r \in Requests : Asking(e) = {r} /\ request[r].pc = "add"
Waiting(e) ==
  /\ status[e] \in {"queued", "retrying"}
  /\ job[e].state = "waiting" /\ job[e].made = attempts[e] /\ job[e].owner = None
  /\ Working(e) = {} /\ Asking(e) = {}

\* How far the processor is with the attempt, and what the row and the job say by then.
AttemptFits(e, s) ==
  \/ /\ slot[s].pc \in {"find", "mark"} /\ status[e] \in {"queued", "retrying"}
     /\ job[e].made = attempts[e]
  \/ /\ slot[s].pc \in Owning /\ status[e] = "running" /\ job[e].made + 1 = attempts[e]
  \/ /\ slot[s].pc = "threw" /\ status[e] = "retrying" /\ job[e].made + 1 = attempts[e]
  \/ /\ slot[s].pc \in {"alert", "returned"} /\ status[e] \in Settled
AtWork(e) ==
  /\ job[e].state = "active" /\ Asking(e) = {}
  /\ \E s \in Slots : Working(e) = {s} /\ job[e].owner = s /\ AttemptFits(e, s)
Over(e) ==
  /\ status[e] \in Settled
  /\ job[e].state \in {"none", "completed"} /\ job[e].owner = None
  /\ Working(e) = {} /\ Asking(e) = {}

InOrder(e) == Fresh(e) \/ Accepted(e) \/ Waiting(e) \/ AtWork(e) \/ Over(e)
NoFault == \A k \in FaultKinds : faults[k] = 0
IdleInv ==
  /\ \A s \in Slots : slot[s].pc = "idle" => slot[s].exec = None
  /\ \A r \in Requests : request[r].pc = "idle" => request[r].exec = None
OrderInv == IdleInv /\ (NoFault => \A e \in Executions : manual[e] = 0 => InOrder(e))

LEMMA InitOrder == Init => OrderInv
BY DEF Init, OrderInv, IdleInv, InOrder, Fresh, Working, Asking, IdleSlot, IdleRequest

\* A step that is about other executions.
LEMMA ElsewhereInOrder ==
  ASSUME NEW e \in Executions, InOrder(e),
         status'[e] = status[e], attempts'[e] = attempts[e], job'[e] = job[e],
         \A s \in Slots : slot[s].exec = e \/ slot'[s].exec = e => slot'[s] = slot[s],
         \A r \in Requests : request[r].exec = e \/ request'[r].exec = e => request'[r] = request[r]
  PROVE  InOrder(e)'
<1>1. Working(e)' = Working(e) /\ Asking(e)' = Asking(e) BY DEF Working, Asking
<1>2. (Fresh(e) => Fresh(e)') /\ (Waiting(e) => Waiting(e)') /\ (Over(e) => Over(e)')
  BY <1>1 DEF Fresh, Waiting, Over
<1>3. Accepted(e) => Accepted(e)'
  <2>. SUFFICES ASSUME Accepted(e) PROVE Accepted(e)' OBVIOUS
  <2>1. PICK r \in Requests : Asking(e) = {r} /\ request[r].pc = "add" BY DEF Accepted
  <2>2. request'[r] = request[r] BY <2>1 DEF Asking
  <2>. QED BY <1>1, <2>1, <2>2 DEF Accepted
<1>4. AtWork(e) => AtWork(e)'
  <2>. SUFFICES ASSUME AtWork(e) PROVE AtWork(e)' OBVIOUS
  <2>1. PICK s \in Slots : Working(e) = {s} /\ job[e].owner = s /\ AttemptFits(e, s)
    BY DEF AtWork
  <2>2. slot'[s] = slot[s] BY <2>1 DEF Working
  <2>3. AttemptFits(e, s)' BY <2>1, <2>2 DEF AttemptFits
  <2>. QED BY <1>1, <2>1, <2>3 DEF AtWork
<1>. QED BY <1>2, <1>3, <1>4 DEF InOrder

LEMMA WorkerInOrder ==
  ASSUME NEW e \in Executions, InOrder(e), NEW s \in Slots, slot[s].exec = e
  PROVE  /\ job[e].state = "active" /\ job[e].owner = s
         /\ Working(e) = {s} /\ Asking(e) = {} /\ AttemptFits(e, s)
<1>1. s \in Working(e) BY DEF Working
<1>. QED BY <1>1 DEF InOrder, Fresh, Accepted, Waiting, AtWork, Over

LEMMA StaysAtWork ==
  ASSUME IInv, NEW e \in Executions, NEW s \in Slots, slot[s].exec = e, InOrder(e),
         \A t \in Slots \ {s} : slot'[t] = slot[t],
         slot'[s].exec = e, UNCHANGED <<job, request>>, AttemptFits(e, s)'
  PROVE  InOrder(e)'
<1>1. job[e].state = "active" /\ job[e].owner = s /\ Working(e) = {s} /\ Asking(e) = {}
  BY WorkerInOrder
<1>2. Working(e)' = {s} /\ Asking(e)' = {} BY <1>1 DEF Working, Asking
<1>. QED BY <1>1, <1>2 DEF InOrder, AtWork

\* A processor at work takes its own execution from one situation to the next.
LEMMA ProcessorInOrder ==
  ASSUME IInv, NEW s \in Slots, ProcessorStep(s), NEW e \in Executions, e = slot[s].exec, InOrder(e)
  PROVE  InOrder(e)'
<1>1. /\ job[e].state = "active" /\ job[e].owner = s
      /\ Working(e) = {s} /\ Asking(e) = {} /\ AttemptFits(e, s)
  BY WorkerInOrder
<1>2. /\ slot \in [Slots -> SlotState] /\ status \in [Executions -> Status]
      /\ attempts \in [Executions -> 0..MaxAttempts] /\ job \in [Executions -> JobState]
      /\ slot[s].attempt \in 0..MaxAttempts /\ job[e].made \in 0..MaxAttempts
  BY DEF IInv, TypeOK, SlotState, JobState
<1>3. ASSUME NEW p, Goto(s, p)
      PROVE  /\ \A t \in Slots \ {s} : slot'[t] = slot[t]
             /\ slot'[s].exec = e /\ slot'[s].pc = p
  BY <1>2, <1>3 DEF Goto, SlotState
<1>4. CASE FindExecution(s)
  <2>1. slot[s].pc = "find" /\ status[e] \in {"queued", "retrying"} /\ job[e].made = attempts[e]
    BY <1>1, <1>4 DEF FindExecution, AttemptFits, Owning
  <2>2. Goto(s, "mark") /\ UNCHANGED <<status, attempts, job, request>>
    BY <1>4, <2>1 DEF FindExecution, rowVars
  <2>3. AttemptFits(e, s)' BY <1>3, <2>1, <2>2 DEF AttemptFits
  <2>. QED BY <1>3, <2>2, <2>3, StaysAtWork
<1>5. CASE MarkRunning(s)
  <2>1. /\ status[e] \in {"queued", "retrying"} /\ job[e].made = attempts[e]
        /\ slot[s].pc = "mark"
    BY <1>1, <1>5 DEF MarkRunning, AttemptFits, Owning
  <2>2. /\ status' = [status EXCEPT ![e] = "running"]
        /\ attempts' = [attempts EXCEPT ![e] = @ + 1]
        /\ slot' = [slot EXCEPT ![s] = [pc |-> "engine", exec |-> e,
                                        attempt |-> attempts'[e], run |-> runs'[e]]]
        /\ UNCHANGED <<job, request>>
    BY <1>5 DEF MarkRunning, RowWritten, StatusWritten
  <2>3. /\ \A t \in Slots \ {s} : slot'[t] = slot[t]
        /\ slot'[s].exec = e /\ slot'[s].pc = "engine"
        /\ status'[e] = "running" /\ attempts'[e] = attempts[e] + 1
    BY <1>2, <2>2
  <2>4. AttemptFits(e, s)' BY <2>1, <2>2, <2>3 DEF AttemptFits, Owning
  <2>. QED BY <2>2, <2>3, <2>4, StaysAtWork
<1>6. CASE EngineSucceeds(s) \/ EngineFails(s) \/ WorkflowUnavailable(s)
  <2>1. status[e] = "running" /\ job[e].made + 1 = attempts[e] /\ slot[s].pc = "engine"
    BY <1>1, <1>6 DEF EngineSucceeds, EngineFails, WorkflowUnavailable, AttemptFits
  <2>2. PICK p \in Owning : Goto(s, p)
    BY <1>2, <1>6, SettleStepFacts DEF EngineSucceeds, EngineFails, WorkflowUnavailable, Owning
  <2>3. UNCHANGED <<status, attempts, job, request>>
    BY <1>6 DEF EngineSucceeds, EngineFails, WorkflowUnavailable, rowVars
  <2>4. AttemptFits(e, s)' BY <1>3, <2>1, <2>2, <2>3 DEF AttemptFits
  <2>. QED BY <1>3, <2>2, <2>3, <2>4, StaysAtWork
<1>7. CASE SettleAttempt(s)
  <2>1. PICK p : p = slot[s].pc OBVIOUS
  <2>2. /\ p \in {"succeed", "retry", "dead_letter", "fail"}
        /\ status[e] = "running" /\ job[e].made + 1 = attempts[e]
    BY <1>1, <1>7, <2>1 DEF SettleAttempt, AttemptFits, Owning, Writes
  <2>3. /\ status'[e] = StatusWritten[p] /\ attempts' = attempts
        /\ Goto(s, AfterSettling[p]) /\ UNCHANGED <<job, request>>
    BY <1>2, <1>7, <2>1, <2>2 DEF SettleAttempt, RowWritten
  <2>4. slot'[s].pc = AfterSettling[p] /\ slot'[s].exec = e
        /\ \A t \in Slots \ {s} : slot'[t] = slot[t]
    BY <1>3, <2>3
  <2>5. AttemptFits(e, s)'
    BY <2>2, <2>3, <2>4 DEF AttemptFits, StatusWritten, AfterSettling, Settled
  <2>. QED BY <2>3, <2>4, <2>5, StaysAtWork
<1>8. CASE UpdateMissed(s)
  BY <1>1, <1>8 DEF UpdateMissed, AttemptFits, StatusGuard, Writes, Owning
<1>9. CASE SendFailureAlert(s)
  <2>1. slot[s].pc = "alert" /\ status[e] \in Settled
    BY <1>1, <1>9 DEF SendFailureAlert, AttemptFits, Owning
  <2>2. Goto(s, "returned") /\ UNCHANGED <<status, attempts, job, request>>
    BY <1>9 DEF SendFailureAlert, rowVars
  <2>3. AttemptFits(e, s)' BY <1>3, <2>1, <2>2 DEF AttemptFits
  <2>. QED BY <1>3, <2>2, <2>3, StaysAtWork
<1>10. CASE FinishJob(s)
  <2>1. /\ slot' = [slot EXCEPT ![s] = IdleSlot]
        /\ UNCHANGED <<status, attempts, request>>
    BY <1>10 DEF FinishJob, rowVars
  <2>2. Working(e)' = {} /\ Asking(e)' = {}
    BY <1>1, <1>2, <2>1, LifecycleAssumption DEF Working, Asking, IdleSlot
  <2>3. CASE slot[s].pc = "returned"
    <3>1. job' = [job EXCEPT ![e].state = "completed", ![e].owner = None]
      BY <1>1, <1>10, <2>3 DEF FinishJob
    <3>2. job'[e].state = "completed" /\ job'[e].owner = None BY <1>2, <3>1 DEF JobState
    <3>3. status[e] \in Settled BY <1>1, <2>3 DEF AttemptFits, Owning
    <3>. QED BY <2>1, <2>2, <3>2, <3>3 DEF InOrder, Over
  <2>4. CASE slot[s].pc = "threw"
    <3>1. status[e] = "retrying" /\ job[e].made + 1 = attempts[e]
      BY <1>1, <2>4 DEF AttemptFits, Owning
    <3>2. attempts[e] < MaxAttempts BY <3>1 DEF IInv, AttemptBudgetInv
    <3>3. job' = [job EXCEPT ![e].state = "waiting", ![e].made = @ + 1, ![e].owner = None]
      BY <1>1, <1>10, <2>4, <3>1, <3>2 DEF FinishJob, DeliveriesLeft
    <3>4. job'[e].state = "waiting" /\ job'[e].made = attempts[e] /\ job'[e].owner = None
      BY <1>2, <3>1, <3>3 DEF JobState
    <3>. QED BY <2>1, <2>2, <3>1, <3>4 DEF InOrder, Waiting
  <2>. QED BY <1>10, <2>3, <2>4 DEF FinishJob
<1>. QED BY <1>4, <1>5, <1>6, <1>7, <1>8, <1>9, <1>10 DEF ProcessorStep

\* Without a fault, a processor stays with its execution and no other is concerned.
LEMMA ProcessorKeepsOrder ==
  ASSUME IInv, IdleInv, NEW s \in Slots, ProcessorStep(s)
  PROVE  /\ IdleInv' /\ UNCHANGED <<faults, manual>>
         /\ \A e \in Executions : InOrder(e) => InOrder(e)'
<1>1. slot \in [Slots -> SlotState] /\ slot[s].pc # "idle" /\ slot[s].exec \in Executions
  BY DEF IInv, TypeOK, OwnershipInv, ProcessorStep, FindExecution, MarkRunning, EngineSucceeds,
         EngineFails, WorkflowUnavailable, SettleAttempt, UpdateMissed, SendFailureAlert,
         FinishJob, Writes
<1>2. slot[s].attempt \in 0..MaxAttempts BY <1>1 DEF SlotState
<1>3. \A e \in Executions : slot[s].exec # e => status'[e] = status[e] /\ attempts'[e] = attempts[e]
  BY DEF IInv, TypeOK, ProcessorStep, FindExecution, MarkRunning, EngineSucceeds, EngineFails,
         WorkflowUnavailable, SettleAttempt, UpdateMissed, SendFailureAlert, FinishJob,
         RowWritten, rowVars
<1>4. \A e \in Executions : slot[s].exec # e => job'[e] = job[e]
  BY DEF IInv, TypeOK, ProcessorStep, FindExecution, MarkRunning, EngineSucceeds, EngineFails,
         WorkflowUnavailable, SettleAttempt, UpdateMissed, SendFailureAlert, FinishJob
<1>5. UNCHANGED <<request, faults, manual>>
  BY DEF ProcessorStep, FindExecution, MarkRunning, EngineSucceeds, EngineFails,
         WorkflowUnavailable, SettleAttempt, UpdateMissed, SendFailureAlert, FinishJob,
         historyVars
<1>6. /\ \A t \in Slots \ {s} : slot'[t] = slot[t]
      /\ \/ slot'[s] = IdleSlot
         \/ slot'[s].exec = slot[s].exec /\ slot'[s].pc # "idle"
  <2>1. ASSUME NEW p, p # "idle", Goto(s, p)
        PROVE  /\ \A t \in Slots \ {s} : slot'[t] = slot[t]
               /\ slot'[s].exec = slot[s].exec /\ slot'[s].pc # "idle"
    BY <1>1, <2>1 DEF Goto, SlotState
  <2>2. CASE MarkRunning(s) BY <1>1, <2>2 DEF MarkRunning
  <2>3. CASE FinishJob(s) BY <1>1, <2>3 DEF FinishJob
  <2>4. CASE EngineFails(s)
    <3>1. PICK err \in ErrorClass : Goto(s, SettleStep(err, slot[s].attempt))
      BY <2>4 DEF EngineFails
    <3>2. SettleStep(err, slot[s].attempt) # "idle" BY <1>2, SettleStepFacts
    <3>. QED BY <2>1, <3>1, <3>2
  <2>5. CASE UpdateMissed(s)
    <3>1. AfterThrow(s, NotReady) # "idle" BY <1>2, NotReadyFails DEF AfterThrow
    <3>. QED BY <2>1, <2>5, <3>1 DEF UpdateMissed
  <2>6. CASE SettleAttempt(s)
    <3>1. AfterSettling[slot[s].pc] # "idle"
      BY <2>6 DEF SettleAttempt, AfterSettling, Writes
    <3>. QED BY <2>1, <2>6, <3>1 DEF SettleAttempt
  <2>7. CASE \/ FindExecution(s) \/ EngineSucceeds(s) \/ WorkflowUnavailable(s)
             \/ SendFailureAlert(s)
    <3>1. PICK p : p # "idle" /\ Goto(s, p)
      BY <2>7 DEF FindExecution, EngineSucceeds, WorkflowUnavailable, SendFailureAlert
    <3>. QED BY <2>1, <3>1
  <2>. QED BY <2>2, <2>3, <2>4, <2>5, <2>6, <2>7 DEF ProcessorStep
<1>7. IdleInv' BY <1>5, <1>6 DEF IdleInv, IdleSlot
<1>8. ASSUME NEW e \in Executions, InOrder(e) PROVE InOrder(e)'
  <2>1. CASE slot[s].exec = e BY <1>8, <2>1, ProcessorInOrder
  <2>2. CASE slot[s].exec # e
    <3>1. \A t \in Slots : slot[t].exec = e \/ slot'[t].exec = e => slot'[t] = slot[t]
      BY <1>6, <2>2, LifecycleAssumption DEF IdleSlot
    <3>. QED BY <1>3, <1>4, <1>5, <1>8, <2>2, <3>1, ElsewhereInOrder
  <2>. QED BY <2>1, <2>2
<1>. QED BY <1>5, <1>7, <1>8

\* A waiting job goes to a free slot; of the queue's upkeep, a job that is in order has only
\* the eviction to expect.
LEMMA QueueKeepsOrder ==
  ASSUME IInv, IdleInv, NEW f \in Executions,
         \/ \E s \in Slots : Fetch(s, f)
         \/ LockExpires(f) /\ UNCHANGED faults
         \/ CheckStalled(f) \/ EvictFinishedJob(f)
  PROVE  /\ IdleInv' /\ UNCHANGED <<faults, manual>>
         /\ \A e \in Executions : InOrder(e) => InOrder(e)'
<1>1. /\ slot \in [Slots -> SlotState] /\ job \in [Executions -> JobState]
      /\ job[f] \in JobState
  BY DEF IInv, TypeOK
<1>2. UNCHANGED <<status, attempts, request, faults, manual>>
  BY DEF Fetch, LockExpires, CheckStalled, EvictFinishedJob, rowVars, historyVars
<1>3. \A e \in Executions : e # f => job'[e] = job[e]
  BY <1>1 DEF Fetch, LockExpires, CheckStalled, EvictFinishedJob
<1>4. CASE \E s \in Slots : Fetch(s, f)
  <2>1. PICK s \in Slots : Fetch(s, f) BY <1>4
  <2>2. /\ slot[s].exec = None /\ slot[s].pc = "idle" /\ job[f].state = "waiting"
        /\ slot' = [slot EXCEPT ![s] = [pc |-> "find", exec |-> f, attempt |-> 0, run |-> 0]]
        /\ job' = [job EXCEPT ![f].state = "active", ![f].owner = s]
    BY <2>1 DEF Fetch, IdleInv
  <2>3. /\ \A t \in Slots \ {s} : slot'[t] = slot[t]
        /\ slot'[s].pc = "find" /\ slot'[s].exec = f
    BY <1>1, <2>2
  <2>4. job'[f].state = "active" /\ job'[f].owner = s /\ job'[f].made = job[f].made
    BY <1>1, <2>2 DEF JobState
  <2>5. ASSUME InOrder(f) PROVE InOrder(f)'
    <3>1. Waiting(f) BY <2>2, <2>5 DEF InOrder, Fresh, Accepted, AtWork, Over, NoJob
    <3>2. Working(f)' = {s} /\ Asking(f)' = {}
      BY <1>2, <2>3, <3>1 DEF Waiting, Working, Asking
    <3>3. AttemptFits(f, s)' BY <1>2, <2>3, <2>4, <3>1 DEF AttemptFits, Waiting
    <3>. QED BY <2>4, <3>2, <3>3 DEF InOrder, AtWork
  <2>6. ASSUME NEW e \in Executions, e # f, InOrder(e) PROVE InOrder(e)'
    <3>1. \A t \in Slots : slot[t].exec = e \/ slot'[t].exec = e => slot'[t] = slot[t]
      BY <2>2, <2>3, <2>6, LifecycleAssumption
    <3>. QED BY <1>2, <1>3, <2>6, <3>1, ElsewhereInOrder
  <2>7. IdleInv' BY <1>2, <2>3 DEF IdleInv
  <2>. QED BY <1>2, <2>5, <2>6, <2>7
<1>5. CASE \/ LockExpires(f) /\ UNCHANGED faults
           \/ CheckStalled(f) \/ EvictFinishedJob(f)
  <2>1. UNCHANGED slot BY <1>5 DEF LockExpires, CheckStalled, EvictFinishedJob
  <2>2. ASSUME InOrder(f) PROVE InOrder(f)'
    <3>1. ASSUME AtWork(f) PROVE FALSE
      <4>1. PICK s \in Slots : Working(f) = {s} /\ job[f].owner = s /\ AttemptFits(f, s)
        BY <3>1 DEF AtWork
      <4>2. slot[s].exec = f /\ slot[s].pc # "idle" /\ job[f].state = "active"
        BY <3>1, <4>1, LifecycleAssumption DEF AtWork, Working, IdleInv
      <4>3. HolderAlive(f) /\ job[f].owner # None
        BY <4>1, <4>2, LifecycleAssumption DEF HolderAlive
      <4>4. LockExpires(f) => faults' # faults
        BY <4>3 DEF LockExpires, Fault, IInv, TypeOK, FaultKinds
      <4>. QED BY <1>5, <4>2, <4>3, <4>4 DEF CheckStalled, EvictFinishedJob
    <3>2. Over(f) /\ job' = [job EXCEPT ![f] = NoJob]
      BY <1>5, <2>2, <3>1
      DEF InOrder, Fresh, Accepted, Waiting, Over, NoJob, LockExpires, CheckStalled,
          EvictFinishedJob
    <3>3. job'[f] = NoJob BY <1>1, <3>2
    <3>. QED BY <1>2, <2>1, <3>2, <3>3 DEF InOrder, Over, Working, Asking, NoJob
  <2>3. ASSUME NEW e \in Executions, e # f, InOrder(e) PROVE InOrder(e)'
    BY <1>2, <1>3, <2>1, <2>3, ElsewhereInOrder
  <2>4. IdleInv' BY <1>2, <2>1 DEF IdleInv
  <2>. QED BY <1>2, <2>2, <2>3, <2>4
<1>. QED BY <1>4, <1>5

\* A request adds the job of the execution it accepted. The retry by hand, which removes one
\* first, is not among the situations.
LEMMA RequestKeepsOrder ==
  ASSUME IInv, IdleInv, NEW r \in Requests, RequestStep(r)
  PROVE  /\ IdleInv' /\ UNCHANGED <<faults, manual>>
         /\ \A e \in Executions : InOrder(e) => InOrder(e)'
<1>1. PICK f : f = request[r].exec OBVIOUS
<1>2. request \in [Requests -> RequestState] /\ job \in [Executions -> JobState]
  BY DEF IInv, TypeOK
<1>3. /\ UNCHANGED <<status, attempts, slot, faults, manual>>
      /\ \A e \in Executions : e # f => job'[e] = job[e]
      /\ \A q \in Requests \ {r} : request'[q] = request[q]
      /\ \/ request[r].pc = "remove" /\ request'[r].pc = "add" /\ request'[r].exec = f
         \/ request[r].pc = "add" /\ request'[r] = IdleRequest
  BY <1>1, <1>2 DEF RequestStep, RemoveJob, AddJob, rowVars, historyVars, RequestState
<1>4. IdleInv' BY <1>3 DEF IdleInv, IdleRequest
<1>5. ASSUME NEW e \in Executions, e # f, InOrder(e) PROVE InOrder(e)'
  <2>1. \A q \in Requests : request[q].exec = e \/ request'[q].exec = e => request'[q] = request[q]
    BY <1>1, <1>3, <1>5, LifecycleAssumption DEF IdleRequest
  <2>. QED BY <1>3, <1>5, <2>1, ElsewhereInOrder
<1>6. ASSUME f \in Executions, InOrder(f) PROVE InOrder(f)'
  <2>1. r \in Asking(f) BY <1>1 DEF Asking
  <2>2. Accepted(f) BY <1>6, <2>1 DEF InOrder, Fresh, Waiting, AtWork, Over
  <2>3. Asking(f) = {r} /\ request[r].pc = "add" BY <2>1, <2>2 DEF Accepted
  <2>4. job' = [job EXCEPT ![f] = WaitingJob] /\ request'[r] = IdleRequest
    BY <1>1, <1>3, <2>2, <2>3 DEF RequestStep, RemoveJob, AddJob, Accepted
  <2>5. job'[f] = WaitingJob BY <1>2, <1>6, <2>4
  <2>6. Working(f)' = {} /\ Asking(f)' = {}
    BY <1>3, <1>6, <2>2, <2>3, <2>4, LifecycleAssumption
    DEF Accepted, Working, Asking, IdleRequest
  <2>7. status[f] = "queued" /\ attempts[f] = 0
    BY <1>6, <2>2 DEF Accepted, IInv, AttemptBudgetInv
  <2>. QED BY <1>3, <2>5, <2>6, <2>7 DEF InOrder, Waiting, WaitingJob
<1>. QED BY <1>3, <1>4, <1>5, <1>6

LEMMA TransactionsKeepOrder ==
  ASSUME IInv, IdleInv, NEW r \in Requests, NEW f \in Executions,
         CreateExecution(r, f) \/ RetryTransaction(r, f)
  PROVE  /\ IdleInv' /\ UNCHANGED faults
         /\ \A e \in Executions : manual'[e] = 0 /\ InOrder(e) => manual[e] = 0 /\ InOrder(e)'
         /\ \A e \in Executions : manual'[e] = 0 => manual[e] = 0
<1>1. request \in [Requests -> RequestState] /\ manual \in [Executions -> Nat]
      /\ status \in [Executions -> Status] /\ attempts \in [Executions -> 0..MaxAttempts]
  BY DEF IInv, TypeOK
<1>2. PICK p \in {"add", "remove"} : request' = [request EXCEPT ![r] = [pc |-> p, exec |-> f]]
  BY DEF CreateExecution, RetryTransaction
<1>3. /\ UNCHANGED <<slot, job, faults>> /\ request[r].pc = "idle"
      /\ \A e \in Executions : e # f =>
           status'[e] = status[e] /\ attempts'[e] = attempts[e] /\ manual'[e] = manual[e]
  BY <1>1 DEF CreateExecution, RetryTransaction, historyVars
<1>4. /\ \A q \in Requests \ {r} : request'[q] = request[q]
      /\ request'[r].pc = p /\ request'[r].exec = f
  BY <1>1, <1>2
<1>5. IdleInv' BY <1>3, <1>4 DEF IdleInv
<1>6. request[r].exec = None BY <1>3 DEF IdleInv
<1>7. ASSUME NEW e \in Executions, e # f, InOrder(e) PROVE InOrder(e)'
  <2>1. \A q \in Requests : request[q].exec = e \/ request'[q].exec = e => request'[q] = request[q]
    BY <1>4, <1>6, <1>7, LifecycleAssumption
  <2>. QED BY <1>3, <1>7, <2>1, ElsewhereInOrder
<1>8. CASE CreateExecution(r, f)
  <2>1. manual' = manual BY <1>8 DEF CreateExecution, historyVars
  <2>2. ASSUME InOrder(f) PROVE InOrder(f)'
    <3>1. status[f] = Absent /\ status'[f] = "queued" /\ request'[r].pc = "add"
      BY <1>1, <1>8 DEF CreateExecution
    <3>2. Fresh(f)
      BY <2>2, <3>1 DEF InOrder, Accepted, Waiting, AtWork, AttemptFits, Over, Settled, Absent
    <3>3. Working(f)' = {} /\ Asking(f)' = {r}
      BY <1>3, <1>4, <1>6, <3>2 DEF Fresh, Working, Asking
    <3>. QED BY <1>3, <3>1, <3>2, <3>3 DEF InOrder, Accepted, Fresh, NoJob
  <2>. QED BY <1>3, <1>5, <1>7, <2>1, <2>2
<1>9. CASE RetryTransaction(r, f)
  <2>1. manual'[f] = manual[f] + 1 /\ manual[f] \in Nat BY <1>1, <1>9 DEF RetryTransaction
  <2>2. manual'[f] # 0 BY <2>1
  <2>. QED BY <1>3, <1>5, <1>7, <2>2
<1>. QED BY <1>8, <1>9

\* What is in order stays so, execution by execution, until a fault or a manual retry.
OrderKept ==
  /\ IdleInv'
  /\ NoFault' => /\ NoFault
                 /\ \A e \in Executions :
                      manual'[e] = 0 => manual[e] = 0 /\ (InOrder(e) => InOrder(e)')

LEMMA StepKeepsOrder == IInv /\ IdleInv /\ [Next]_vars => OrderKept
<1>. SUFFICES ASSUME IInv, IdleInv, [Next]_vars PROVE OrderKept OBVIOUS
<1>1. ASSUME NEW k \in FaultKinds, Fault(k) PROVE ~NoFault'
  BY <1>1 DEF Fault, NoFault, IInv, TypeOK
<1>2. ASSUME NEW s \in Slots, ProcessorStep(s) PROVE OrderKept
  BY <1>2, ProcessorKeepsOrder DEF OrderKept, NoFault
<1>3. ASSUME NEW s \in Slots,
             CrashSlot(s) \/ ReadFails(s) \/ TransactionRollsBack(s) \/ CommitUnacknowledged(s)
      PROVE  OrderKept
  <2>1. ~NoFault'
    BY <1>1, <1>3
    DEF CrashSlot, ReadFails, TransactionRollsBack, CommitUnacknowledged, FaultKinds
  <2>2. slot \in [Slots -> SlotState] /\ slot[s].attempt \in 0..MaxAttempts
    BY DEF IInv, TypeOK, SlotState
  <2>3. /\ UNCHANGED request
        /\ \A t \in Slots \ {s} : slot'[t] = slot[t]
        /\ slot'[s] = IdleSlot \/ slot'[s].pc # "idle"
    <3>1. CASE CrashSlot(s) BY <2>2, <3>1 DEF CrashSlot
    <3>2. CASE ReadFails(s) BY <2>2, <3>2 DEF ReadFails, Goto, SlotState
    <3>3. CASE TransactionRollsBack(s) \/ CommitUnacknowledged(s)
      <4>1. AfterThrow(s, InternalFailure) # "idle"
        BY <2>2, SettleStepFacts, InternalFailureIsError DEF AfterThrow
      <4>. QED
        BY <2>2, <3>3, <4>1 DEF TransactionRollsBack, CommitUnacknowledged, Goto, SlotState
    <3>. QED BY <1>3, <3>1, <3>2, <3>3
  <2>. QED BY <2>1, <2>3 DEF OrderKept, IdleInv, IdleSlot
<1>4. ASSUME NEW f \in Executions,
             \/ \E s \in Slots : Fetch(s, f)
             \/ LockExpires(f) /\ UNCHANGED faults
             \/ CheckStalled(f) \/ EvictFinishedJob(f)
      PROVE  OrderKept
  BY <1>4, QueueKeepsOrder DEF OrderKept, NoFault
<1>5. ASSUME NEW f \in Executions, LockExpires(f) PROVE OrderKept
  <2>1. CASE UNCHANGED faults BY <1>4, <1>5, <2>1
  <2>2. CASE ~UNCHANGED faults
    <3>1. ~NoFault' BY <1>1, <1>5, <2>2 DEF LockExpires, FaultKinds
    <3>. QED BY <1>5, <3>1 DEF LockExpires, OrderKept, IdleInv
  <2>. QED BY <2>1, <2>2
<1>6. ASSUME NEW r \in Requests, RequestStep(r) PROVE OrderKept
  BY <1>6, RequestKeepsOrder DEF OrderKept, NoFault
<1>7. ASSUME NEW r \in Requests, EnqueueFails(r) PROVE OrderKept
  <2>1. ~NoFault' BY <1>1, <1>7 DEF EnqueueFails, FaultKinds
  <2>2. IdleInv'
    BY <1>7 DEF EnqueueFails, IdleInv, IdleRequest, IInv, TypeOK, RequestState
  <2>. QED BY <2>1, <2>2 DEF OrderKept
<1>8. ASSUME NEW r \in Requests, NEW f \in Executions,
             CreateExecution(r, f) \/ RetryTransaction(r, f)
      PROVE  OrderKept
  BY <1>8, TransactionsKeepOrder DEF OrderKept, NoFault
<1>9. CASE UNCHANGED vars
  <2>1. \A e \in Executions : InOrder(e) => InOrder(e)' BY <1>9, ElsewhereInOrder DEF vars
  <2>. QED BY <1>9, <2>1 DEF vars, OrderKept, IdleInv, NoFault
<1>. QED BY <1>2, <1>3, <1>4, <1>5, <1>6, <1>7, <1>8, <1>9 DEF Next

LEMMA NextOrder == IInv /\ OrderInv /\ [Next]_vars => OrderInv'
BY StepKeepsOrder DEF OrderInv, OrderKept

LEMMA OrderInvariant == Spec => []OrderInv
<1>1. Init => OrderInv BY InitOrder
<1>2. IInv /\ OrderInv /\ [Next]_vars => OrderInv' BY NextOrder
<1>. QED BY <1>1, <1>2, InductiveInvariant, PTL DEF Spec

LEMMA InOrderIsCarried ==
  ASSUME NEW e \in Executions, InOrder(e), status[e] \notin Settled \cup {Absent}
  PROVE  HasCarrier(e)
<1>1. CASE Accepted(e) BY <1>1 DEF Accepted, Asking, HasCarrier
<1>2. CASE Waiting(e) \/ AtWork(e) BY <1>2 DEF Waiting, AtWork, HasCarrier
<1>3. ~Fresh(e) /\ ~Over(e) BY DEF Fresh, Over
<1>. QED BY <1>1, <1>2, <1>3 DEF InOrder

LEMMA OrderImplies ==
  ASSUME IInv, OrderInv, NoFault, \A e \in Executions : manual[e] = 0
  PROVE  NothingStranded /\ RetryBudgetsAgree
<1>1. \A e \in Executions : InOrder(e) BY DEF OrderInv
<1>2. ASSUME NEW e \in Executions, status[e] \in {"queued", "running", "retrying"}
      PROVE  HasCarrier(e)
  BY <1>1, <1>2, InOrderIsCarried DEF Settled, Absent
<1>3. ASSUME NEW e \in Executions
      PROVE  /\ status[e] = "retrying" /\ (\A s \in Slots : slot[s].exec # e)
                  => job[e].state = "waiting" /\ job[e].made = attempts[e]
             /\ status[e] = "running" => job[e].made + 1 = attempts[e]
             /\ job[e].state # "failed"
  <2>1. CASE Waiting(e) BY <2>1 DEF Waiting
  <2>2. CASE AtWork(e) BY <2>2 DEF AtWork, AttemptFits, Working, Settled
  <2>3. CASE Fresh(e) \/ Accepted(e) \/ Over(e)
    BY <2>3 DEF Fresh, Accepted, Over, Settled, Absent, NoJob
  <2>. QED BY <1>1, <2>1, <2>2, <2>3 DEF InOrder
<1>. QED BY <1>2, <1>3 DEF NothingStranded, RetryBudgetsAgree

\* As long as no fault has happened and nothing was retried by hand, whatever the budgets of
\* either: every execution that is not settled has a request, a job or a processor that will
\* move it on, and the row and the queue agree on the attempts that are left
\* (process-execution, execution-queue.producer).
THEOREM UndisturbedTransfer == Spec => []TransferIsDurable
<1>1. IInv /\ OrderInv => TransferIsDurable
  BY OrderImplies DEF TransferIsDurable, Undisturbed, NoFault
<1>. QED BY <1>1, InductiveInvariant, OrderInvariant, PTL

\* What the clean budgets come to: without faults nothing happens that counts as one, and with
\* no manual retries none is accepted.
LEMMA BudgetsKept ==
  Spec => [](/\ \A k \in FaultKinds : FaultBudget[k] = 0 => faults[k] = 0
             /\ MaxManualRetries = 0 => \A e \in Executions : manual[e] = 0)
<1>. DEFINE Kept == /\ \A k \in FaultKinds : FaultBudget[k] = 0 => faults[k] = 0
                    /\ MaxManualRetries = 0 => \A e \in Executions : manual[e] = 0
<1>1. Init => Kept BY DEF Init
<1>2. IInv /\ Kept /\ [Next]_vars => Kept'
  <2>. SUFFICES ASSUME IInv, Kept, [Next]_vars PROVE Kept' OBVIOUS
  <2>1. \A k \in FaultKinds : faults'[k] = faults[k] \/ FaultBudget[k] # 0
    <3>1. UNCHANGED faults \/ \E k \in FaultKinds : Fault(k)
      BY DEF Next, vars, historyVars, ProcessorStep, FindExecution, MarkRunning, EngineSucceeds,
             EngineFails, WorkflowUnavailable, SettleAttempt, UpdateMissed, SendFailureAlert,
             FinishJob, Fetch, LockExpires, CheckStalled, EvictFinishedJob, RequestStep,
             RemoveJob, AddJob, CreateExecution, RetryTransaction, CrashSlot, ReadFails,
             TransactionRollsBack, CommitUnacknowledged, EnqueueFails, FaultKinds
    <3>2. ASSUME NEW j \in FaultKinds, Fault(j), NEW k \in FaultKinds
          PROVE  faults'[k] = faults[k] \/ FaultBudget[k] # 0
      BY <3>2, LifecycleAssumption DEF Fault, IInv, TypeOK
    <3>. QED BY <3>1, <3>2
  <2>2. UNCHANGED manual \/ \E e \in Executions : manual[e] < MaxManualRetries
    BY DEF Next, vars, historyVars, ProcessorStep, FindExecution, MarkRunning, EngineSucceeds,
           EngineFails, WorkflowUnavailable, SettleAttempt, UpdateMissed, SendFailureAlert,
           FinishJob, Fetch, LockExpires, CheckStalled, EvictFinishedJob, RequestStep,
           RemoveJob, AddJob, CreateExecution, RetryTransaction, CrashSlot, ReadFails,
           TransactionRollsBack, CommitUnacknowledged, EnqueueFails
  <2>3. (\E e \in Executions : manual[e] < MaxManualRetries) => MaxManualRetries # 0
    BY LifecycleAssumption DEF IInv, TypeOK
  <2>. QED BY <2>1, <2>2, <2>3
<1>. QED BY <1>1, <1>2, InductiveInvariant, PTL DEF Spec

\* Where nothing fails and nobody retries by hand, no execution is ever stranded between the
\* row and the queue.
THEOREM CleanRunsStrandNothing ==
  ASSUME \A k \in FaultKinds : FaultBudget[k] = 0, MaxManualRetries = 0
  PROVE  Spec => []NothingStranded
<1>1. /\ \A k \in FaultKinds : FaultBudget[k] = 0 => faults[k] = 0
      /\ MaxManualRetries = 0 => \A e \in Executions : manual[e] = 0
      => Undisturbed
  BY DEF Undisturbed
<1>2. TransferIsDurable /\ Undisturbed => NothingStranded BY DEF TransferIsDurable
<1>. QED BY <1>1, <1>2, UndisturbedTransfer, BudgetsKept, PTL

\* There the row's attempts and BullMQ's attemptsMade count the same budget.
THEOREM CleanRunsCountOneBudget ==
  ASSUME \A k \in FaultKinds : FaultBudget[k] = 0, MaxManualRetries = 0
  PROVE  Spec => []RetryBudgetsAgree
<1>1. /\ \A k \in FaultKinds : FaultBudget[k] = 0 => faults[k] = 0
      /\ MaxManualRetries = 0 => \A e \in Executions : manual[e] = 0
      => Undisturbed
  BY DEF Undisturbed
<1>2. TransferIsDurable /\ Undisturbed => RetryBudgetsAgree BY DEF TransferIsDurable
<1>. QED BY <1>1, <1>2, UndisturbedTransfer, BudgetsKept, PTL

---------------------------------------------------------------------------
(***************************************************************************)
(* AcceptedCalls: the life of an execution from the call that creates it.  *)
(* What WebhookIngestionProofs shows of the calls is taken over from there *)
(* by instantiation; the two modules meet in SameStory.                    *)
(***************************************************************************)
Calling ==
  INSTANCE WebhookIngestionProofs
    WITH Calls <- Executions, Nothing <- None, MaxFaults <- MaxCallFaults

\* Each instance has operators of its own for what it takes from FiniteSets.
LEMMA SameCardinality ==
  /\ \A S : Ingestion!IsFiniteSet(S) <=> Calling!IsFiniteSet(S)
  /\ \A S : Ingestion!Cardinality(S) = Calling!Cardinality(S)
BY DEF Ingestion!IsFiniteSet, Calling!IsFiniteSet, Ingestion!Cardinality, Calling!Cardinality

LEMMA CallingAssumption == Calling!IngestionAssumption
BY AcceptedCallsAssumption, SameCardinality
DEF Ingestion!IngestionAssumption, Calling!IngestionAssumption, Ingestion!InputShape,
    Calling!InputShape

LEMMA SameInit == Ingestion!IngestionInit <=> Calling!IngestionInit
BY DEF Ingestion!IngestionInit, Calling!IngestionInit

\* The two instances say the same of a call.
LEMMA SameBeforeCommit ==
  ASSUME NEW c
  PROVE  /\ Ingestion!Arrive(c) <=> Calling!Arrive(c)
         /\ Ingestion!EnforceWebhookRequest(c) <=> Calling!EnforceWebhookRequest(c)
         /\ Ingestion!EnforceExecutionCreation(c) <=> Calling!EnforceExecutionCreation(c)
         /\ Ingestion!ReserveReplay(c) <=> Calling!ReserveReplay(c)
         /\ Ingestion!LookUp(c) <=> Calling!LookUp(c)
         /\ Ingestion!ReserveIdempotencyKey(c) <=> Calling!ReserveIdempotencyKey(c)
         /\ Ingestion!LookUpAgain(c) <=> Calling!LookUpAgain(c)
         /\ Ingestion!RollBack(c) <=> Calling!RollBack(c)
         /\ Ingestion!ExpireKey(c) <=> Calling!ExpireKey(c)
<1>1. Ingestion!Arrive(c) <=> Calling!Arrive(c)
  BY SameCardinality
  DEF Ingestion!Arrive, Calling!Arrive, Ingestion!Open, Calling!Open,
         Ingestion!InTransaction, Calling!InTransaction
<1>2. Ingestion!WebhookRows = Calling!WebhookRows
  BY DEF Ingestion!WebhookRows, Calling!WebhookRows, Ingestion!Input, Calling!Input
<1>3. \A u, l : Ingestion!LimitReached(u, l) <=> Calling!LimitReached(u, l)
  BY DEF Ingestion!LimitReached, Calling!LimitReached
<1>4. /\ Ingestion!EnforceWebhookRequest(c) <=> Calling!EnforceWebhookRequest(c)
      /\ Ingestion!EnforceExecutionCreation(c) <=> Calling!EnforceExecutionCreation(c)
  BY <1>2, <1>3, SameCardinality
  DEF Ingestion!EnforceWebhookRequest, Calling!EnforceWebhookRequest,
      Ingestion!EnforceExecutionCreation, Calling!EnforceExecutionCreation,
      Ingestion!Advance, Calling!Advance, Ingestion!Input, Calling!Input
<1>5. Ingestion!ReserveReplay(c) <=> Calling!ReserveReplay(c)
  BY DEF Ingestion!ReserveReplay, Calling!ReserveReplay, Ingestion!Advance, Calling!Advance,
         Ingestion!Keyed, Calling!Keyed, Ingestion!Input, Calling!Input
<1>6. Ingestion!Matching(c) = Calling!Matching(c)
  BY <1>2 DEF Ingestion!Matching, Calling!Matching, Ingestion!Input, Calling!Input
<1>7. \A r : Ingestion!AnswerWith(c, r) <=> Calling!AnswerWith(c, r)
  BY DEF Ingestion!AnswerWith, Calling!AnswerWith, Ingestion!Input, Calling!Input
<1>8. /\ Ingestion!LookUp(c) <=> Calling!LookUp(c)
      /\ Ingestion!LookUpAgain(c) <=> Calling!LookUpAgain(c)
  BY <1>6, <1>7
  DEF Ingestion!LookUp, Calling!LookUp, Ingestion!LookUpAgain, Calling!LookUpAgain,
      Ingestion!Advance, Calling!Advance
<1>9. Ingestion!ReserveIdempotencyKey(c) <=> Calling!ReserveIdempotencyKey(c)
  BY DEF Ingestion!ReserveIdempotencyKey, Calling!ReserveIdempotencyKey, Ingestion!Reserved,
         Calling!Reserved, Ingestion!Advance, Calling!Advance, Ingestion!Input, Calling!Input,
         Ingestion!Open, Calling!Open, Ingestion!InTransaction, Calling!InTransaction
<1>10. /\ Ingestion!RollBack(c) <=> Calling!RollBack(c)
       /\ Ingestion!ExpireKey(c) <=> Calling!ExpireKey(c)
  BY DEF Ingestion!RollBack, Calling!RollBack, Ingestion!ExpireKey, Calling!ExpireKey,
         Ingestion!CallFault, Calling!CallFault, Ingestion!Advance, Calling!Advance,
         Ingestion!Open, Calling!Open, Ingestion!InTransaction, Calling!InTransaction
<1>. QED BY <1>1, <1>4, <1>5, <1>8, <1>9, <1>10

LEMMA SameFromCommitOn ==
  ASSUME NEW c
  PROVE  /\ Ingestion!Commit(c) <=> Calling!Commit(c)
         /\ Ingestion!AcknowledgementLost(c) <=> Calling!AcknowledgementLost(c)
         /\ Ingestion!Enqueue(c) <=> Calling!Enqueue(c)
         /\ Ingestion!EnqueueUnrecorded(c) <=> Calling!EnqueueUnrecorded(c)
         /\ Ingestion!EnqueueRefused(c) <=> Calling!EnqueueRefused(c)
BY DEF Ingestion!Commit, Calling!Commit, Ingestion!AcknowledgementLost,
       Calling!AcknowledgementLost, Ingestion!Enqueue, Calling!Enqueue,
       Ingestion!EnqueueUnrecorded, Calling!EnqueueUnrecorded, Ingestion!EnqueueRefused,
       Calling!EnqueueRefused, Ingestion!CallFault, Calling!CallFault, Ingestion!Advance,
       Calling!Advance,
       Ingestion!Input, Calling!Input

\* A step of the whole is a step of the calls, or leaves them alone.
LEMMA CallsStep == [CallNext]_callVars => [Calling!IngestionNext]_Calling!ingestionVars
<1>. SUFFICES ASSUME [CallNext]_callVars PROVE [Calling!IngestionNext]_Calling!ingestionVars OBVIOUS
<1>1. ASSUME NEW c \in Executions, JointStep(c) PROVE Calling!IngestionNext
  <2>1. Calling!CallStep(c)
    BY <1>1, SameFromCommitOn
    DEF JointStep, Accept, AcceptUnacknowledged, HandOver, HandOverUnrecorded, HandOverFails,
        Calling!CallStep
  <2>. QED BY <2>1 DEF Calling!IngestionNext
<1>2. CASE IngestionStep
  <2>1. ASSUME NEW c \in Executions, Calling!BeforeCommit(c) PROVE Calling!IngestionNext
    BY <2>1 DEF Calling!BeforeCommit, Calling!CallStep, Calling!IngestionNext
  <2>2. ASSUME NEW k \in Keys, Calling!ExpireKey(k) PROVE Calling!IngestionNext
    BY <2>2 DEF Calling!IngestionNext
  <2>. QED
    BY <1>2, <2>1, <2>2, SameBeforeCommit DEF IngestionStep, Calling!BeforeCommit
<1>3. CASE UNCHANGED ingestionVars BY <1>3 DEF ingestionVars, Calling!ingestionVars
<1>. QED BY <1>1, <1>2, <1>3 DEF CallNext, callVars

CallInv == IInv /\ Calling!IngestionInv /\ Calling!AnswersInv /\ SameStory

LEMMA InitCallInv == CallInit => CallInv
<1>. SUFFICES ASSUME CallInit PROVE CallInv OBVIOUS
<1>1. IInv BY InitIInv DEF CallInit
<1>2. Calling!IngestionInit BY SameInit DEF CallInit
<1>3. Calling!IngestionInv BY <1>2, CallingAssumption, Calling!InitIngestion
<1>4. Calling!AnswersInv BY <1>2 DEF Calling!IngestionInit, Calling!AnswersInv
<1>5. SameStory
  BY <1>2, AcceptedCallsAssumption DEF CallInit, Init, Calling!IngestionInit, SameStory
<1>. QED BY <1>1, <1>3, <1>4, <1>5 DEF CallInv

\* A step of an execution that exists is one of ExecutionLifecycle.  It brings no execution into
\* being and takes none away, and it is no step of a call's request.
LEMMA LifecycleStepFacts ==
  ASSUME IInv, LifecycleStep
  PROVE  /\ Next
         /\ \A e \in Executions : status'[e] = Absent <=> status[e] = Absent
         /\ \A c \in Executions : request'[c] = request[c]
<1>. USE AcceptedCallsAssumption
<1>1. Next BY DEF LifecycleStep, Next
<1>2. status \in [Executions -> Status] /\ request \in [Requests -> RequestState]
  BY DEF IInv, TypeOK
<1>3. ASSUME NEW s \in Slots, slot[s].pc \in Writes, RowWritten(slot[s].exec, slot[s].pc)
      PROVE  \A e \in Executions : status'[e] = Absent <=> status[e] = Absent
  BY <1>2, <1>3 DEF RowWritten, StatusGuard, StatusWritten, Writes, Absent
<1>4. ASSUME NEW s \in Slots,
             \/ ProcessorStep(s)
             \/ CrashSlot(s) \/ ReadFails(s) \/ TransactionRollsBack(s) \/ CommitUnacknowledged(s)
      PROVE  /\ UNCHANGED request
             /\ \/ UNCHANGED status
                \/ slot[s].pc \in Writes /\ RowWritten(slot[s].exec, slot[s].pc)
  BY <1>4 DEF ProcessorStep, FindExecution, MarkRunning, EngineSucceeds, EngineFails,
              WorkflowUnavailable, SettleAttempt, UpdateMissed, SendFailureAlert, FinishJob,
              CrashSlot, ReadFails, TransactionRollsBack, CommitUnacknowledged, rowVars, Writes
<1>5. ASSUME NEW e \in Executions,
             \/ \E s \in Slots : Fetch(s, e)
             \/ LockExpires(e) \/ CheckStalled(e) \/ EvictFinishedJob(e)
      PROVE  UNCHANGED <<status, request>>
  BY <1>5 DEF Fetch, LockExpires, CheckStalled, EvictFinishedJob, rowVars
<1>6. ASSUME NEW r \in Retries, RequestStep(r) \/ EnqueueFails(r)
      PROVE  UNCHANGED status /\ \A c \in Executions : request'[c] = request[c]
  BY <1>2, <1>6 DEF RequestStep, RemoveJob, AddJob, EnqueueFails, rowVars
<1>7. ASSUME NEW r \in Retries, NEW e \in Executions, RetryTransaction(r, e)
      PROVE  /\ \A f \in Executions : status'[f] = Absent <=> status[f] = Absent
             /\ \A c \in Executions : request'[c] = request[c]
  BY <1>2, <1>7 DEF RetryTransaction, Absent
<1>. QED BY <1>1, <1>3, <1>4, <1>5, <1>6, <1>7 DEF LifecycleStep

\* The row of a call whose acknowledgement is lost is queued like any other.
LEMMA JointStepFacts ==
  ASSUME CallInv, NEW c \in Executions, JointStep(c)
  PROVE  /\ IInv' /\ SameStory'
         /\ [Next]_vars \/ AcceptUnacknowledged(c)
         /\ committed \subseteq committed'
<1>. USE AcceptedCallsAssumption, CallingAssumption, SameFromCommitOn
<1>1. /\ status \in [Executions -> Status] /\ request \in [Requests -> RequestState]
      /\ manual \in [Executions -> Nat] /\ Calling!IngestionInv /\ SameStory
  BY DEF CallInv, IInv, TypeOK
<1>2. CASE Accept(c)
  <2>1. Next BY <1>2 DEF Accept, Next
  <2>2. /\ call[c].pc = "commit" /\ committed' = committed \cup {c}
        /\ call'[c].pc = "enqueue" /\ \A d \in Executions : d # c => call'[d] = call[d]
    BY <1>1, <1>2, Calling!RowSeenAtCommit DEF Accept
  <2>3. /\ status' = [status EXCEPT ![c] = "queued"]
        /\ request' = [request EXCEPT ![c] = [pc |-> "add", exec |-> c]]
    BY <1>2 DEF Accept, CreateExecution
  <2>4. SameStory' BY <1>1, <2>2, <2>3 DEF SameStory, Absent
  <2>. QED BY <2>1, <2>2, <2>4, NextIInv DEF CallInv
<1>3. CASE AcceptUnacknowledged(c)
  <2>1. /\ call[c].pc = "commit" /\ c \notin committed /\ committed' = committed \cup {c}
        /\ call'[c].pc = "failed" /\ \A d \in Executions : d # c => call'[d] = call[d]
    BY <1>1, <1>3, Calling!RowSeenAtCommit DEF AcceptUnacknowledged
  <2>2. /\ status' = [status EXCEPT ![c] = "queued"]
        /\ UNCHANGED <<attempts, runs, slot, job, request, faults, manual, completions>>
    BY <1>3 DEF AcceptUnacknowledged, historyVars
  <2>3. status[c] = Absent BY <1>1, <2>1 DEF SameStory
  <2>4. IInv' BY <1>1, <2>2, <2>3, QueueingPreserves DEF CallInv
  <2>5. SameStory' BY <1>1, <2>1, <2>2 DEF SameStory, Absent
  <2>. QED BY <1>3, <2>1, <2>4, <2>5
<1>4. CASE HandOver(c) \/ HandOverUnrecorded(c) \/ HandOverFails(c)
  <2>1. /\ call[c].pc = "enqueue" /\ call'[c].pc \in {"accepted", "failed"}
        /\ UNCHANGED committed /\ \A d \in Executions : d # c => call'[d] = call[d]
    BY <1>1, <1>4, Calling!JobSeenAfterCommit DEF HandOver, HandOverUnrecorded, HandOverFails
  <2>2. AddJob(c) \/ EnqueueFails(c) BY <1>4 DEF HandOver, HandOverUnrecorded, HandOverFails
  <2>3. Next BY <2>2 DEF RequestStep, Next
  <2>4. request[c].pc = "add" BY <1>1, <2>1 DEF SameStory
  <2>5. UNCHANGED status /\ request' = [request EXCEPT ![c] = IdleRequest]
    BY <2>2, <2>4 DEF AddJob, EnqueueFails, rowVars
  <2>6. SameStory' BY <1>1, <2>1, <2>5 DEF SameStory
  <2>. QED BY <2>1, <2>3, <2>6, NextIInv DEF CallInv
<1>. QED BY <1>2, <1>3, <1>4 DEF JointStep

LEMMA NextCallInv == CallInv /\ [CallNext]_callVars => CallInv'
<1>. SUFFICES ASSUME CallInv, [CallNext]_callVars PROVE CallInv' OBVIOUS
<1>. USE CallingAssumption
<1>1. Calling!IngestionInv' /\ Calling!AnswersInv'
  BY CallsStep, Calling!NextIngestion, Calling!NextAnswers DEF CallInv
<1>2. ASSUME NEW c \in Executions, JointStep(c) PROVE IInv' /\ SameStory'
  BY <1>2, JointStepFacts
<1>3. CASE IngestionStep /\ UNCHANGED vars
  <2>1. UNCHANGED committed /\ \A c \in Executions : call'[c].pc = "enqueue" <=> call[c].pc = "enqueue"
    <3>1. ASSUME NEW c \in Executions, Calling!BeforeCommit(c)
          PROVE  /\ UNCHANGED committed
                 /\ \A d \in Executions : call'[d].pc = "enqueue" <=> call[d].pc = "enqueue"
      BY <3>1, Calling!NothingSeenBeforeCommit DEF CallInv, Calling!InTransaction
    <3>2. ASSUME NEW k \in Keys, Calling!ExpireKey(k) PROVE UNCHANGED <<call, committed>>
      BY <3>2 DEF Calling!ExpireKey
    <3>. QED BY <1>3, <3>1, <3>2, SameBeforeCommit DEF IngestionStep, Calling!BeforeCommit
  <2>2. IInv' BY <1>3, NextIInv DEF CallInv
  <2>. QED BY <1>1, <1>3, <2>1, <2>2 DEF CallInv, SameStory, vars
<1>4. CASE LifecycleStep /\ UNCHANGED ingestionVars
  BY <1>1, <1>4, LifecycleStepFacts, NextIInv DEF CallInv, SameStory, ingestionVars
<1>5. CASE UNCHANGED callVars
  <2>1. IInv' BY <1>5, NextIInv DEF CallInv, callVars
  <2>. QED BY <1>1, <1>5, <2>1 DEF CallInv, SameStory, callVars, vars, ingestionVars
<1>. QED BY <1>1, <1>2, <1>3, <1>4, <1>5 DEF CallInv, CallNext

LEMMA CallInvariant == CallSpec => []CallInv
BY InitCallInv, NextCallInv, PTL DEF CallSpec

\* The executions go through the lives ExecutionContract allows, also with the calls around them.
LEMMA CallStepImplements ==
  CallInv /\ [CallNext]_callVars => [Contract!ContractNext]_<<status, attempts>>
<1>. SUFFICES ASSUME CallInv, [CallNext]_callVars
              PROVE  [Contract!ContractNext]_<<status, attempts>>
  OBVIOUS
<1>1. [Next]_vars => [Contract!ContractNext]_<<status, attempts>> BY StepImplements DEF CallInv
<1>2. ASSUME NEW c \in Executions, JointStep(c)
      PROVE  [Contract!ContractNext]_<<status, attempts>>
  <2>1. CASE AcceptUnacknowledged(c)
    <3>1. c \notin committed
      BY <2>1, CallingAssumption, SameFromCommitOn, Calling!RowSeenAtCommit
      DEF AcceptUnacknowledged, CallInv
    <3>2. status[c] = Absent BY <3>1 DEF CallInv, SameStory
    <3>3. Contract!Accept(c)
      BY <2>1, <3>2
      DEF AcceptUnacknowledged, Contract!Accept, Contract!Moves, Contract!Absent, Absent
    <3>. QED BY <3>3 DEF Contract!ContractNext
  <2>. QED BY <1>1, <1>2, <2>1, JointStepFacts
<1>3. CASE LifecycleStep BY <1>1, <1>3, LifecycleStepFacts DEF CallInv
<1>. QED BY <1>1, <1>2, <1>3 DEF CallNext, callVars, vars, rowVars

THEOREM CalledRowsKeepContract == CallSpec => ImplementsContract
<1>1. CallInit => Contract!ContractInit
  BY DEF CallInit, Init, Contract!ContractInit, Contract!Absent, Absent
<1>2. CallInv /\ [CallNext]_callVars => [Contract!ContractNext]_Contract!contractVars
  BY CallStepImplements DEF Contract!contractVars
<1> QED BY <1>1, <1>2, CallInvariant, PTL DEF CallSpec, ImplementsContract,
           Contract!ContractSpec

---------------------------------------------------------------------------
(***************************************************************************)
(* A key is one execution.                                                 *)
(***************************************************************************)
KeysOfWorkflows == Workflows \X Keys

\* At most one execution stands behind a key, and its row is what is read there.
KeysRead ==
  \A x \in KeysOfWorkflows :
    /\ Created(x) = {} => KeyStatus[x] = Absent /\ KeyAttempts[x] = 0
    /\ \A c \in Created(x) :
         Created(x) = {c} /\ KeyStatus[x] = status[c] /\ KeyAttempts[x] = attempts[c]

LEMMA KeyFacts == CallInv => KeysRead
<1>. SUFFICES ASSUME CallInv, NEW x \in KeysOfWorkflows
              PROVE  /\ Created(x) = {} => KeyStatus[x] = Absent /\ KeyAttempts[x] = 0
                     /\ \A c \in Created(x) : /\ Created(x) = {c}
                                              /\ KeyStatus[x] = status[c]
                                              /\ KeyAttempts[x] = attempts[c]
  BY DEF KeysRead
<1>1. ASSUME NEW c \in Created(x), NEW d \in Created(x) PROVE c = d
  <2>1. x[2] # None
    BY AcceptedCallsAssumption DEF Ingestion!IngestionAssumption, KeysOfWorkflows
  <2>2. Calling!SameKey(c, d)
    BY <1>1, <2>1 DEF Created, Calling!SameKey, Ingestion!Input, Calling!Input
  <2>. QED
    BY <1>1, <2>2
    DEF Created, CallInv, Calling!IngestionInv, Calling!ExclusionInv, Calling!OneExecutionPerKey
<1>2. /\ KeyStatus[x] = IF Created(x) = {} THEN Absent ELSE status[Row(x)]
      /\ KeyAttempts[x] = IF Created(x) = {} THEN 0 ELSE attempts[Row(x)]
  BY DEF KeyStatus, KeyAttempts, KeysOfWorkflows
<1>3. Created(x) # {} => Row(x) \in Created(x) BY DEF Row
<1>. QED BY <1>1, <1>2, <1>3

\* The request of a committed call is there for good.
LEMMA CommittedStay ==
  ASSUME CallInv, [CallNext]_callVars
  PROVE  /\ committed \subseteq committed'
         /\ \A c \in committed : Ingestion!Input(c)' = Ingestion!Input(c)
<1>. USE CallingAssumption
<1>1. [Calling!IngestionNext]_Calling!ingestionVars BY CallsStep
<1>2. committed \subseteq Executions /\ \A c \in committed : call[c].pc # "new"
  BY DEF CallInv, Calling!IngestionInv, Calling!IngestionTypeOK, Calling!PcInv
<1>3. ASSUME NEW c \in Executions, Calling!CallStep(c)
      PROVE  /\ committed \subseteq committed'
             /\ \A d \in Executions : call[d].pc # "new" => call'[d].input = call[d].input
  BY <1>3, Calling!StepsKeepInputs DEF CallInv
<1>. QED
  BY <1>1, <1>2, <1>3 DEF Calling!IngestionNext, Calling!ExpireKey, Calling!ingestionVars,
      Ingestion!Input

\* A key is not read differently unless its execution moves.
LEMMA KeyRests ==
  ASSUME CallInv, CallInv', [CallNext]_callVars,
         NEW y \in KeysOfWorkflows,
         \A d \in Created(y)' : status'[d] = status[d] /\ attempts'[d] = attempts[d]
  PROVE  KeyStatus'[y] = KeyStatus[y] /\ KeyAttempts'[y] = KeyAttempts[y]
<1>1. /\ committed \subseteq committed' /\ committed' \subseteq Executions
      /\ \A c \in committed : Ingestion!Input(c)' = Ingestion!Input(c)
      /\ \A c \in Executions : status[c] # Absent <=> c \in committed
      /\ \A c \in Executions : status'[c] # Absent <=> c \in committed'
  BY CommittedStay DEF CallInv, SameStory, Calling!IngestionInv, Calling!IngestionTypeOK
<1>2. KeysRead BY KeyFacts
<1>3. KeysRead' BY KeyFacts, PTL
<1>4. Created(y)' = Created(y) BY <1>1 DEF Created
<1>. QED BY <1>2, <1>3, <1>4 DEF KeysRead

\* When an execution moves, so does its key and no other.
LEMMA KeyMoves ==
  ASSUME CallInv, CallInv', [CallNext]_callVars,
         NEW e \in Executions, NEW x \in KeysOfWorkflows, e \in Created(x)',
         \A d \in Executions : d # e => status'[d] = status[d] /\ attempts'[d] = attempts[d]
  PROVE  /\ KeyStatus[x] = status[e] /\ KeyAttempts[x] = attempts[e]
         /\ KeyStatus' = [KeyStatus EXCEPT ![x] = status'[e]]
         /\ KeyAttempts' = [KeyAttempts EXCEPT ![x] = attempts'[e]]
<1>1. /\ committed \subseteq committed' /\ committed' \subseteq Executions
      /\ \A c \in committed : Ingestion!Input(c)' = Ingestion!Input(c)
      /\ \A c \in Executions : status[c] # Absent <=> c \in committed
      /\ \A c \in Executions : status'[c] # Absent <=> c \in committed'
  BY CommittedStay DEF CallInv, SameStory, Calling!IngestionInv, Calling!IngestionTypeOK
<1>2. KeysRead BY KeyFacts
<1>3. KeysRead' BY KeyFacts, PTL
<1>4. \A y \in KeysOfWorkflows : Created(y) \subseteq Created(y)' BY <1>1 DEF Created
<1>5. Created(x)' = {e} /\ KeyStatus'[x] = status'[e] /\ KeyAttempts'[x] = attempts'[e]
  BY <1>3 DEF KeysRead
<1>6. KeyStatus[x] = status[e] /\ KeyAttempts[x] = attempts[e]
  <2>1. CASE e \in committed
    <3>1. e \in Created(x) BY <1>1, <2>1 DEF Created
    <3>. QED BY <1>2, <3>1 DEF KeysRead
  <2>2. CASE e \notin committed
    <3>1. Created(x) = {} BY <1>4, <1>5, <2>2 DEF Created
    <3>2. status[e] = Absent /\ attempts[e] = 0
      BY <1>1, <2>2 DEF CallInv, IInv, AttemptBudgetInv
    <3>. QED BY <1>2, <3>1, <3>2 DEF KeysRead
  <2>. QED BY <2>1, <2>2
<1>7. ASSUME NEW y \in KeysOfWorkflows, e \notin Created(y)'
      PROVE  KeyStatus'[y] = KeyStatus[y] /\ KeyAttempts'[y] = KeyAttempts[y]
  <2>1. \A d \in Created(y)' : d \in Executions /\ d # e BY <1>1, <1>7 DEF Created
  <2>. QED BY <2>1, KeyRests
<1>8. \A y \in KeysOfWorkflows : y # x => e \notin Created(y)'
  BY DEF Created, KeysOfWorkflows
<1>. QED BY <1>5, <1>6, <1>7, <1>8 DEF KeyStatus, KeyAttempts, KeysOfWorkflows

\* What ExecutionContract says of the one execution of a key, it says of the key.
LEMMA KeyStep ==
  ASSUME CallInv, CallInv', [CallNext]_callVars,
         NEW e \in Executions,
         \/ Contract!Accept(e) \/ Contract!Start(e) \/ Contract!Succeed(e) \/ Contract!Fail(e)
         \/ Contract!ScheduleRetry(e) \/ Contract!DeadLetter(e) \/ Contract!RetryByHand(e)
  PROVE  [KeyContract!ContractNext]_<<KeyStatus, KeyAttempts>>
<1>. USE DEF Contract!Absent, KeyContract!Absent
<1>1. /\ status \in [Executions -> Status] /\ attempts \in [Executions -> 0..MaxAttempts]
      /\ KeyStatus \in [KeysOfWorkflows -> {KeyStatus[y] : y \in KeysOfWorkflows}]
      /\ KeyAttempts \in [KeysOfWorkflows -> {KeyAttempts[y] : y \in KeysOfWorkflows}]
  BY DEF CallInv, IInv, TypeOK, KeyStatus, KeyAttempts, KeysOfWorkflows
<1>2. \A d \in Executions : d # e => status'[d] = status[d] /\ attempts'[d] = attempts[d]
  BY <1>1
  DEF Contract!Accept, Contract!Start, Contract!Succeed, Contract!Fail, Contract!ScheduleRetry,
      Contract!DeadLetter, Contract!RetryByHand, Contract!Moves
<1>3. CASE \E x \in KeysOfWorkflows : e \in Created(x)'
  <2>1. PICK x \in KeysOfWorkflows : e \in Created(x)' BY <1>3
  <2>2. /\ KeyStatus[x] = status[e] /\ KeyAttempts[x] = attempts[e]
        /\ KeyStatus' = [KeyStatus EXCEPT ![x] = status'[e]]
        /\ KeyAttempts' = [KeyAttempts EXCEPT ![x] = attempts'[e]]
    BY <1>2, <2>1, KeyMoves
  <2>3. ASSUME NEW from, NEW to, Contract!Moves(e, from, to) PROVE KeyContract!Moves(x, from, to)
    BY <1>1, <2>2, <2>3 DEF Contract!Moves, KeyContract!Moves
  <2>4. UNCHANGED attempts => UNCHANGED KeyAttempts BY <1>1, <2>2
  <2>5. CASE Contract!Accept(e)
    <3>1. KeyContract!Accept(x) BY <2>3, <2>4, <2>5 DEF Contract!Accept, KeyContract!Accept
    <3>. QED BY <2>1, <3>1 DEF KeyContract!ContractNext, KeysOfWorkflows
  <2>6. CASE Contract!Start(e)
    <3>1. attempts'[e] = attempts[e] + 1 BY <1>1, <2>6 DEF Contract!Start
    <3>2. KeyContract!Start(x)
      BY <2>2, <2>3, <2>6, <3>1 DEF Contract!Start, KeyContract!Start
    <3>. QED BY <2>1, <3>2 DEF KeyContract!ContractNext, KeysOfWorkflows
  <2>7. CASE Contract!Succeed(e) \/ Contract!Fail(e)
    <3>1. KeyContract!Succeed(x) \/ KeyContract!Fail(x)
      BY <2>3, <2>4, <2>7
      DEF Contract!Succeed, KeyContract!Succeed, Contract!Fail, KeyContract!Fail
    <3>. QED BY <2>1, <3>1 DEF KeyContract!ContractNext, KeysOfWorkflows
  <2>8. CASE Contract!ScheduleRetry(e) \/ Contract!DeadLetter(e)
    <3>1. KeyContract!ScheduleRetry(x) \/ KeyContract!DeadLetter(x)
      BY <2>2, <2>3, <2>4, <2>8
      DEF Contract!ScheduleRetry, KeyContract!ScheduleRetry, Contract!DeadLetter,
          KeyContract!DeadLetter
    <3>. QED BY <2>1, <3>1 DEF KeyContract!ContractNext, KeysOfWorkflows
  <2>9. CASE Contract!RetryByHand(e)
    <3>1. attempts'[e] = 0 BY <1>1, <2>9 DEF Contract!RetryByHand
    <3>2. KeyContract!RetryByHand(x)
      BY <2>2, <2>3, <2>9, <3>1 DEF Contract!RetryByHand, KeyContract!RetryByHand
    <3>. QED BY <2>1, <3>2 DEF KeyContract!ContractNext, KeysOfWorkflows
  <2>. QED BY <2>5, <2>6, <2>7, <2>8, <2>9
<1>4. CASE ~\E x \in KeysOfWorkflows : e \in Created(x)'
  <2>1. ASSUME NEW y \in KeysOfWorkflows
        PROVE  KeyStatus'[y] = KeyStatus[y] /\ KeyAttempts'[y] = KeyAttempts[y]
    <3>1. Created(y)' \subseteq Executions
      BY DEF Created, CallInv, Calling!IngestionInv, Calling!IngestionTypeOK
    <3>2. \A d \in Created(y)' : d \in Executions /\ d # e BY <1>4, <3>1
    <3>. QED BY <1>2, <3>2, KeyRests
  <2>. QED BY <2>1 DEF KeyStatus, KeyAttempts, KeysOfWorkflows
<1>. QED BY <1>3, <1>4

\* However often a key is sent to a workflow, and whatever fails in the API, in Redis or in a
\* worker, the key is accepted once and then lives as one execution: for every number of calls,
\* keys, workers and failures.
THEOREM KeysAreExecutions == CallSpec => KeyIsOneExecution
<1>1. CallInit => KeyContract!ContractInit
  BY DEF CallInit, Ingestion!IngestionInit, Created, KeyStatus, KeyAttempts,
      KeyContract!ContractInit,
         KeyContract!Absent, Absent
<1>2. CallInv /\ CallInv' /\ [CallNext]_callVars
        => [KeyContract!ContractNext]_KeyContract!contractVars
  <2>. SUFFICES ASSUME CallInv, CallInv', [CallNext]_callVars
                PROVE  [KeyContract!ContractNext]_<<KeyStatus, KeyAttempts>>
    BY DEF KeyContract!contractVars
  <2>1. CASE UNCHANGED <<status, attempts>>
    <3>1. \A y \in KeysOfWorkflows :
            KeyStatus'[y] = KeyStatus[y] /\ KeyAttempts'[y] = KeyAttempts[y]
      BY <2>1, KeyRests
    <3>. QED BY <3>1 DEF KeyStatus, KeyAttempts, KeysOfWorkflows
  <2>2. CASE Contract!ContractNext BY <2>2, KeyStep DEF Contract!ContractNext
  <2>. QED BY <2>1, <2>2, CallStepImplements
<1>. QED BY <1>1, <1>2, CallInvariant, PTL DEF CallSpec, KeyIsOneExecution,
            KeyContract!ContractSpec

---------------------------------------------------------------------------
(***************************************************************************)
(* What an accepted call is told of moves on.                              *)
(***************************************************************************)
CarriedInv ==
  /\ IdleInv
  /\ queued \subseteq committed
  /\ NoFault => \A e \in Executions : manual[e] = 0 => LeftBehind(e) \/ InOrder(e)

LEMMA InitCarried == CallInit => CarriedInv
BY InitOrder DEF CallInit, Ingestion!IngestionInit, CarriedInv, OrderInv, NoFault, Init

LEMMA NextCarried == CallInv /\ CarriedInv /\ [CallNext]_callVars => CarriedInv'
<1>. SUFFICES ASSUME CallInv, CarriedInv, [CallNext]_callVars PROVE CarriedInv' OBVIOUS
<1>. USE CallingAssumption
<1>1. IInv /\ Calling!IngestionInv /\ queued \subseteq committed /\ committed \subseteq Executions
  BY DEF CallInv, CarriedInv, Calling!IngestionInv, Calling!IngestionTypeOK
<1>2. ASSUME [Next]_vars, queued' \subseteq committed',
             \A e \in Executions : LeftBehind(e) => LeftBehind(e)'
      PROVE  CarriedInv'
  <2>1. OrderKept BY <1>1, <1>2, StepKeepsOrder DEF CarriedInv
  <2>. QED BY <1>2, <2>1 DEF CarriedInv, OrderKept
<1>3. ASSUME NEW c \in Executions, HandOver(c) \/ HandOverUnrecorded(c) \/ HandOverFails(c)
      PROVE  CarriedInv'
  <2>1. /\ call[c].pc = "enqueue" /\ c \in committed /\ UNCHANGED committed
        /\ queued' \in {queued, queued \cup {c}}
        /\ \A d \in Executions : d # c => call'[d] = call[d]
    BY <1>1, <1>3, SameFromCommitOn, Calling!JobSeenAfterCommit
    DEF HandOver, HandOverUnrecorded, HandOverFails
  <2>2. \A e \in Executions : LeftBehind(e) => LeftBehind(e)' BY <2>1 DEF LeftBehind
  <2>3. AddJob(c) \/ EnqueueFails(c) BY <1>3 DEF HandOver, HandOverUnrecorded, HandOverFails
  <2>4. Next BY <2>3, AcceptedCallsAssumption DEF RequestStep, Next
  <2>. QED BY <1>1, <1>2, <2>1, <2>2, <2>4
<1>4. ASSUME NEW c \in Executions, Accept(c) \/ AcceptUnacknowledged(c)
      PROVE  CarriedInv'
  <2>1. /\ call[c].pc = "commit" /\ c \notin committed /\ committed' = committed \cup {c}
        /\ UNCHANGED queued
        /\ AcceptUnacknowledged(c) => call'[c].pc = "failed"
        /\ \A d \in Executions : d # c => call'[d] = call[d]
    BY <1>1, <1>4, SameFromCommitOn, Calling!RowSeenAtCommit DEF Accept, AcceptUnacknowledged
  <2>2. queued' \subseteq committed' /\ c \notin queued BY <1>1, <2>1
  <2>3. \A e \in Executions : LeftBehind(e) => LeftBehind(e)' BY <2>1 DEF LeftBehind
  <2>4. CASE Accept(c)
    <3>1. Next BY <2>4, AcceptedCallsAssumption DEF Accept, Next
    <3>. QED BY <1>2, <2>2, <2>3, <3>1
  <2>5. CASE AcceptUnacknowledged(c)
    <3>1. LeftBehind(c)' BY <2>1, <2>2, <2>5 DEF LeftBehind
    <3>2. /\ UNCHANGED <<attempts, slot, job, request, faults, manual>>
          /\ \A e \in Executions : e # c => status'[e] = status[e]
      BY <1>1, <2>5 DEF AcceptUnacknowledged, historyVars, IInv, TypeOK
    <3>3. \A e \in Executions : e # c /\ InOrder(e) => InOrder(e)' BY <3>2, ElsewhereInOrder
    <3>. QED BY <2>2, <2>3, <3>1, <3>2, <3>3 DEF CarriedInv, IdleInv, NoFault
  <2>. QED BY <1>4, <2>4, <2>5
<1>5. CASE IngestionStep /\ UNCHANGED vars
  <2>1. ASSUME NEW c \in Executions, Calling!BeforeCommit(c)
        PROVE  /\ UNCHANGED <<committed, queued>>
               /\ \A e \in Executions : LeftBehind(e) => LeftBehind(e)'
    BY <1>1, <2>1, Calling!NothingSeenBeforeCommit DEF Calling!InTransaction, LeftBehind
  <2>2. ASSUME NEW k \in Keys, Calling!ExpireKey(k) PROVE UNCHANGED <<call, committed, queued>>
    BY <2>2 DEF Calling!ExpireKey
  <2>3. /\ UNCHANGED <<committed, queued>>
        /\ \A e \in Executions : LeftBehind(e) => LeftBehind(e)'
    BY <1>5, <2>1, <2>2, SameBeforeCommit
    DEF IngestionStep, Calling!BeforeCommit, LeftBehind
  <2>. QED BY <1>1, <1>2, <1>5, <2>3
<1>6. CASE LifecycleStep /\ UNCHANGED ingestionVars
  BY <1>1, <1>2, <1>6, LifecycleStepFacts DEF ingestionVars, LeftBehind
<1>7. CASE UNCHANGED callVars
  BY <1>1, <1>2, <1>7 DEF callVars, ingestionVars, LeftBehind
<1>. QED BY <1>3, <1>4, <1>5, <1>6, <1>7 DEF CallNext, JointStep

\* As long as no worker, lock or hand-over has failed: an execution that a call was answered with
\* is settled or has something that will settle it, unless it was retried by hand or its creator
\* failed before it added the job.
THEOREM AcceptedMovesOn == CallSpec => []AcceptedCallsAreCarried
<1>1. CallInv /\ CarriedInv => AcceptedCallsAreCarried
  <2>. SUFFICES ASSUME CallInv, CarriedInv, NoFault, NEW c \in Executions, Promised(c)
                PROVE  \/ status[call[c].answer] \in Settled \/ manual[call[c].answer] > 0
                       \/ HasCarrier(call[c].answer)
    BY DEF AcceptedCallsAreCarried, NoFault
  <2>1. call[c].answer \in committed /\ call[c].answer \in Executions
    BY DEF CallInv, Promised, Calling!AnswersInv, Calling!Answers, Calling!IngestionInv,
           Calling!IngestionTypeOK
  <2>2. status[call[c].answer] # Absent BY <2>1 DEF CallInv, SameStory
  <2>3. manual[call[c].answer] \in Nat BY <2>1 DEF CallInv, IInv, TypeOK
  <2>4. manual[call[c].answer] = 0 => InOrder(call[c].answer)
    BY <2>1 DEF CarriedInv, Promised
  <2>. QED BY <2>1, <2>2, <2>3, <2>4, InOrderIsCarried
<1>. QED BY <1>1, InitCarried, NextCarried, CallInvariant, PTL DEF CallSpec
=============================================================================
