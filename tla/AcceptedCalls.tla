--------------------------- MODULE AcceptedCalls ---------------------------
(***************************************************************************)
(* A call of the public webhook endpoint, or of the automation bridge, from *)
(* its arrival to the end of the execution it is answered with:            *)
(* WebhookIngestion and ExecutionLifecycle at work together.  An execution *)
(* is named by the call that creates it, and that call is also the API     *)
(* request that adds its job.  What both modules describe, the commit and  *)
(* the hand-over to the queue, is one step of both; every other step is a  *)
(* step of one and leaves the other alone.                                 *)
(***************************************************************************)
EXTENDS ExecutionLifecycle

CONSTANTS
  Retries,         \* the API requests that are not calls: manual retries
  Inputs, Workflows, Keys, Payloads, Signatures, WebhookLimit, ExecutionLimit, MaxOpen,
  MaxCallFaults    \* bound: failures of calls

VARIABLES call, committed, replays, markers, overlaps, queued, callFaults

ingestionVars == <<call, committed, replays, markers, overlaps, queued, callFaults>>

Ingestion ==
  INSTANCE WebhookIngestion
    WITH Calls <- Executions, Nothing <- None, MaxFaults <- MaxCallFaults

ASSUME AcceptedCallsAssumption ==
  /\ Ingestion!IngestionAssumption
  /\ Requests = Executions \cup Retries
  /\ Executions \cap Retries = {}

CallInit == Init /\ Ingestion!IngestionInit

---------------------------------------------------------------------------
(***************************************************************************)
(* Steps of both.                                                          *)
(***************************************************************************)

\* The transaction of a call commits its request, its execution and their usage.
Accept(c) == Ingestion!Commit(c) /\ CreateExecution(c, c)

\* The same, and the call is told that it failed: the row stays, and nobody adds its job.
AcceptUnacknowledged(c) ==
  /\ Ingestion!AcknowledgementLost(c)
  /\ status' = [status EXCEPT ![c] = "queued"]
  /\ UNCHANGED <<attempts, runs, slot, job, request, faults, historyVars>>

\* Seeded regression: the caller is answered and the job forgotten.
HandOverForgotten(c) ==
  /\ Ingestion!Enqueue(c)
  /\ request' = [request EXCEPT ![c] = IdleRequest]
  /\ UNCHANGED <<rowVars, slot, job, faults, historyVars>>

\* The job is added and the call answered.
HandOver(c) == Ingestion!Enqueue(c) /\ AddJob(c)

\* The job is added, and the audit record that follows it fails.
HandOverUnrecorded(c) == Ingestion!EnqueueUnrecorded(c) /\ AddJob(c)

HandOverFails(c) == Ingestion!EnqueueRefused(c) /\ EnqueueFails(c)

JointStep(c) ==
  \/ Accept(c) \/ AcceptUnacknowledged(c)
  \/ HandOver(c) \/ HandOverUnrecorded(c) \/ HandOverFails(c)

(***************************************************************************)
(* Steps of one.                                                           *)
(***************************************************************************)

\* What a call does before its commit, and the expiry of markers.
IngestionStep ==
  \/ \E c \in Executions :
       \/ Ingestion!Arrive(c)
       \/ Ingestion!EnforceWebhookRequest(c)
       \/ Ingestion!EnforceExecutionCreation(c)
       \/ Ingestion!ReserveReplay(c)
       \/ Ingestion!LookUp(c)
       \/ Ingestion!ReserveIdempotencyKey(c)
       \/ Ingestion!LookUpAgain(c)
       \/ Ingestion!RollBack(c)
  \/ \E k \in Keys : Ingestion!ExpireKey(k)

\* What happens to executions that exist.
LifecycleStep ==
  \/ \E s \in Slots : ProcessorStep(s)
  \/ \E s \in Slots :
       CrashSlot(s) \/ ReadFails(s) \/ TransactionRollsBack(s) \/ CommitUnacknowledged(s)
  \/ \E s \in Slots, e \in Executions : Fetch(s, e)
  \/ \E e \in Executions : LockExpires(e) \/ CheckStalled(e) \/ EvictFinishedJob(e)
  \/ \E r \in Retries : RequestStep(r) \/ EnqueueFails(r)
  \/ \E r \in Retries, e \in Executions : RetryTransaction(r, e)

CallNext ==
  \/ \E c \in Executions : JointStep(c)
  \/ IngestionStep /\ UNCHANGED vars
  \/ LifecycleStep /\ UNCHANGED ingestionVars

callVars == <<vars, ingestionVars>>

CallSpec == CallInit /\ [][CallNext]_callVars

\* Node runs a processor and a request to their next await; BullMQ fetches waiting jobs and
\* checks for stalled ones on a timer.  Nothing is assumed of clients, of calls before their
\* commit, of faults or of eviction.
Alone(A) == A /\ UNCHANGED ingestionVars

CallFairness ==
  /\ \A c \in Executions : WF_callVars(HandOver(c))
  /\ \A s \in Slots : WF_callVars(Alone(ProcessorStep(s)))
  /\ \A r \in Retries : WF_callVars(Alone(RequestStep(r)))
  /\ \A e \in Executions : WF_callVars(Alone(\E s \in Slots : Fetch(s, e)))
  /\ \A e \in Executions : WF_callVars(Alone(CheckStalled(e)))
  /\ \A e \in Executions : WF_callVars(Alone(~HolderAlive(e) /\ LockExpires(e)))

FairCallSpec == CallSpec /\ CallFairness

---------------------------------------------------------------------------
(***************************************************************************)
(* Properties.                                                             *)
(***************************************************************************)

\* The committed calls that carried key x[2] to workflow x[1].
Created(x) ==
  {c \in committed :
     /\ Ingestion!Input(c).trigger = "webhook"
     /\ Ingestion!Input(c).workflow = x[1]
     /\ Ingestion!Input(c).key = x[2]}

Row(x) == CHOOSE c \in Created(x) : TRUE

\* What the rows say of a key: nothing, or what they say of its execution.
KeyStatus == [x \in Workflows \X Keys |-> IF Created(x) = {} THEN Absent ELSE status[Row(x)]]
KeyAttempts == [x \in Workflows \X Keys |-> IF Created(x) = {} THEN 0 ELSE attempts[Row(x)]]

\* An idempotency key of a workflow is one execution: however its calls are repeated, interleave
\* and fail, what stands behind the key is accepted once, and from then on goes through the life
\* that ExecutionContract promises of a row.
KeyContract ==
  INSTANCE ExecutionContract
    WITH Executions <- Workflows \X Keys, status <- KeyStatus, attempts <- KeyAttempts
KeyIsOneExecution == KeyContract!ContractSpec

\* The call that created e failed between its commit and the hand-over.
LeftBehind(e) == call[e].pc = "failed" /\ e \notin queued

\* Call c has been told "accepted", as the creator of its execution or because it found the row.
Promised(c) == call[c].pc = "accepted" /\ ~LeftBehind(call[c].answer)

\* Until a worker, a lock, a transaction of a worker or a hand-over fails: whoever is told
\* "accepted" is told of an execution that is settled, retried by hand, or that something is left
\* to settle, also when its creator has not yet added the job, or was told that it failed although
\* the job is there.  The one exception is a creator that never came to add it.
AcceptedCallsAreCarried ==
  (\A k \in FaultKinds : faults[k] = 0) => \A c \in Executions :
    Promised(c) =>
      LET e == call[c].answer IN status[e] \in Settled \/ manual[e] > 0 \/ HasCarrier(e)

\* And it is settled in the end, unless such a failure or a manual retry comes in between.
AcceptedCallsSettle ==
  \A c \in Executions :
    Promised(c)
      ~> \/ Promised(c) /\ LET e == call[c].answer IN status[e] \in Settled \/ manual[e] > 0
         \/ \E k \in FaultKinds : faults[k] > 0

---------------------------------------------------------------------------
\* What joins the two in the proofs: the rows are those of the committed calls, and a call's
\* request is at work exactly between its commit and the hand-over.
SameStory ==
  \A c \in Executions :
    /\ status[c] # Absent <=> c \in committed
    /\ request[c] = IF call[c].pc = "enqueue" THEN [pc |-> "add", exec |-> c] ELSE IdleRequest
=============================================================================
