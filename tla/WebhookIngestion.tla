-------------------------- MODULE WebhookIngestion --------------------------
(***************************************************************************)
(* How a call of the public webhook endpoint, or of the automation bridge, *)
(* becomes an execution and a job: receive-public-webhook.use-case.ts and  *)
(* execute-automation-workflow.use-case.ts, for the workflows of one       *)
(* workspace.  Everything up to the commit runs in a READ COMMITTED        *)
(* transaction: its reads see what others committed, its own inserts are   *)
(* visible to others only then.  Redis markers are set at once and are not *)
(* rolled back, and the job is added after the commit.                     *)
(***************************************************************************)
EXTENDS Integers, FiniteSets

CONSTANTS
  Calls,           \* calls of the endpoints
  Inputs,          \* what a call may carry: see InputShape
  Workflows, Keys, Payloads, Signatures,
  Nothing,         \* no idempotency key, no signature
  WebhookLimit,    \* plan limit: webhook requests of a usage period
  ExecutionLimit,  \* plan limit: executions of a usage period
  MaxOpen,         \* transactions open at once: the connection pools of the API processes
  MaxFaults        \* bound: database, queue and process failures

InputShape ==
  [trigger : {"webhook", "automation"}, workflow : Workflows, key : Keys \cup {Nothing},
   payload : Payloads, signature : Signatures \cup {Nothing}]

\* A webhook is signed, and a signature covers the payload.
ASSUME IngestionAssumption ==
  /\ Inputs \subseteq InputShape
  /\ Nothing \notin Calls \cup Keys \cup Signatures
  /\ IsFiniteSet(Calls)
  /\ WebhookLimit \in Nat
  /\ ExecutionLimit \in Nat
  /\ MaxOpen \in Nat \ {0}
  /\ MaxFaults \in Nat
  /\ \A i \in Inputs : i.trigger = "webhook" <=> i.signature # Nothing
  /\ \A i, j \in Inputs :
       i.signature # Nothing /\ i.signature = j.signature => i.payload = j.payload

VARIABLES
  call,      \* where the handler of each call stands, with its input and its answer
  committed, \* the calls whose webhook_requests, executions and usage_records rows are committed
  replays,   \* ws:<id>:replay:<hash> markers, by signature
  markers,   \* ws:<id>:idem:<hash> markers: <<key, call>>, the call that set it
  overlaps,  \* history: <<key, call>>, the transaction overlapped that of the marker's call
  queued,    \* the executions, named by the call that created them, whose job was added
  callFaults \* how many failures there have been

ingestionVars == <<call, committed, replays, markers, overlaps, queued, callFaults>>

InTransaction ==
  {"webhook_limit", "execution_limit", "replay", "lookup", "reserve", "relookup", "commit"}
Finished == {"accepted", "rejected", "failed"}
CallState ==
  [pc : {"new", "enqueue"} \cup InTransaction \cup Finished,
   input : Inputs \cup {Nothing}, answer : Calls \cup {Nothing}]

Open == {c \in Calls : call[c].pc \in InTransaction}

\* Every variable keeps its type, and markers stand for idempotency keys alone.
IngestionTypeOK ==
  /\ call \in [Calls -> CallState]
  /\ \A c \in Calls : call[c].pc # "new" => call[c].input \in Inputs
  /\ \A c \in Calls : call[c].pc = "accepted" => call[c].answer \in Calls
  /\ committed \subseteq Calls
  /\ replays \subseteq Signatures
  /\ markers \subseteq Keys \X Calls
  /\ overlaps \subseteq Keys \X Calls
  /\ queued \subseteq Calls
  /\ callFaults \in 0..MaxFaults

IngestionInit ==
  /\ call = [c \in Calls |-> [pc |-> "new", input |-> Nothing, answer |-> Nothing]]
  /\ committed = {}
  /\ replays = {}
  /\ markers = {}
  /\ overlaps = {}
  /\ queued = {}
  /\ callFaults = 0

Input(c) == call[c].input
Advance(c, pc) == call' = [call EXCEPT ![c].pc = pc]
CallFault ==
  /\ callFaults < MaxFaults
  /\ callFaults' = callFaults + 1

WebhookRows == {c \in committed : Input(c).trigger = "webhook"}

\* assertPlanLimitAvailable: what is used has reached the limit.
\* Seeded regression: the last unit may be used twice.
LimitExceeded(used, limit) == used > limit
LimitReached(used, limit) == used >= limit

---------------------------------------------------------------------------
(***************************************************************************)
(* The transaction.                                                        *)
(***************************************************************************)

\* The workflow is published and of the trigger, and the signature is valid and fresh: a call
\* that fails these changes nothing and is not modelled.
Arrive(c) ==
  /\ call[c].pc = "new"
  /\ Cardinality(Open) < MaxOpen
  /\ \E i \in Inputs :
       call' = [call EXCEPT
         ![c] = [pc |-> IF i.trigger = "webhook" THEN "webhook_limit" ELSE "execution_limit",
                 input |-> i, answer |-> Nothing]]
  /\ overlaps' = overlaps \cup {<<m[1], c>> : m \in {m \in markers : m[2] \in Open}}
  /\ UNCHANGED <<committed, replays, markers, queued, callFaults>>

EnforceWebhookRequest(c) ==
  /\ call[c].pc = "webhook_limit"
  /\ Advance(c, IF LimitReached(Cardinality(WebhookRows), WebhookLimit)
             THEN "rejected" ELSE "execution_limit")
  /\ UNCHANGED <<committed, replays, markers, overlaps, queued, callFaults>>

EnforceExecutionCreation(c) ==
  /\ call[c].pc = "execution_limit"
  /\ Advance(c, IF LimitReached(Cardinality(committed), ExecutionLimit) THEN "rejected"
             ELSE IF Input(c).trigger = "webhook" THEN "replay" ELSE "commit")
  /\ UNCHANGED <<committed, replays, markers, overlaps, queued, callFaults>>

Keyed(c) == Input(c).key # Nothing

\* A signature header is good for one call, whatever becomes of that call.
ReserveReplay(c) ==
  /\ call[c].pc = "replay"
  /\ replays' = replays \cup {Input(c).signature}
  /\ Advance(c, IF Input(c).signature \in replays THEN "rejected"
             ELSE IF Keyed(c) THEN "lookup" ELSE "commit")
  /\ UNCHANGED <<committed, markers, overlaps, queued, callFaults>>

\* Seeded regression: requests are looked up by key in the whole workspace, as markers are.
MatchingInWorkspace(c) == {r \in WebhookRows : Input(r).key = Input(c).key}

\* findLatestByIdempotencyKey.
Matching(c) ==
  {r \in WebhookRows : Input(r).workflow = Input(c).workflow /\ Input(r).key = Input(c).key}

\* The stored request answers the call if it has the same payload.  Its execution was inserted
\* with it, so resolveOrCreateWebhookExecution() finds it and nothing is enqueued.
AnswerWith(c, r) ==
  call' = IF Input(r).payload = Input(c).payload
          THEN [call EXCEPT ![c] = [pc |-> "accepted", input |-> Input(c), answer |-> r]]
          ELSE [call EXCEPT ![c].pc = "rejected"]

LookUp(c) ==
  /\ call[c].pc = "lookup"
  /\ \/ Matching(c) = {} /\ Advance(c, "reserve")
     \/ \E r \in Matching(c) : AnswerWith(c, r)
  /\ UNCHANGED <<committed, replays, markers, overlaps, queued, callFaults>>

\* Seeded regression: the reservation always succeeds, as a plain SET would.
NeverReserved(c) == FALSE
Reserved(c) == \E m \in markers : m[1] = Input(c).key

\* SET NX.
ReserveIdempotencyKey(c) ==
  /\ call[c].pc = "reserve"
  /\ IF Reserved(c)
     THEN /\ Advance(c, "relookup")
          /\ UNCHANGED <<markers, overlaps>>
     ELSE /\ Advance(c, "commit")
          /\ markers' = markers \cup {<<Input(c).key, c>>}
          /\ overlaps' = overlaps \cup ({Input(c).key} \X Open)
  /\ UNCHANGED <<committed, replays, queued, callFaults>>

\* Someone else holds the key: their row answers if it is committed by now, else the call is
\* told that the key is already being processed.
LookUpAgain(c) ==
  /\ call[c].pc = "relookup"
  /\ \/ Matching(c) = {} /\ Advance(c, "rejected")
     \/ \E r \in Matching(c) : AnswerWith(c, r)
  /\ UNCHANGED <<committed, replays, markers, overlaps, queued, callFaults>>

\* The request, its execution and their usage, inserted in one transaction.
Commit(c) ==
  /\ call[c].pc = "commit"
  /\ committed' = committed \cup {c}
  /\ call' = [call EXCEPT ![c] = [pc |-> "enqueue", input |-> Input(c), answer |-> c]]
  /\ UNCHANGED <<replays, markers, overlaps, queued, callFaults>>

---------------------------------------------------------------------------
(***************************************************************************)
(* After the commit, and failures.                                         *)
(***************************************************************************)

Enqueue(c) ==
  /\ call[c].pc = "enqueue"
  /\ queued' = queued \cup {c}
  /\ Advance(c, "accepted")
  /\ UNCHANGED <<committed, replays, markers, overlaps, callFaults>>

\* The database fails, the transaction times out or the process dies: the rows are gone, the
\* markers stay.
RollBack(c) ==
  /\ c \in Open
  /\ CallFault
  /\ Advance(c, "failed")
  /\ UNCHANGED <<committed, replays, markers, overlaps, queued>>

\* The commit succeeds but its acknowledgement is lost.
AcknowledgementLost(c) ==
  /\ call[c].pc = "commit"
  /\ CallFault
  /\ committed' = committed \cup {c}
  /\ Advance(c, "failed")
  /\ UNCHANGED <<replays, markers, overlaps, queued>>

\* Redis refuses the job, or the process dies first.
EnqueueRefused(c) ==
  /\ call[c].pc = "enqueue"
  /\ CallFault
  /\ Advance(c, "failed")
  /\ UNCHANGED <<committed, replays, markers, overlaps, queued>>

\* The job is added, and the audit record that follows it fails.
EnqueueUnrecorded(c) ==
  /\ call[c].pc = "enqueue"
  /\ CallFault
  /\ queued' = queued \cup {c}
  /\ Advance(c, "failed")
  /\ UNCHANGED <<committed, replays, markers, overlaps>>

\* A marker lives at least 300 s and a transaction at most 15 s, so that when a marker goes, the
\* transaction that set it is over, and so is every transaction that overlapped that one.
ExpireKey(k) ==
  /\ \E m \in markers : m[1] = k
  /\ \A c \in Open : <<k, c>> \notin overlaps
  /\ markers' = {m \in markers : m[1] # k}
  /\ overlaps' = {o \in overlaps : o[1] # k}
  /\ UNCHANGED <<call, committed, replays, queued, callFaults>>

CallStep(c) ==
  \/ Arrive(c) \/ EnforceWebhookRequest(c) \/ EnforceExecutionCreation(c) \/ ReserveReplay(c)
  \/ LookUp(c) \/ ReserveIdempotencyKey(c) \/ LookUpAgain(c) \/ Commit(c) \/ Enqueue(c)
  \/ RollBack(c) \/ AcknowledgementLost(c) \/ EnqueueRefused(c) \/ EnqueueUnrecorded(c)

IngestionNext ==
  \/ \E c \in Calls : CallStep(c)
  \/ \E k \in Keys : ExpireKey(k)

IngestionSpec == IngestionInit /\ [][IngestionNext]_ingestionVars

---------------------------------------------------------------------------
(***************************************************************************)
(* Properties.                                                             *)
(***************************************************************************)

SameKey(c, d) ==
  /\ Input(c).trigger = "webhook" /\ Input(d).trigger = "webhook"
  /\ Input(c).workflow = Input(d).workflow
  /\ Input(c).key = Input(d).key /\ Input(c).key # Nothing

\* Whatever the interleaving, the failures and the expiry of markers, an idempotency key of a
\* workflow creates one execution: the Redis marker excludes the transactions that could not yet
\* see the row, and the row answers every later call.
OneExecutionPerKey == \A c, d \in committed : SameKey(c, d) => c = d

\* An accepted webhook call is answered with a committed execution of its own workflow and
\* payload, and two accepted calls with one key are answered with the same execution.
AnswersAgree ==
  /\ \A c \in Calls : call[c].pc = "accepted" =>
       /\ call[c].answer \in committed
       /\ Input(call[c].answer).workflow = Input(c).workflow
       /\ Input(call[c].answer).payload = Input(c).payload
  /\ \A c, d \in Calls :
       /\ call[c].pc = "accepted" /\ call[d].pc = "accepted"
       /\ SameKey(c, d)
       => call[c].answer = call[d].answer

\* The limits are read before the rows they count are written, and nothing locks the two
\* together.  The overshoot is what can be in flight: at most one call per open transaction.
OvershootBounded ==
  /\ Cardinality(WebhookRows) <= WebhookLimit + MaxOpen - 1
  /\ Cardinality(committed) <= ExecutionLimit + MaxOpen - 1

\* When a call has been told that its execution is accepted, and the call that created that
\* execution is over, the execution has a job: "the API enqueues a workspace-scoped BullMQ job"
\* (docs/architecture.md).
AcceptedExecutionIsEnqueued ==
  \A c \in Calls :
    call[c].pc = "accepted" /\ call[call[c].answer].pc \in Finished => call[c].answer \in queued
=============================================================================
