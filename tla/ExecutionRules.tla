--------------------------- MODULE ExecutionRules ---------------------------
(***************************************************************************)
(* The pure rules an execution obeys: its statuses, the transition table   *)
(* and the classification of a processing error.  Translated from          *)
(* packages/domain/src/execution/execution-rules.ts.                       *)
(***************************************************************************)
EXTENDS Integers

CONSTANT MaxAttempts   \* EXECUTION_RETRY_MAX_ATTEMPTS: the worker's and the producer's bound

ASSUME MaxAttemptsAssumption == MaxAttempts \in Nat \ {0}

ExecutionStatus ==
  {"queued", "running", "succeeded", "failed", "retrying", "dead_letter", "cancelled"}

ExecutionTransitions ==
  [queued      |-> {"running", "cancelled"},
   running     |-> {"succeeded", "failed", "retrying", "dead_letter", "cancelled"},
   succeeded   |-> {},
   failed      |-> {"dead_letter", "cancelled"},
   retrying    |-> {"running", "queued", "dead_letter", "cancelled"},
   dead_letter |-> {"queued"},
   cancelled   |-> {}]

\* A processing error, reduced to the two facts its classification reads: the list its code
\* is on, and whether its category is one of NON_RETRYABLE_ERROR_CATEGORIES.
ErrorClass ==
  [code     : {"retryable", "non_retryable", "unlisted"},
   category : {"retryable", "non_retryable"}]

\* What a throw that is not a DomainError becomes (EXECUTION_PROCESSING_FAILED, internal).
InternalFailure == [code |-> "retryable", category |-> "retryable"]

\* EXECUTION_NOT_READY_FOR_PROCESSING, thrown when a conditional update matched no row.
NotReady == [code |-> "non_retryable", category |-> "non_retryable"]

IsRetryableExecutionError(err) ==
  \/ err.code = "retryable"
  \/ err.code = "unlisted" /\ err.category = "retryable"

\* Seeded regression: one retry too many.
ShouldRetryPastBudget(err, attempt) ==
  IsRetryableExecutionError(err) /\ attempt <= MaxAttempts

ShouldRetry(err, attempt) == IsRetryableExecutionError(err) /\ attempt < MaxAttempts
=============================================================================
