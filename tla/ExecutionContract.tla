------------------------- MODULE ExecutionContract -------------------------
(***************************************************************************)
(* What an execution promises to whoever reads its row, whatever the       *)
(* workers, the queue and the API do underneath: it is accepted once, it   *)
(* is tried at most MaxAttempts times per acceptance or manual retry, only *)
(* an exhausted execution is dead-lettered, only a dead-lettered one is    *)
(* retried by hand, and succeeded and failed are final.                    *)
(***************************************************************************)
EXTENDS ExecutionRules

CONSTANT Executions

VARIABLES status, attempts

contractVars == <<status, attempts>>

Absent == "absent"     \* no row in the executions table

ContractInit ==
  /\ status = [e \in Executions |-> Absent]
  /\ attempts = [e \in Executions |-> 0]

Moves(e, from, to) ==
  /\ status[e] \in from
  /\ status' = [status EXCEPT ![e] = to]

Accept(e) ==
  /\ Moves(e, {Absent}, "queued")
  /\ UNCHANGED attempts

Start(e) ==
  /\ Moves(e, {"queued", "retrying"}, "running")
  /\ attempts[e] < MaxAttempts
  /\ attempts' = [attempts EXCEPT ![e] = @ + 1]

Succeed(e) == Moves(e, {"running"}, "succeeded") /\ UNCHANGED attempts

Fail(e) == Moves(e, {"running"}, "failed") /\ UNCHANGED attempts

ScheduleRetry(e) ==
  /\ Moves(e, {"running"}, "retrying")
  /\ attempts[e] < MaxAttempts
  /\ UNCHANGED attempts

DeadLetter(e) ==
  /\ Moves(e, {"running"}, "dead_letter")
  /\ attempts[e] = MaxAttempts
  /\ UNCHANGED attempts

RetryByHand(e) ==
  /\ Moves(e, {"dead_letter"}, "queued")
  /\ attempts' = [attempts EXCEPT ![e] = 0]

ContractNext ==
  \E e \in Executions :
    \/ Accept(e)
    \/ Start(e)
    \/ Succeed(e)
    \/ Fail(e)
    \/ ScheduleRetry(e)
    \/ DeadLetter(e)
    \/ RetryByHand(e)

ContractSpec == ContractInit /\ [][ContractNext]_contractVars
=============================================================================
