----------------------------- MODULE StepEngine -----------------------------
(***************************************************************************)
(* The workflow engine inside one attempt of an execution (execute() of    *)
(* execution-engine.ts), over the successive runs of that execution.  The  *)
(* runs never overlap (SingleOwner of ExecutionLifecycle), but a step that *)
(* timed out lost a Promise.race and nothing else: its call carries on in  *)
(* the background while the execution fails, is retried and runs again.    *)
(***************************************************************************)
EXTENDS Integers, FiniteSets

CONSTANTS
  StepCount,   \* steps of the workflow, in list order 1..StepCount
  Branches,    \* branch values a step may return
  Workflows,   \* the workflow definitions the execution may run
  MaxAttempts, \* executions of one retry budget (a manual retry starts a new one)
  MaxRuns,     \* bound: runs of the execution
  MaxDbFaults  \* bound: failures of a database call

Steps == 1..StepCount
NoStep == 0
NoBranch == "no branch"
Failed == "failed call"
Results == Branches \cup {NoBranch, Failed}
Metered == "metered"    \* http and ai_decision: a plan limit before, a usage record after
Kinds == {Metered, "notification", "condition"}
Runs == 1..MaxRuns

\* What readWorkflowDefinition accepts: keys are unique, and every target is a step.  Nothing
\* forbids a cycle.
ValidWorkflow ==
  [entry : Steps, kind : [Steps -> Kinds],
   onSuccess : [Steps -> Steps \cup {NoStep}], onFailure : [Steps -> Steps \cup {NoStep}],
   branch : [Steps -> [Branches -> Steps \cup {NoStep}]]]

ASSUME EngineAssumption ==
  /\ StepCount \in Nat \ {0}
  /\ MaxAttempts \in Nat \ {0}
  /\ MaxRuns \in Nat
  /\ MaxDbFaults \in Nat
  /\ NoBranch \notin Branches
  /\ Failed \notin Branches
  /\ Workflows \subseteq ValidWorkflow

VARIABLES
  workflow,  \* the published definition
  engine,    \* where execute() stands: its loop, its step, its visited set, how it ended
  run,       \* number of the current run; it identifies running.startedAt
  row,       \* execution_steps, one row per step key, with the run that created it last
  call,      \* the promise of runStep for each run and step
  called,    \* history: the connector calls made, as <<run, step>>
  recorded,  \* history: the connector calls whose usage was recorded
  usage,     \* the source ids of usage_records
  dbFaults   \* how many database calls have failed

callVars == <<call, called, recorded, usage>>
engineVars == <<workflow, engine, run, row, callVars, dbFaults>>

NoCall == [phase |-> "none", result |-> NoBranch]

EngineState ==
  [pc : {"idle", "next", "await", "mark_succeeded", "mark_failed"},
   step : Steps \cup {NoStep}, visited : SUBSET Steps,
   outcome : {"none", "succeeded", "failed", "crashed"}]
CallState ==
  [phase : {"none", "enforce", "connect", "record", "compute", "settled", "lost"},
   result : Results]
RowState == [status : {"absent", "running", "succeeded", "failed"}, run : 0..MaxRuns]

\* Every variable keeps its type.
EngineTypeOK ==
  /\ workflow \in Workflows
  /\ engine \in EngineState
  /\ run \in 0..MaxRuns
  /\ row \in [Steps -> RowState]
  /\ call \in [Runs \X Steps -> CallState]
  /\ called \subseteq Runs \X Steps
  /\ recorded \subseteq Runs \X Steps
  /\ usage \subseteq Runs \X (1..MaxAttempts) \X Steps
  /\ dbFaults \in 0..MaxDbFaults

EngineInit ==
  /\ workflow \in Workflows
  /\ engine = [pc |-> "idle", step |-> NoStep, visited |-> {}, outcome |-> "none"]
  /\ run = 0
  /\ row = [s \in Steps |-> [status |-> "absent", run |-> 0]]
  /\ call = [c \in Runs \X Steps |-> NoCall]
  /\ called = {}
  /\ recorded = {}
  /\ usage = {}
  /\ dbFaults = 0

Current == <<run, engine.step>>
InFlight(c) == call[c].phase \in {"enforce", "connect", "record", "compute"}

DbFault ==
  /\ dbFaults < MaxDbFaults
  /\ dbFaults' = dbFaults + 1

RunFails == engine' = [engine EXCEPT !.pc = "idle", !.outcome = "failed"]

---------------------------------------------------------------------------
(***************************************************************************)
(* Routing.                                                                *)
(***************************************************************************)

\* Some step's onSuccess or branch leads to s.  A failure route does not count.
IsTransitionTarget(s) ==
  \E t \in Steps :
    workflow.onSuccess[t] = s \/ \E b \in Branches : workflow.branch[t][b] = s

\* The branch the output names, else onSuccess, else the next step of the list unless s was
\* itself reached by a transition.
ResolveNextStep(s, result) ==
  CASE result \in Branches /\ workflow.branch[s][result] # NoStep -> workflow.branch[s][result]
    [] (result \notin Branches \/ workflow.branch[s][result] = NoStep)
         /\ workflow.onSuccess[s] # NoStep -> workflow.onSuccess[s]
    [] OTHER -> IF IsTransitionTarget(s) \/ s = StepCount THEN NoStep ELSE s + 1

---------------------------------------------------------------------------
(***************************************************************************)
(* The loop of execute() and executeStep().                                *)
(***************************************************************************)

\* An attempt starts: the next of the retry budget or, once the budget is spent, the first
\* after a manual retry.
StartRun ==
  /\ engine.pc = "idle"
  /\ engine.outcome \in {"none", "failed"}
  /\ run < MaxRuns
  /\ run' = run + 1
  /\ engine' = [pc |-> "next", step |-> workflow.entry, visited |-> {}, outcome |-> "none"]
  /\ UNCHANGED <<workflow, row, callVars, dbFaults>>

\* Seeded regression: the loop trusts the definition and looks for no cycle.
NeverVisited == FALSE

AlreadyVisited == engine.step \in engine.visited

CycleDetected ==
  /\ engine.pc = "next"
  /\ AlreadyVisited
  /\ RunFails
  /\ UNCHANGED <<workflow, run, row, callVars, dbFaults>>

\* A template or a secret of the step cannot be resolved: no row is written for it.
StepUnresolved ==
  /\ engine.pc = "next"
  /\ ~AlreadyVisited
  /\ engine' = [engine EXCEPT !.pc = "idle", !.outcome = "failed",
                              !.visited = @ \cup {engine.step}]
  /\ UNCHANGED <<workflow, run, row, callVars, dbFaults>>

FirstPhase(s) ==
  CASE workflow.kind[s] = Metered -> "enforce"
    [] workflow.kind[s] = "notification" -> "connect"
    [] workflow.kind[s] = "condition" -> "compute"

\* Seeded regression: the row of an earlier run is left as it is.
RowStartedOnce ==
  IF row[engine.step].status = "absent"
  THEN [row EXCEPT ![engine.step] = [status |-> "running", run |-> run]]
  ELSE row

\* createRunning inserts the step's row or resets the one of an earlier run.
RowStarted == [row EXCEPT ![engine.step] = [status |-> "running", run |-> run]]

BeginStep ==
  /\ engine.pc = "next"
  /\ ~AlreadyVisited
  /\ row' = RowStarted
  /\ call' = [call EXCEPT ![Current] = [phase |-> FirstPhase(engine.step), result |-> NoBranch]]
  /\ engine' = [engine EXCEPT !.pc = "await", !.visited = @ \cup {engine.step}]
  /\ UNCHANGED <<workflow, run, called, recorded, usage, dbFaults>>

\* createRunning fails, outside the try block; its write may have been committed.
BeginStepFails ==
  /\ engine.pc = "next"
  /\ ~AlreadyVisited
  /\ DbFault
  /\ row' \in {row, RowStarted}
  /\ engine' = [engine EXCEPT !.pc = "idle", !.outcome = "failed",
                              !.visited = @ \cup {engine.step}]
  /\ UNCHANGED <<workflow, run, callVars>>

StepSettled ==
  /\ engine.pc = "await"
  /\ call[Current].phase = "settled"
  /\ engine' = [engine EXCEPT !.pc =
                  IF call[Current].result = Failed THEN "mark_failed" ELSE "mark_succeeded"]
  /\ UNCHANGED <<workflow, run, row, callVars, dbFaults>>

\* The timer wins the race.  Nothing stops the call.
StepTimesOut ==
  /\ engine.pc = "await"
  /\ InFlight(Current)
  /\ engine' = [engine EXCEPT !.pc = "mark_failed"]
  /\ UNCHANGED <<workflow, run, row, callVars, dbFaults>>

\* The conditional update of the step's row; the engine ignores that it matched none.
RowMarked(status) ==
  IF row[engine.step].status = "running"
  THEN [row EXCEPT ![engine.step].status = status]
  ELSE row

MarkSucceeded ==
  LET next == ResolveNextStep(engine.step, call[Current].result) IN
  /\ engine.pc = "mark_succeeded"
  /\ row' = RowMarked("succeeded")
  /\ engine' = IF next = NoStep
               THEN [engine EXCEPT !.pc = "idle", !.step = NoStep, !.outcome = "succeeded"]
               ELSE [engine EXCEPT !.pc = "next", !.step = next]
  /\ UNCHANGED <<workflow, run, callVars, dbFaults>>

\* markSucceeded stands in the try block: when it fails, committed or not, the step fails.
MarkSucceededFails ==
  /\ engine.pc = "mark_succeeded"
  /\ DbFault
  /\ row' \in {row, RowMarked("succeeded")}
  /\ engine' = [engine EXCEPT !.pc = "mark_failed"]
  /\ UNCHANGED <<workflow, run, callVars>>

\* The step's error ends the run.
MarkFailed ==
  /\ engine.pc = "mark_failed"
  /\ row' = RowMarked("failed")
  /\ RunFails
  /\ UNCHANGED <<workflow, run, callVars, dbFaults>>

MarkFailedFails ==
  /\ engine.pc = "mark_failed"
  /\ DbFault
  /\ row' \in {row, RowMarked("failed")}
  /\ RunFails
  /\ UNCHANGED <<workflow, run, callVars>>

---------------------------------------------------------------------------
(***************************************************************************)
(* A call of runStep.  It belongs to its run, not to the engine's.         *)
(***************************************************************************)

CallGoes(c, phase, result) == call' = [call EXCEPT ![c] = [phase |-> phase, result |-> result]]

\* The attempts of run r: a manual retry counts them from one again.
AttemptOf(r) == ((r - 1) % MaxAttempts) + 1

\* Seeded regression: the id names the attempt and not when it started.
UsageSourceIdOfAttempt(c) == <<1, AttemptOf(c[1]), c[2]>>

\* buildUsageStepSourceId: when the run started, its attempt and the step (and so the metric).
UsageSourceId(c) == <<c[1], AttemptOf(c[1]), c[2]>>

\* enforceUsageMetric lets the call pass, or the limit is reached or cannot be read.
EnforcePlanLimit(c) ==
  /\ call[c].phase = "enforce"
  /\ \/ CallGoes(c, "connect", NoBranch)
     \/ CallGoes(c, "settled", Failed)
  /\ UNCHANGED <<workflow, engine, run, row, called, recorded, usage, dbFaults>>

\* The connector's answer; a metered call is recorded before the step sees it.
Connect(c) ==
  /\ call[c].phase = "connect"
  /\ called' = called \cup {c}
  /\ \E result \in IF workflow.kind[c[2]] = Metered THEN Results ELSE {NoBranch, Failed} :
       CallGoes(c, IF workflow.kind[c[2]] = Metered THEN "record" ELSE "settled", result)
  /\ UNCHANGED <<workflow, engine, run, row, recorded, usage, dbFaults>>

\* usage.record ignores an id it already has.
RecordUsage(c) ==
  /\ call[c].phase = "record"
  /\ usage' = usage \cup {UsageSourceId(c)}
  /\ recorded' = recorded \cup {c}
  /\ CallGoes(c, "settled", call[c].result)
  /\ UNCHANGED <<workflow, engine, run, row, called, dbFaults>>

\* The insert fails, committed or not: the step fails with it, though the connector was called.
RecordUsageFails(c) ==
  /\ call[c].phase = "record"
  /\ DbFault
  /\ \/ UNCHANGED <<recorded, usage>>
     \/ /\ recorded' = recorded \cup {c}
        /\ usage' = usage \cup {UsageSourceId(c)}
  /\ CallGoes(c, "settled", Failed)
  /\ UNCHANGED <<workflow, engine, run, row, called>>

\* A condition step: a branch of its configuration, or a configuration it cannot read.
EvaluateCondition(c) ==
  /\ call[c].phase = "compute"
  /\ \E result \in Branches \cup {Failed} : CallGoes(c, "settled", result)
  /\ UNCHANGED <<workflow, engine, run, row, called, recorded, usage, dbFaults>>

\* The worker process dies with the calls it made; stragglers of earlier runs may have been
\* made by another.  The execution stays RUNNING and never runs again (ExecutionLifecycle).
Crash ==
  /\ engine.pc # "idle"
  /\ engine' = [engine EXCEPT !.pc = "idle", !.outcome = "crashed"]
  /\ \E lost \in SUBSET {c \in Runs \X Steps : InFlight(c)} :
       /\ {c \in {Current} \cap (Runs \X Steps) : InFlight(c)} \subseteq lost
       /\ call' = [c \in Runs \X Steps |->
                     IF c \in lost THEN [call[c] EXCEPT !.phase = "lost"] ELSE call[c]]
  /\ UNCHANGED <<workflow, run, row, called, recorded, usage, dbFaults>>

---------------------------------------------------------------------------
EngineStep ==
  \/ CycleDetected \/ StepUnresolved \/ BeginStep \/ BeginStepFails
  \/ StepSettled \/ StepTimesOut
  \/ MarkSucceeded \/ MarkSucceededFails \/ MarkFailed \/ MarkFailedFails

CallStep(c) ==
  \/ EnforcePlanLimit(c) \/ Connect(c) \/ RecordUsage(c) \/ RecordUsageFails(c)
  \/ EvaluateCondition(c)

EngineNext ==
  \/ StartRun
  \/ EngineStep
  \/ \E c \in Runs \X Steps : CallStep(c)
  \/ Crash

\* Node runs the engine and fires its timers.  Nothing is assumed of a call: a connector may
\* never answer.
EngineSpec == EngineInit /\ [][EngineNext]_engineVars
FairEngineSpec == EngineSpec /\ WF_engineVars(EngineStep)

---------------------------------------------------------------------------
\* "Each step persists input, output, duration and error state": the rows of the steps a run
\* has passed are that run's and succeeded, whatever earlier runs and their stragglers left,
\* and a step the run stopped at is not left running unless a database call or a worker failed.
RowsTellTheRun ==
  /\ \A s \in engine.visited \ {engine.step} : row[s] = [status |-> "succeeded", run |-> run]
  /\ engine.pc = "idle" /\ engine.outcome # "crashed" /\ dbFaults = 0
       => \A s \in Steps : row[s].status # "running"

\* Every connector call that is metered counts once in the usage, also when a manual retry
\* counts its attempts from one again; nothing else counts, and a step never succeeds on a
\* call that was not counted.
UsageCountsEveryCall ==
  /\ recorded \subseteq called
  /\ Cardinality(usage) = Cardinality(recorded)
  /\ \A s \in Steps :
       row[s].status = "succeeded" /\ workflow.kind[s] = Metered => <<row[s].run, s>> \in recorded

\* "Runs steps sequentially": a run has one call in flight, so that however long connectors
\* hang, an execution has no more of them than runs.
StepsRunSequentially ==
  \A c, d \in Runs \X Steps : InFlight(c) /\ InFlight(d) /\ c[1] = d[1] => c = d

\* A run ends although definitions may have cycles and connectors may never answer.
RunEnds == engine.pc # "idle" ~> engine.pc = "idle"

\* The workflow builder offers a "Failure target" for a step and publishing validates it: the
\* run of a step that failed continues there.
FailureRouteFollowed ==
  [][engine.pc = "mark_failed" /\ engine' # engine /\ workflow.onFailure[engine.step] # NoStep
       => engine'.step = workflow.onFailure[engine.step]]_engineVars
=============================================================================
