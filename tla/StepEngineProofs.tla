-------------------------- MODULE StepEngineProofs --------------------------
(***************************************************************************)
(* Proofs about StepEngine, for every set of workflows, every number of    *)
(* steps and runs and every number of database faults.                     *)
(***************************************************************************)
EXTENDS StepEngine, FiniteSetTheorems, TLAPS

Calls == Runs \X Steps

\* A call in flight belongs to a run that has begun; the engine's own run has at most the call
\* of the step it awaits, and none between two steps.
CallsInv ==
  /\ StepsRunSequentially
  /\ \A c \in Calls : InFlight(c) => c[1] <= run
  /\ engine.pc = "next" => \A c \in Calls : InFlight(c) => c[1] # run
  /\ \A c \in Calls : InFlight(c) /\ c[1] = run => c[2] = engine.step

\* A run that has not ended stands at a step, whose row is the run's, running until it is marked.
StepRowInv ==
  /\ engine.pc # "idle" => run \in Runs /\ engine.step \in Steps /\ engine.outcome = "none"
  /\ engine.pc \in {"await", "mark_succeeded"} =>
       row[engine.step] = [status |-> "running", run |-> run]

\* Without a failed database call only the step at work has a running row.
RunningRowInv ==
  dbFaults = 0 /\ engine.outcome # "crashed" =>
    \A s \in Steps : row[s].status = "running" =>
      engine.pc \in {"await", "mark_succeeded", "mark_failed"} /\ s = engine.step

PassedRowsInv ==
  \A s \in engine.visited \ {engine.step} : row[s] = [status |-> "succeeded", run |-> run]

\* A step is marked as succeeded on an answer it has.
SettledInv ==
  engine.pc = "mark_succeeded" =>
    call[Current].phase = "settled" /\ call[Current].result # Failed

EngineInv ==
  EngineTypeOK /\ CallsInv /\ StepRowInv /\ RunningRowInv /\ PassedRowsInv /\ SettledInv

USE EngineAssumption

LEMMA WorkflowFacts ==
  ASSUME EngineTypeOK
  PROVE  /\ workflow.entry \in Steps
         /\ workflow.kind \in [Steps -> Kinds]
         /\ workflow.onSuccess \in [Steps -> Steps \cup {NoStep}]
         /\ workflow.branch \in [Steps -> [Branches -> Steps \cup {NoStep}]]
BY DEF EngineTypeOK, ValidWorkflow

\* Routing stays inside the workflow.
LEMMA RoutingFacts ==
  ASSUME EngineTypeOK, NEW s \in Steps, NEW result
  PROVE  ResolveNextStep(s, result) \in Steps \cup {NoStep}
<1>1. workflow.onSuccess[s] \in Steps \cup {NoStep} BY WorkflowFacts
<1>2. ASSUME result \in Branches PROVE workflow.branch[s][result] \in Steps \cup {NoStep}
  BY <1>2, WorkflowFacts
<1>3. s # StepCount => s + 1 \in Steps BY DEF Steps
<1>4. CASE result \in Branches /\ workflow.branch[s][result] # NoStep
  BY <1>4, <1>2 DEF ResolveNextStep
<1>5. CASE (result \notin Branches \/ workflow.branch[s][result] = NoStep)
             /\ workflow.onSuccess[s] # NoStep
  BY <1>5, <1>1 DEF ResolveNextStep
<1>6. CASE ~(result \in Branches /\ workflow.branch[s][result] # NoStep)
           /\ ~((result \notin Branches \/ workflow.branch[s][result] = NoStep)
                  /\ workflow.onSuccess[s] # NoStep)
  BY <1>6, <1>3 DEF ResolveNextStep
<1>. QED BY <1>4, <1>5, <1>6

LEMMA InitEngineInv == EngineInit => EngineInv
<1>. SUFFICES ASSUME EngineInit PROVE EngineInv OBVIOUS
<1>1. EngineTypeOK
  BY DEF EngineInit, EngineTypeOK, EngineState, CallState, RowState, NoCall, Results
<1>2. \A c \in Calls : ~InFlight(c)
  BY DEF EngineInit, InFlight, NoCall, Calls
<1>3. CallsInv BY <1>2 DEF CallsInv, StepsRunSequentially, Calls, EngineInit
<1>4. StepRowInv /\ RunningRowInv /\ PassedRowsInv /\ SettledInv
  BY DEF EngineInit, StepRowInv, RunningRowInv, PassedRowsInv, SettledInv
<1>. QED BY <1>1, <1>3, <1>4 DEF EngineInv

---------------------------------------------------------------------------
(***************************************************************************)
(* The engine's own steps.                                                 *)
(***************************************************************************)

\* Between two runs, or before a step, the engine changes no call.
LEMMA StartRunPreserves == EngineInv /\ StartRun => EngineInv'
<1>. SUFFICES ASSUME EngineInv, StartRun PROVE EngineInv' OBVIOUS
<1>. USE DEF EngineInv
<1>1. EngineTypeOK'
  BY WorkflowFacts DEF StartRun, EngineTypeOK, EngineState, callVars
<1>2. CallsInv'
  <2>1. \A c \in Calls : InFlight(c)' <=> InFlight(c) BY DEF StartRun, callVars, InFlight
  <2>2. run' = run + 1 /\ run \in Int BY DEF StartRun, EngineTypeOK
  <2>3. \A c \in Calls : c[1] \in Int BY DEF Calls, Runs
  <2>4. \A c \in Calls : InFlight(c)' => c[1] <= run' /\ c[1] # run'
    BY <2>1, <2>2, <2>3 DEF CallsInv
  <2>5. StepsRunSequentially' BY <2>1 DEF CallsInv, StepsRunSequentially, Calls
  <2>. QED BY <2>4, <2>5 DEF CallsInv
<1>3. StepRowInv' /\ RunningRowInv' /\ PassedRowsInv'
  BY WorkflowFacts DEF StartRun, EngineTypeOK, StepRowInv, RunningRowInv, PassedRowsInv, Runs
<1>4. SettledInv' BY DEF StartRun, SettledInv
<1>. QED BY <1>1, <1>2, <1>3, <1>4

\* The engine gives up on its step without touching rows or calls.
LEMMA GivingUpPreserves ==
  ASSUME EngineInv, CycleDetected \/ StepUnresolved
  PROVE  EngineInv'
<1>. USE DEF EngineInv
<1>1. /\ engine.pc = "next"
      /\ \E v \in {engine.visited, engine.visited \cup {engine.step}} :
           engine' = [engine EXCEPT !.pc = "idle", !.outcome = "failed", !.visited = v]
      /\ UNCHANGED <<workflow, run, row, callVars, dbFaults>>
  BY DEF CycleDetected, StepUnresolved, RunFails, EngineTypeOK, EngineState
<1>2. PICK v \in {engine.visited, engine.visited \cup {engine.step}} :
        engine' = [engine EXCEPT !.pc = "idle", !.outcome = "failed", !.visited = v]
  BY <1>1
<1>3. engine.step \in Steps /\ v \in SUBSET Steps BY <1>1 DEF StepRowInv, EngineTypeOK, EngineState
<1>4. EngineTypeOK' BY <1>1, <1>2, <1>3 DEF EngineTypeOK, EngineState, callVars
<1>5. CallsInv'
  BY <1>1, <1>2 DEF EngineTypeOK, EngineState, CallsInv, StepsRunSequentially, InFlight, callVars,
      Calls
<1>6. StepRowInv' /\ RunningRowInv' /\ PassedRowsInv'
  BY <1>1, <1>2 DEF EngineTypeOK, EngineState, StepRowInv, RunningRowInv, PassedRowsInv
<1>7. SettledInv' BY <1>2 DEF SettledInv, EngineTypeOK, EngineState
<1>. QED BY <1>4, <1>5, <1>6, <1>7

LEMMA BeginStepPreserves == EngineInv /\ BeginStep => EngineInv'
<1>. SUFFICES ASSUME EngineInv, BeginStep PROVE EngineInv' OBVIOUS
<1>. USE DEF EngineInv
<1>1. run \in Runs /\ engine.step \in Steps /\ Current \in Calls
  BY DEF BeginStep, StepRowInv, Current, Calls
<1>2. FirstPhase(engine.step) \in {"enforce", "connect", "compute"}
  BY <1>1, WorkflowFacts DEF FirstPhase, Kinds, Metered
<1>3. EngineTypeOK'
  <2>1. row' \in [Steps -> RowState]
    BY <1>1 DEF BeginStep, RowStarted, EngineTypeOK, RowState, Runs
  <2>2. call' \in [Runs \X Steps -> CallState]
    BY <1>1, <1>2 DEF BeginStep, EngineTypeOK, CallState, Results, Calls
  <2>3. engine' \in EngineState
    BY <1>1 DEF BeginStep, EngineTypeOK, EngineState
  <2>. QED BY <2>1, <2>2, <2>3 DEF BeginStep, EngineTypeOK
<1>4. CallsInv'
  <2>1. \A c \in Calls : c # Current => (InFlight(c)' <=> InFlight(c))
    BY <1>1 DEF BeginStep, EngineTypeOK, InFlight, Calls
  <2>2. \A c \in Calls : c # Current /\ InFlight(c)' => c[1] # run /\ c[1] <= run
    BY <2>1 DEF BeginStep, CallsInv
  <2>3. Current[1] = run /\ Current[2] = engine.step BY DEF Current
  <2>4. run' = run /\ engine'.step = engine.step /\ engine'.pc = "await"
    BY DEF BeginStep, EngineTypeOK, EngineState
  <2>5. run \in Int BY <1>1 DEF Runs
  <2>6. StepsRunSequentially'
    BY <2>1, <2>2, <2>3 DEF CallsInv, StepsRunSequentially, Calls
  <2>. QED BY <2>2, <2>3, <2>4, <2>5, <2>6 DEF CallsInv
<1>5. StepRowInv' /\ RunningRowInv' /\ PassedRowsInv'
  BY <1>1 DEF BeginStep, RowStarted, EngineTypeOK, EngineState, StepRowInv, RunningRowInv,
              PassedRowsInv
<1>6. SettledInv' BY DEF BeginStep, SettledInv, EngineTypeOK, EngineState
<1>. QED BY <1>3, <1>4, <1>5, <1>6

LEMMA BeginStepFailsPreserves == EngineInv /\ BeginStepFails => EngineInv'
<1>. SUFFICES ASSUME EngineInv, BeginStepFails PROVE EngineInv' OBVIOUS
<1>. USE DEF EngineInv
<1>1. run \in Runs /\ engine.step \in Steps BY DEF BeginStepFails, StepRowInv
<1>2. EngineTypeOK'
  <2>1. row' \in [Steps -> RowState]
    BY <1>1 DEF BeginStepFails, RowStarted, EngineTypeOK, RowState, Runs
  <2>2. engine' \in EngineState BY <1>1 DEF BeginStepFails, EngineTypeOK, EngineState
  <2>3. dbFaults' \in 0..MaxDbFaults BY DEF BeginStepFails, DbFault, EngineTypeOK
  <2>. QED BY <2>1, <2>2, <2>3 DEF BeginStepFails, EngineTypeOK, callVars
<1>3. CallsInv'
  BY DEF BeginStepFails, EngineTypeOK, EngineState, CallsInv, StepsRunSequentially, InFlight,
         callVars, Calls
<1>4. StepRowInv' /\ RunningRowInv' /\ PassedRowsInv'
  BY <1>1 DEF BeginStepFails, DbFault, RowStarted, EngineTypeOK, EngineState, StepRowInv,
              RunningRowInv, PassedRowsInv
<1>5. SettledInv' BY DEF BeginStepFails, SettledInv, EngineTypeOK, EngineState
<1>. QED BY <1>2, <1>3, <1>4, <1>5

\* The race ends, by the call or by the timer.
LEMMA RacePreserves ==
  ASSUME EngineInv, StepSettled \/ StepTimesOut
  PROVE  EngineInv'
<1>. USE DEF EngineInv
<1>1. /\ engine.pc = "await"
      /\ \E p \in {"mark_succeeded", "mark_failed"} : engine' = [engine EXCEPT !.pc = p]
      /\ UNCHANGED <<workflow, run, row, callVars, dbFaults>>
  BY DEF StepSettled, StepTimesOut
<1>2. EngineTypeOK' BY <1>1 DEF EngineTypeOK, EngineState, callVars
<1>3. CallsInv'
  BY <1>1 DEF EngineTypeOK, EngineState, CallsInv, StepsRunSequentially, InFlight, callVars, Calls
<1>4. StepRowInv' /\ RunningRowInv' /\ PassedRowsInv'
  BY <1>1 DEF EngineTypeOK, EngineState, StepRowInv, RunningRowInv, PassedRowsInv
<1>5. SettledInv'
  BY DEF StepSettled, StepTimesOut, SettledInv, EngineTypeOK, EngineState, Current, callVars
<1>. QED BY <1>2, <1>3, <1>4, <1>5

\* Marking a row writes the row of the engine's step only, and only a running one.
LEMMA RowMarkedFacts ==
  ASSUME EngineTypeOK, engine.step \in Steps, NEW st \in {"succeeded", "failed"}
  PROVE  /\ RowMarked(st) \in [Steps -> RowState]
         /\ \A s \in Steps : s # engine.step => RowMarked(st)[s] = row[s]
         /\ RowMarked(st)[engine.step].status # "running"
         /\ row[engine.step].status = "running" =>
              RowMarked(st)[engine.step] = [status |-> st, run |-> row[engine.step].run]
BY DEF RowMarked, EngineTypeOK, RowState

LEMMA MarkSucceededPreserves == EngineInv /\ MarkSucceeded => EngineInv'
<1>. SUFFICES ASSUME EngineInv, MarkSucceeded PROVE EngineInv' OBVIOUS
<1>. USE DEF EngineInv
<1>1. run \in Runs /\ engine.step \in Steps /\ engine.outcome = "none"
  BY DEF MarkSucceeded, StepRowInv
<1>2. row[engine.step] = [status |-> "running", run |-> run]
  BY DEF MarkSucceeded, StepRowInv
<1>3. row' \in [Steps -> RowState] /\ row'[engine.step] = [status |-> "succeeded", run |-> run]
  BY <1>1, <1>2, RowMarkedFacts DEF MarkSucceeded
<1>4. \A s \in Steps : s # engine.step => row'[s] = row[s]
  BY <1>1, RowMarkedFacts DEF MarkSucceeded
<1>5. /\ engine' \in EngineState
      /\ engine'.visited = engine.visited
      /\ \/ engine'.pc = "idle"
         \/ engine'.pc = "next" /\ engine'.step \in Steps /\ engine'.outcome = "none"
  <2>. DEFINE next == ResolveNextStep(engine.step, call[Current].result)
  <2>1. next \in Steps \cup {NoStep} BY <1>1, RoutingFacts
  <2>2. engine' = IF next = NoStep
                  THEN [engine EXCEPT !.pc = "idle", !.step = NoStep, !.outcome = "succeeded"]
                  ELSE [engine EXCEPT !.pc = "next", !.step = next]
    BY DEF MarkSucceeded
  <2>. HIDE DEF next
  <2>. QED BY <1>1, <2>1, <2>2 DEF EngineTypeOK, EngineState
<1>6. EngineTypeOK' BY <1>3, <1>5 DEF MarkSucceeded, EngineTypeOK, callVars
<1>7. CallsInv'
  <2>1. \A c \in Calls : ~(InFlight(c) /\ c[1] = run)
    <3>1. \A c \in Calls : InFlight(c) /\ c[1] = run => c = Current
      BY DEF CallsInv, Current, Calls
    <3>2. ~InFlight(Current) BY DEF MarkSucceeded, SettledInv, InFlight
    <3>. QED BY <3>1, <3>2
  <2>. QED BY <2>1 DEF MarkSucceeded, CallsInv, StepsRunSequentially, InFlight, callVars, Calls
<1>8. StepRowInv' /\ RunningRowInv' /\ PassedRowsInv'
  <2>1. StepRowInv' BY <1>1, <1>5 DEF MarkSucceeded, StepRowInv
  <2>2. RunningRowInv'
    BY <1>1, <1>3, <1>4 DEF MarkSucceeded, RunningRowInv, RowState
  <2>3. PassedRowsInv'
    BY <1>3, <1>4, <1>5 DEF MarkSucceeded, PassedRowsInv, EngineTypeOK, EngineState
  <2>. QED BY <2>1, <2>2, <2>3
<1>9. SettledInv' BY <1>5 DEF SettledInv, EngineState
<1>. QED BY <1>6, <1>7, <1>8, <1>9

LEMMA MarkSucceededFailsPreserves == EngineInv /\ MarkSucceededFails => EngineInv'
<1>. SUFFICES ASSUME EngineInv, MarkSucceededFails PROVE EngineInv' OBVIOUS
<1>. USE DEF EngineInv
<1>1. run \in Runs /\ engine.step \in Steps /\ engine.outcome = "none"
  BY DEF MarkSucceededFails, StepRowInv
<1>2. /\ row' \in [Steps -> RowState]
      /\ \A s \in Steps : s # engine.step => row'[s] = row[s]
  BY <1>1, RowMarkedFacts DEF MarkSucceededFails, EngineTypeOK
<1>3. /\ engine' = [engine EXCEPT !.pc = "mark_failed"]
      /\ engine' \in EngineState
      /\ UNCHANGED <<workflow, run, callVars>>
      /\ dbFaults' \in 0..MaxDbFaults /\ dbFaults' # 0
  BY DEF MarkSucceededFails, DbFault, EngineTypeOK, EngineState
<1>4. EngineTypeOK' BY <1>2, <1>3 DEF EngineTypeOK, callVars
<1>5. CallsInv'
  BY <1>3 DEF EngineTypeOK, EngineState, CallsInv, StepsRunSequentially, InFlight, callVars, Calls
<1>6. StepRowInv' /\ RunningRowInv' /\ PassedRowsInv' /\ SettledInv'
  BY <1>1, <1>2, <1>3 DEF EngineTypeOK, EngineState, StepRowInv, RunningRowInv, PassedRowsInv,
                          SettledInv
<1>. QED BY <1>4, <1>5, <1>6

\* The run ends at its failed step, whether or not the row could be marked.
LEMMA MarkFailedPreserves ==
  ASSUME EngineInv, MarkFailed \/ MarkFailedFails
  PROVE  EngineInv'
<1>. USE DEF EngineInv
<1>1. engine.pc = "mark_failed" BY DEF MarkFailed, MarkFailedFails
<1>2. run \in Runs /\ engine.step \in Steps /\ engine.outcome = "none"
  BY <1>1 DEF StepRowInv
<1>3. /\ row' \in [Steps -> RowState]
      /\ \A s \in Steps : s # engine.step => row'[s] = row[s]
  BY <1>2, RowMarkedFacts DEF MarkFailed, MarkFailedFails, EngineTypeOK
<1>4. /\ dbFaults' \in 0..MaxDbFaults
      /\ dbFaults' = 0 => dbFaults = 0 /\ row'[engine.step].status # "running"
  BY <1>2, RowMarkedFacts DEF MarkFailed, MarkFailedFails, DbFault, EngineTypeOK
<1>5. /\ engine' = [engine EXCEPT !.pc = "idle", !.outcome = "failed"]
      /\ engine' \in EngineState
      /\ UNCHANGED <<workflow, run, callVars>>
  BY DEF MarkFailed, MarkFailedFails, RunFails, EngineTypeOK, EngineState
<1>6. EngineTypeOK' BY <1>3, <1>4, <1>5 DEF EngineTypeOK, callVars
<1>7. CallsInv'
  BY <1>5 DEF EngineTypeOK, EngineState, CallsInv, StepsRunSequentially, InFlight, callVars, Calls
<1>8. StepRowInv' /\ PassedRowsInv' /\ SettledInv'
  BY <1>1, <1>2, <1>3, <1>5 DEF EngineTypeOK, EngineState, StepRowInv, PassedRowsInv, SettledInv
<1>9. RunningRowInv' BY <1>2, <1>3, <1>4, <1>5 DEF RunningRowInv
<1>. QED BY <1>6, <1>7, <1>8, <1>9

---------------------------------------------------------------------------
(***************************************************************************)
(* Calls and crashes.                                                      *)
(***************************************************************************)

\* A call in flight may go on, settle or be lost without the engine's knowledge.
LEMMA CallsGoOnPreserves ==
  ASSUME EngineInv,
         EngineTypeOK',
         engine' = engine \/ engine' = [engine EXCEPT !.pc = "idle", !.outcome = "crashed"],
         UNCHANGED <<workflow, run, row>>,
         dbFaults' = 0 => dbFaults = 0,
         \A c \in Calls : InFlight(c)' => InFlight(c),
         \A c \in Calls : call'[c] # call[c] => InFlight(c)
  PROVE  EngineInv'
<1>. USE DEF EngineInv
<1>1. CallsInv'
  <2>1. engine'.step = engine.step /\ (engine'.pc = "next" => engine.pc = "next")
    BY DEF EngineTypeOK, EngineState
  <2>2. StepsRunSequentially' BY DEF CallsInv, StepsRunSequentially, Calls
  <2>. QED BY <2>1, <2>2 DEF CallsInv
<1>2. StepRowInv' /\ RunningRowInv' /\ PassedRowsInv'
  BY DEF EngineTypeOK, EngineState, StepRowInv, RunningRowInv, PassedRowsInv
<1>3. SettledInv'
  <2>1. engine.pc = "mark_succeeded" => Current \in Calls /\ ~InFlight(Current)
    BY DEF StepRowInv, SettledInv, InFlight, Current, Calls
  <2>2. engine.pc = "mark_succeeded" => call'[Current] = call[Current] BY <2>1
  <2>3. CASE engine' = engine BY <2>2, <2>3 DEF SettledInv, Current
  <2>4. CASE engine' = [engine EXCEPT !.pc = "idle", !.outcome = "crashed"]
    BY <2>4 DEF SettledInv, EngineTypeOK, EngineState
  <2>. QED BY <2>3, <2>4
<1>. QED BY <1>1, <1>2, <1>3

\* Only the call that acts changes, from a phase in flight to one it may reach.
LEMMA CallGoesFacts ==
  ASSUME EngineTypeOK, NEW c \in Calls, NEW phase, NEW result \in Results,
         phase \in {"connect", "record", "settled"},
         InFlight(c), CallGoes(c, phase, result)
  PROVE  /\ call' \in [Runs \X Steps -> CallState]
         /\ \A d \in Calls : call'[d] # call[d] => InFlight(d)
         /\ \A d \in Calls : InFlight(d)' => InFlight(d)
<1>1. call' = [call EXCEPT ![c] = [phase |-> phase, result |-> result]] BY DEF CallGoes
<1>2. call' \in [Runs \X Steps -> CallState] BY <1>1 DEF EngineTypeOK, CallState, Calls
<1>3. \A d \in Calls : d # c => call'[d] = call[d] BY <1>1 DEF EngineTypeOK, Calls
<1>. QED BY <1>2, <1>3 DEF InFlight

LEMMA CallStepPreserves ==
  ASSUME EngineInv, NEW c \in Calls, CallStep(c)
  PROVE  EngineInv'
<1>. USE DEF EngineInv
<1>1. InFlight(c) /\ c \in Runs \X Steps
  BY DEF CallStep, EnforcePlanLimit, Connect, RecordUsage, RecordUsageFails, EvaluateCondition,
         InFlight, Calls
<1>2. PICK phase \in {"connect", "record", "settled"}, result \in Results :
        CallGoes(c, phase, result)
  BY DEF CallStep, EnforcePlanLimit, Connect, RecordUsage, RecordUsageFails, EvaluateCondition,
         Results, EngineTypeOK, CallState, Calls
<1>3. engine' = engine /\ UNCHANGED <<workflow, run, row>>
  BY DEF CallStep, EnforcePlanLimit, Connect, RecordUsage, RecordUsageFails, EvaluateCondition
<1>4. dbFaults' \in 0..MaxDbFaults /\ (dbFaults' = 0 => dbFaults = 0)
  BY DEF CallStep, EnforcePlanLimit, Connect, RecordUsage, RecordUsageFails, EvaluateCondition,
         DbFault, EngineTypeOK
<1>5. called' \subseteq Runs \X Steps /\ recorded' \subseteq Runs \X Steps
  BY <1>1 DEF CallStep, EnforcePlanLimit, Connect, RecordUsage, RecordUsageFails,
              EvaluateCondition, EngineTypeOK
<1>6. usage' \subseteq Runs \X (1..MaxAttempts) \X Steps
  <2>1. UsageSourceId(c) \in Runs \X (1..MaxAttempts) \X Steps
    BY <1>1 DEF UsageSourceId, AttemptOf, Runs
  <2>. QED
    BY <2>1 DEF CallStep, EnforcePlanLimit, Connect, RecordUsage, RecordUsageFails,
                EvaluateCondition, EngineTypeOK
<1>7. EngineTypeOK' BY <1>1, <1>2, <1>3, <1>4, <1>5, <1>6, CallGoesFacts DEF EngineTypeOK
<1>. QED BY <1>1, <1>2, <1>3, <1>4, <1>7, CallGoesFacts, CallsGoOnPreserves

LEMMA CrashPreserves == EngineInv /\ Crash => EngineInv'
<1>. SUFFICES ASSUME EngineInv, Crash PROVE EngineInv' OBVIOUS
<1>. USE DEF EngineInv
<1>1. PICK lost \in SUBSET {c \in Calls : InFlight(c)} :
        call' = [c \in Calls |-> IF c \in lost THEN [call[c] EXCEPT !.phase = "lost"]
                                 ELSE call[c]]
  BY DEF Crash, Calls
<1>2. engine' = [engine EXCEPT !.pc = "idle", !.outcome = "crashed"]
  BY DEF Crash
<1>3. call' \in [Calls -> CallState] BY <1>1 DEF EngineTypeOK, CallState, Calls
<1>4. EngineTypeOK' BY <1>2, <1>3 DEF Crash, EngineTypeOK, EngineState, Calls
<1>5. \A c \in Calls : (InFlight(c)' => InFlight(c)) /\ (call'[c] # call[c] => InFlight(c))
  BY <1>1 DEF InFlight
<1>. QED BY <1>2, <1>4, <1>5, CallsGoOnPreserves DEF Crash

LEMMA NextEngineInv == EngineInv /\ [EngineNext]_engineVars => EngineInv'
<1>. SUFFICES ASSUME EngineInv, [EngineNext]_engineVars PROVE EngineInv' OBVIOUS
<1>1. CASE StartRun BY <1>1, StartRunPreserves
<1>2. CASE EngineStep
  BY <1>2, GivingUpPreserves, BeginStepPreserves, BeginStepFailsPreserves, RacePreserves,
     MarkSucceededPreserves, MarkSucceededFailsPreserves, MarkFailedPreserves DEF EngineStep
<1>3. CASE \E c \in Runs \X Steps : CallStep(c) BY <1>3, CallStepPreserves DEF Calls
<1>4. CASE Crash BY <1>4, CrashPreserves
<1>5. CASE UNCHANGED engineVars
  BY <1>5 DEF EngineInv, EngineTypeOK, CallsInv, StepsRunSequentially, InFlight, StepRowInv,
              RunningRowInv, PassedRowsInv, SettledInv, Current, engineVars, callVars, Calls
<1>. QED BY <1>1, <1>2, <1>3, <1>4, <1>5 DEF EngineNext

THEOREM EngineInvariant == EngineSpec => []EngineInv
<1>1. EngineInit => EngineInv BY InitEngineInv
<1>2. EngineInv /\ [EngineNext]_engineVars => EngineInv' BY NextEngineInv
<1>. QED BY <1>1, <1>2, PTL DEF EngineSpec

\* Every variable of the engine keeps its type.
THEOREM EngineTypeCorrect == EngineSpec => []EngineTypeOK
<1>1. EngineInv => EngineTypeOK BY DEF EngineInv
<1>. QED BY <1>1, EngineInvariant, PTL

\* However long connectors hang and however often an execution is retried, no run has two
\* calls in flight: execute() awaits each step and stops at the first that fails.
THEOREM OneCallPerRun == EngineSpec => []StepsRunSequentially
<1>1. EngineInv => StepsRunSequentially BY DEF EngineInv, CallsInv
<1>. QED BY <1>1, EngineInvariant, PTL

\* The step rows tell what the current run did, for every workflow that publishing accepts.
THEOREM RowsAreTheRuns == EngineSpec => []RowsTellTheRun
<1>1. EngineInv => RowsTellTheRun
  BY DEF EngineInv, PassedRowsInv, RunningRowInv, RowsTellTheRun
<1>. QED BY <1>1, EngineInvariant, PTL

---------------------------------------------------------------------------
(***************************************************************************)
(* The usage records.                                                      *)
(***************************************************************************)

\* A call is recorded once, after it was made and before it settles with an answer; its step
\* was visited by its run, so that no call of the run is ever started twice.
UsageInv ==
  /\ \A c \in Calls : call[c].phase # "none" =>
       c[1] <= run /\ (c[1] = run => c[2] \in engine.visited)
  /\ \A c \in Calls : call[c].phase = "record" => c \in called
  /\ \A c \in recorded : call[c].phase = "settled" /\ c \in called
  /\ usage = {UsageSourceId(c) : c \in recorded}
  /\ IsFiniteSet(usage) /\ IsFiniteSet(recorded)
  /\ Cardinality(usage) = Cardinality(recorded)
  /\ \A c \in Calls :
       call[c].phase = "settled" /\ call[c].result # Failed /\ workflow.kind[c[2]] = Metered
         => c \in recorded
  /\ \A c \in Calls : call[c].phase = "compute" => workflow.kind[c[2]] # Metered
  /\ \A s \in Steps :
       row[s].status = "succeeded" /\ workflow.kind[s] = Metered => <<row[s].run, s>> \in recorded

\* The id of a usage record identifies the call.
LEMMA SourceIdIdentifiesCall ==
  ASSUME NEW c \in Calls, NEW d \in Calls, UsageSourceId(c) = UsageSourceId(d)
  PROVE  c = d
BY DEF UsageSourceId, Calls

LEMMA InitUsageInv == EngineInit => UsageInv
BY FS_EmptySet DEF EngineInit, UsageInv, NoCall, Calls

\* The engine's steps make no call and record none.  Marking a row as succeeded is the only
\* one that a record has to justify.
LEMMA EngineKeepsUsageInv ==
  ASSUME EngineInv, UsageInv, UNCHANGED <<workflow, callVars>>,
         \/ /\ run' = run
            /\ engine'.visited \in {engine.visited, engine.visited \cup {engine.step}}
         \/ run' = run + 1,
         \A s \in Steps :
           row'[s].status = "succeeded" =>
             \/ row'[s] = row[s]
             \/ s = engine.step /\ row'[s].run = run /\ engine.pc = "mark_succeeded"
  PROVE  UsageInv'
<1>1. run \in Int /\ \A c \in Calls : c[1] \in Int BY DEF EngineInv, EngineTypeOK, Calls, Runs
<1>2. \A c \in Calls : call'[c].phase # "none" =>
        c[1] <= run' /\ (c[1] = run' => c[2] \in engine'.visited)
  BY <1>1 DEF UsageInv, callVars
<1>3. \A s \in Steps : row'[s].status = "succeeded" /\ workflow.kind[s] = Metered
                        => <<row'[s].run, s>> \in recorded
  <2>. SUFFICES ASSUME NEW s \in Steps, row'[s].status = "succeeded", workflow.kind[s] = Metered
                PROVE  <<row'[s].run, s>> \in recorded
    OBVIOUS
  <2>1. CASE row'[s] = row[s] BY <2>1 DEF UsageInv
  <2>2. CASE s = engine.step /\ row'[s].run = run /\ engine.pc = "mark_succeeded"
    <3>1. Current \in Calls /\ Current = <<row'[s].run, s>> /\ Current[2] = s
      BY <2>2 DEF EngineInv, StepRowInv, Current, Calls
    <3>2. call[Current].phase = "settled" /\ call[Current].result # Failed
      BY <2>2 DEF EngineInv, SettledInv
    <3>. QED BY <3>1, <3>2 DEF UsageInv
  <2>. QED BY <2>1, <2>2
<1>. QED BY <1>2, <1>3 DEF UsageInv, callVars, UsageSourceId, AttemptOf

LEMMA EngineStepKeepsUsageInv ==
  ASSUME EngineInv, UsageInv, CycleDetected \/ StepUnresolved \/ BeginStepFails \/ StepSettled
           \/ StepTimesOut \/ MarkSucceeded \/ MarkSucceededFails \/ MarkFailed
           \/ MarkFailedFails \/ StartRun
  PROVE  UsageInv'
<1>1. UNCHANGED <<workflow, callVars>>
  BY DEF CycleDetected, StepUnresolved, BeginStepFails, StepSettled, StepTimesOut,
         MarkSucceeded, MarkSucceededFails, MarkFailed, MarkFailedFails, StartRun
<1>2. \/ run' = run /\ engine'.visited \in {engine.visited, engine.visited \cup {engine.step}}
      \/ run' = run + 1
  <2>1. CASE MarkSucceeded BY <2>1 DEF MarkSucceeded, EngineInv, EngineTypeOK, EngineState
  <2>2. CASE ~MarkSucceeded
    BY <2>2 DEF CycleDetected, StepUnresolved, BeginStepFails, StepSettled, StepTimesOut,
         MarkSucceededFails, MarkFailed, MarkFailedFails, StartRun, RunFails, EngineInv,
         EngineTypeOK,
         EngineState
  <2>. QED BY <2>1, <2>2
<1>3. \A s \in Steps : row'[s].status = "succeeded" =>
        \/ row'[s] = row[s]
        \/ s = engine.step /\ row'[s].run = run /\ engine.pc = "mark_succeeded"
  <2>1. CASE MarkSucceeded \/ MarkSucceededFails
    <3>1. engine.pc = "mark_succeeded" BY <2>1 DEF MarkSucceeded, MarkSucceededFails
    <3>2. row[engine.step].run = run /\ engine.step \in Steps
      BY <3>1 DEF EngineInv, StepRowInv
    <3>3. row' \in {row, RowMarked("succeeded")} BY <2>1 DEF MarkSucceeded, MarkSucceededFails
    <3>. QED BY <3>1, <3>2, <3>3 DEF RowMarked, EngineInv, EngineTypeOK, RowState
  <2>2. CASE MarkFailed \/ MarkFailedFails
    <3>1. row' \in {row, RowMarked("failed")} BY <2>2 DEF MarkFailed, MarkFailedFails
    <3>. QED BY <3>1 DEF RowMarked, EngineInv, EngineTypeOK, RowState
  <2>3. CASE BeginStepFails
    BY <2>3 DEF BeginStepFails, RowStarted, EngineInv, EngineTypeOK, RowState
  <2>4. CASE CycleDetected \/ StepUnresolved \/ StepSettled \/ StepTimesOut \/ StartRun
    BY <2>4 DEF CycleDetected, StepUnresolved, StepSettled, StepTimesOut, StartRun
  <2>. QED BY <2>1, <2>2, <2>3, <2>4
<1>. QED BY <1>1, <1>2, <1>3, EngineKeepsUsageInv

\* The call that starts was never started before: its run has not visited the step.
LEMMA BeginStepKeepsUsageInv == EngineInv /\ UsageInv /\ BeginStep => UsageInv'
<1>. SUFFICES ASSUME EngineInv, UsageInv, BeginStep PROVE UsageInv' OBVIOUS
<1>1. /\ run \in Runs /\ engine.step \in Steps /\ Current \in Calls
      /\ Current[1] = run /\ Current[2] = engine.step
  BY DEF BeginStep, EngineInv, StepRowInv, Current, Calls
<1>2. Current \notin recorded
  BY <1>1 DEF BeginStep, AlreadyVisited, UsageInv, Calls
<1>3. /\ call'[Current] = [phase |-> FirstPhase(engine.step), result |-> NoBranch]
      /\ \A c \in Calls : c # Current => call'[c] = call[c]
  BY <1>1 DEF BeginStep, EngineInv, EngineTypeOK, Calls
<1>4. /\ FirstPhase(engine.step) \in {"enforce", "connect", "compute"}
      /\ FirstPhase(engine.step) = "compute" => workflow.kind[engine.step] # Metered
  BY <1>1, WorkflowFacts DEF EngineInv, FirstPhase, Kinds, Metered
<1>5. /\ UNCHANGED <<workflow, run, called, recorded, usage>>
      /\ engine'.visited = engine.visited \cup {engine.step}
  BY DEF BeginStep, EngineInv, EngineTypeOK, EngineState
<1>6. \A s \in Steps : row'[s].status = "succeeded" => row'[s] = row[s]
  BY <1>1 DEF BeginStep, RowStarted, EngineInv, EngineTypeOK, RowState
<1>7. run \in Int BY <1>1 DEF Runs
<1>8. recorded \subseteq Calls BY DEF EngineInv, EngineTypeOK, Calls
<1>9. \A c \in Calls : call'[c].phase # "none" =>
        c[1] <= run' /\ (c[1] = run' => c[2] \in engine'.visited)
  BY <1>1, <1>3, <1>5, <1>7 DEF UsageInv
<1>10. \A c \in recorded : call'[c].phase = "settled" /\ c \in called
  BY <1>2, <1>3, <1>8 DEF UsageInv
<1>11. \A c \in Calls :
         /\ call'[c].phase = "record" => c \in called
         /\ call'[c].phase = "compute" => workflow.kind[c[2]] # Metered
         /\ call'[c].phase = "settled" /\ call'[c].result # Failed
              /\ workflow.kind[c[2]] = Metered => c \in recorded
  BY <1>1, <1>3, <1>4 DEF UsageInv
<1>12. \A s \in Steps : row'[s].status = "succeeded" /\ workflow.kind[s] = Metered
                         => <<row'[s].run, s>> \in recorded
  BY <1>6 DEF UsageInv
<1>13. /\ usage = {UsageSourceId(c) : c \in recorded}
       /\ IsFiniteSet(usage) /\ IsFiniteSet(recorded)
       /\ Cardinality(usage) = Cardinality(recorded)
  BY DEF UsageInv
<1>. QED BY <1>5, <1>9, <1>10, <1>11, <1>12, <1>13 DEF UsageInv, UsageSourceId, AttemptOf

\* The step of one call: what it adds to the usage is the record of that call, once.
LEMMA CallStepKeepsUsageInv ==
  ASSUME EngineInv, UsageInv, NEW c \in Calls, CallStep(c)
  PROVE  UsageInv'
<1>1. PICK phase \in {"connect", "record", "settled"}, result \in Results :
        CallGoes(c, phase, result)
  BY DEF CallStep, EnforcePlanLimit, Connect, RecordUsage, RecordUsageFails, EvaluateCondition,
         Results, EngineInv, EngineTypeOK, CallState, Calls
<1>2. call'[c] = [phase |-> phase, result |-> result] /\ \A d \in Calls : d # c => call'[d] = call[d]
  BY <1>1 DEF CallGoes, EngineInv, EngineTypeOK, Calls
<1>3. UNCHANGED <<workflow, engine, run, row>>
  BY DEF CallStep, EnforcePlanLimit, Connect, RecordUsage, RecordUsageFails, EvaluateCondition
<1>4. call[c].phase \in {"enforce", "connect", "record", "compute"}
  BY DEF CallStep, EnforcePlanLimit, Connect, RecordUsage, RecordUsageFails, EvaluateCondition
<1>5. recorded \subseteq Calls /\ IsFiniteSet(recorded) /\ IsFiniteSet(usage)
  BY DEF EngineInv, EngineTypeOK, Calls, UsageInv
<1>6. c \notin recorded BY <1>4 DEF UsageInv
<1>7. called \subseteq called' /\ (call'[c].phase = "record" => c \in called')
  BY <1>2 DEF CallStep, EnforcePlanLimit, Connect, RecordUsage, RecordUsageFails,
              EvaluateCondition, CallGoes, EngineInv, EngineTypeOK, Calls
<1>8. \/ UNCHANGED <<recorded, usage>> /\
         (call'[c].phase = "settled" => call'[c].result = Failed \/ workflow.kind[c[2]] # Metered)
      \/ /\ recorded' = recorded \cup {c} /\ usage' = usage \cup {UsageSourceId(c)}
         /\ call'[c].phase = "settled" /\ c \in called
  BY <1>2 DEF CallStep, EnforcePlanLimit, Connect, RecordUsage, RecordUsageFails,
              EvaluateCondition, CallGoes, EngineInv, EngineTypeOK, Calls, UsageInv
<1>9. /\ usage' = {UsageSourceId(d) : d \in recorded'}
      /\ IsFiniteSet(usage') /\ IsFiniteSet(recorded')
      /\ Cardinality(usage') = Cardinality(recorded')
      /\ recorded \subseteq recorded'
      /\ \A d \in recorded' : call'[d].phase = "settled" /\ d \in called'
  <2>1. CASE UNCHANGED <<recorded, usage>>
    BY <2>1, <1>2, <1>6, <1>5, <1>7 DEF UsageInv
  <2>2. CASE /\ recorded' = recorded \cup {c} /\ usage' = usage \cup {UsageSourceId(c)}
             /\ call'[c].phase = "settled" /\ c \in called
    <3>1. UsageSourceId(c) \notin usage
      BY <1>5, <1>6, SourceIdIdentifiesCall DEF UsageInv
    <3>2. IsFiniteSet(usage') /\ Cardinality(usage') = Cardinality(usage) + 1
      BY <2>2, <1>5, <3>1, FS_AddElement
    <3>3. IsFiniteSet(recorded') /\ Cardinality(recorded') = Cardinality(recorded) + 1
      BY <2>2, <1>5, <1>6, FS_AddElement
    <3>4. Cardinality(usage) = Cardinality(recorded) BY DEF UsageInv
    <3>5. usage' = {UsageSourceId(d) : d \in recorded'} BY <2>2 DEF UsageInv
    <3>. QED BY <2>2, <3>2, <3>3, <3>4, <3>5, <1>2, <1>5, <1>6, <1>7 DEF UsageInv
  <2>. QED BY <1>8, <2>1, <2>2
<1>10. \A d \in Calls :
         /\ call'[d].phase # "none" => d[1] <= run /\ (d[1] = run => d[2] \in engine.visited)
         /\ call'[d].phase = "record" => d \in called'
         /\ call'[d].phase = "compute" => workflow.kind[d[2]] # Metered
  BY <1>2, <1>4, <1>7 DEF UsageInv
<1>11. \A d \in Calls :
         call'[d].phase = "settled" /\ call'[d].result # Failed /\ workflow.kind[d[2]] = Metered
           => d \in recorded'
  BY <1>2, <1>8, <1>9 DEF UsageInv
<1>. QED BY <1>3, <1>9, <1>10, <1>11 DEF UsageInv, UsageSourceId, AttemptOf

LEMMA CrashKeepsUsageInv == EngineInv /\ UsageInv /\ Crash => UsageInv'
<1>. SUFFICES ASSUME EngineInv, UsageInv, Crash PROVE UsageInv' OBVIOUS
<1>1. PICK lost \in SUBSET {c \in Calls : InFlight(c)} :
        call' = [c \in Calls |-> IF c \in lost THEN [call[c] EXCEPT !.phase = "lost"]
                                 ELSE call[c]]
  BY DEF Crash, Calls
<1>2. \A c \in Calls :
        \/ call'[c] = call[c]
        \/ call'[c].phase = "lost" /\ InFlight(c)
  BY <1>1 DEF EngineInv, EngineTypeOK, CallState, Calls
<1>3. /\ UNCHANGED <<workflow, run, row, called, recorded, usage>>
      /\ engine'.visited = engine.visited
      /\ recorded \subseteq Calls
  BY DEF Crash, EngineInv, EngineTypeOK, EngineState, Calls
<1>. QED BY <1>2, <1>3 DEF UsageInv, InFlight, UsageSourceId, AttemptOf

\* Every metered call that was recorded counts once, for any number of attempts per budget and
\* any number of manual retries.
THEOREM UsageIsExact == EngineSpec => []UsageCountsEveryCall
<1>1. EngineInit => UsageInv BY InitUsageInv
<1>2. EngineInv /\ UsageInv /\ [EngineNext]_engineVars => UsageInv'
  <2>. SUFFICES ASSUME EngineInv, UsageInv, [EngineNext]_engineVars PROVE UsageInv' OBVIOUS
  <2>1. CASE StartRun BY <2>1, EngineStepKeepsUsageInv
  <2>2. CASE EngineStep BY <2>2, EngineStepKeepsUsageInv, BeginStepKeepsUsageInv DEF EngineStep
  <2>3. CASE \E c \in Runs \X Steps : CallStep(c)
    BY <2>3, CallStepKeepsUsageInv DEF Calls
  <2>4. CASE Crash BY <2>4, CrashKeepsUsageInv
  <2>5. CASE UNCHANGED engineVars
    BY <2>5 DEF UsageInv, UsageSourceId, AttemptOf, engineVars, callVars
  <2>. QED BY <2>1, <2>2, <2>3, <2>4, <2>5 DEF EngineNext
<1>3. EngineInv /\ UsageInv => UsageCountsEveryCall
  BY DEF EngineInv, UsageInv, UsageCountsEveryCall
<1>. QED BY <1>1, <1>2, <1>3, EngineInvariant, PTL DEF EngineSpec

---------------------------------------------------------------------------
(***************************************************************************)
(* What RunEnds rests on: a run has so many steps left, each step it takes *)
(* uses one of them up, and it is never without a step to take.            *)
(***************************************************************************)
Unvisited == Steps \ engine.visited

\* A step of the workflow takes four of the engine's at most: it is begun, awaited, marked as
\* succeeded and, when that fails, as failed.
Left ==
  CASE engine.pc = "idle" -> 0
    [] engine.pc \in {"next", "mark_failed"} -> 1
    [] engine.pc = "mark_succeeded" -> 2
    [] engine.pc = "await" -> 3
Fuel == 4 * Cardinality(Unvisited) + Left

\* A run never takes more than 4 * StepCount + 1 steps, whatever its definition, its connectors
\* and its database do.
RunsAreBounded ==
  [][/\ Fuel \in 0..(4 * StepCount + 3)
     /\ engine.pc # "idle" /\ engine' # engine => Fuel' < Fuel
     /\ engine.pc = "idle" /\ engine' # engine => Fuel' = 4 * StepCount + 1]_engineVars

\* A step that is awaited has a call that is in flight or has settled: the timer or the answer
\* will end the wait, as no call of a run at work is lost.
AwaitedInv == engine.pc = "await" => InFlight(Current) \/ call[Current].phase = "settled"

LEMMA StepsAreFinite ==
  /\ IsFiniteSet(Steps) /\ Cardinality(Steps) = StepCount
  /\ EngineTypeOK => Cardinality(Unvisited) \in 0..StepCount
<1>1. IsFiniteSet(Steps) /\ Cardinality(Steps) = StepCount
  BY FS_Interval DEF Steps
<1>2. ASSUME EngineTypeOK PROVE Cardinality(Unvisited) \in 0..StepCount
  <2>1. IsFiniteSet(Unvisited) /\ Cardinality(Unvisited) <= Cardinality(Steps)
    BY <1>1, FS_Subset DEF Unvisited
  <2>. QED BY <1>1, <2>1, FS_CardinalityType
<1>. QED BY <1>1, <1>2

\* A step that is taken up is one that had not been visited.
LEMMA VisitingCounts ==
  ASSUME EngineTypeOK, engine.step \in Steps, ~AlreadyVisited,
         engine'.visited = engine.visited \cup {engine.step}
  PROVE  Cardinality(Unvisited') = Cardinality(Unvisited) - 1
<1>1. Unvisited' = Unvisited \ {engine.step} /\ engine.step \in Unvisited
  BY DEF Unvisited, AlreadyVisited
<1>2. IsFiniteSet(Unvisited) BY StepsAreFinite, FS_Subset DEF Unvisited
<1>. QED BY <1>1, <1>2, FS_RemoveElement

LEMMA EngineStepsCount == EngineInv /\ EngineStep => Fuel' < Fuel
<1>. SUFFICES ASSUME EngineInv, EngineStep PROVE Fuel' < Fuel OBVIOUS
<1>1. EngineTypeOK /\ engine \in EngineState /\ engine' \in EngineState
  BY NextEngineInv DEF EngineInv, EngineTypeOK, EngineNext
<1>2. Cardinality(Unvisited) \in Nat BY <1>1, StepsAreFinite
<1>3. ASSUME engine'.visited = engine.visited, Left' < Left PROVE Fuel' < Fuel
  <2>1. Unvisited' = Unvisited BY <1>3 DEF Unvisited
  <2>2. Left \in Nat /\ Left' \in Nat
    BY <1>1 DEF Left, EngineState
  <2>. QED BY <1>2, <1>3, <2>1, <2>2 DEF Fuel
<1>4. CASE \/ CycleDetected \/ MarkFailed \/ MarkFailedFails
           \/ StepSettled \/ StepTimesOut \/ MarkSucceededFails
  <2>1. engine'.visited = engine.visited
    BY <1>1, <1>4 DEF CycleDetected, MarkFailed, MarkFailedFails, RunFails, StepSettled,
                     StepTimesOut, MarkSucceededFails, EngineState
  <2>2. CASE CycleDetected \/ MarkFailed \/ MarkFailedFails
    <3>1. engine.pc \in {"next", "mark_failed"} /\ engine'.pc = "idle"
      BY <1>1, <2>2 DEF CycleDetected, MarkFailed, MarkFailedFails, RunFails, EngineState
    <3>. QED BY <1>3, <2>1, <3>1 DEF Left
  <2>3. CASE StepSettled
    <3>1. engine.pc = "await" /\ engine'.pc \in {"mark_failed", "mark_succeeded"}
      BY <1>1, <2>3 DEF StepSettled, EngineState
    <3>. QED BY <1>3, <2>1, <3>1 DEF Left
  <2>4. CASE StepTimesOut \/ MarkSucceededFails
    <3>1. engine.pc \in {"await", "mark_succeeded"} /\ engine'.pc = "mark_failed"
      BY <1>1, <2>4 DEF StepTimesOut, MarkSucceededFails, EngineState
    <3>. QED BY <1>3, <2>1, <3>1 DEF Left
  <2>. QED BY <1>4, <2>2, <2>3, <2>4
<1>5. CASE MarkSucceeded
  BY <1>1, <1>2, <1>5 DEF MarkSucceeded, EngineState, Fuel, Left, Unvisited
<1>6. CASE StepUnresolved \/ BeginStep \/ BeginStepFails
  <2>1. engine.pc = "next" /\ ~AlreadyVisited /\ engine.step \in Steps
    BY <1>6 DEF StepUnresolved, BeginStep, BeginStepFails, EngineInv, StepRowInv
  <2>2. /\ engine'.visited = engine.visited \cup {engine.step}
        /\ engine'.pc \in {"idle", "await"}
    BY <1>1, <1>6 DEF StepUnresolved, BeginStep, BeginStepFails, EngineState
  <2>3. Cardinality(Unvisited') = Cardinality(Unvisited) - 1
    BY <1>1, <2>1, <2>2, VisitingCounts
  <2>. QED BY <1>2, <2>1, <2>2, <2>3 DEF Fuel, Left
<1>. QED BY <1>3, <1>4, <1>5, <1>6 DEF EngineStep

LEMMA NextUsesFuel ==
  ASSUME EngineInv, [EngineNext]_engineVars
  PROVE  /\ Fuel \in 0..(4 * StepCount + 3)
         /\ engine.pc # "idle" /\ engine' # engine => Fuel' < Fuel
         /\ engine.pc = "idle" /\ engine' # engine => Fuel' = 4 * StepCount + 1
<1>1. EngineTypeOK /\ engine \in EngineState /\ Cardinality(Unvisited) \in 0..StepCount
  BY StepsAreFinite DEF EngineInv, EngineTypeOK
<1>2. Fuel \in 0..(4 * StepCount + 3) BY <1>1 DEF Fuel, Left, EngineState
<1>3. CASE StartRun
  <2>1. Unvisited' = Steps BY <1>3 DEF StartRun, Unvisited
  <2>. QED BY <1>2, <1>3, <2>1, StepsAreFinite DEF StartRun, Fuel, Left
<1>4. CASE EngineStep
  <2>1. engine.pc # "idle"
    BY <1>4 DEF EngineStep, CycleDetected, StepUnresolved, BeginStep, BeginStepFails, StepSettled,
                StepTimesOut, MarkSucceeded, MarkSucceededFails, MarkFailed, MarkFailedFails
  <2>. QED BY <1>2, <1>4, <2>1, EngineStepsCount
<1>5. CASE Crash
  <2>1. engine.pc # "idle" /\ engine'.pc = "idle" /\ engine'.visited = engine.visited
    BY <1>1, <1>5 DEF Crash, EngineState
  <2>. QED BY <1>1, <1>2, <2>1 DEF Fuel, Left, Unvisited, EngineState
<1>6. CASE (\E c \in Runs \X Steps : CallStep(c)) \/ UNCHANGED engineVars
  <2>1. UNCHANGED engine
    BY <1>6 DEF CallStep, EnforcePlanLimit, Connect, RecordUsage, RecordUsageFails,
                EvaluateCondition, engineVars
  <2>. QED BY <1>2, <2>1
<1>. QED BY <1>3, <1>4, <1>5, <1>6 DEF EngineNext

\* Every run of every workflow is used up after four steps of the engine for each of its steps
\* and one: cycles are cut off, and nothing but the start of a run gives it more.
THEOREM StepsOfARunAreCounted == EngineSpec => RunsAreBounded
<1>1. EngineInv /\ [EngineNext]_engineVars =>
        [/\ Fuel \in 0..(4 * StepCount + 3)
         /\ engine.pc # "idle" /\ engine' # engine => Fuel' < Fuel
         /\ engine.pc = "idle" /\ engine' # engine => Fuel' = 4 * StepCount + 1]_engineVars
  BY NextUsesFuel
<1>. QED BY <1>1, EngineInvariant, PTL DEF EngineSpec, RunsAreBounded

\* A run at work always has its next step before it, although connectors may never answer.
THEOREM AwaitedCallsAnswerOrTimeOut == EngineSpec => []AwaitedInv
<1>1. EngineInit => AwaitedInv BY DEF EngineInit, AwaitedInv
<1>2. EngineInv /\ AwaitedInv /\ [EngineNext]_engineVars => AwaitedInv'
  <2>. SUFFICES ASSUME EngineInv, AwaitedInv, [EngineNext]_engineVars, engine'.pc = "await"
                PROVE  (InFlight(Current) \/ call[Current].phase = "settled")'
    BY DEF AwaitedInv
  <2>1. EngineTypeOK /\ engine \in EngineState /\ call \in [Calls -> CallState]
    BY DEF EngineInv, EngineTypeOK, Calls
  <2>2. CASE BeginStep
    <3>1. Current \in Calls /\ engine.step \in Steps /\ workflow.kind[engine.step] \in Kinds
      BY <2>1, <2>2, WorkflowFacts DEF BeginStep, EngineInv, StepRowInv, Current, Calls
    <3>2. FirstPhase(engine.step) \in {"enforce", "connect", "compute"}
      BY <3>1 DEF FirstPhase, Kinds, Metered
    <3>3. Current' = Current BY <2>1, <2>2 DEF BeginStep, Current, EngineState
    <3>4. call'[Current].phase = FirstPhase(engine.step) BY <2>1, <2>2, <3>1 DEF BeginStep
    <3>. QED BY <3>2, <3>3, <3>4 DEF InFlight
  <2>3. CASE \E c \in Runs \X Steps : CallStep(c)
    <3>1. PICK c \in Calls : CallStep(c) BY <2>3 DEF Calls
    <3>2. UNCHANGED <<engine, run>>
      BY <3>1 DEF CallStep, EnforcePlanLimit, Connect, RecordUsage, RecordUsageFails,
                  EvaluateCondition
    <3>3. \A d \in Calls : d # c => call'[d] = call[d]
      BY <2>1, <3>1 DEF CallStep, EnforcePlanLimit, Connect, RecordUsage, RecordUsageFails,
                  EvaluateCondition, CallGoes
    <3>4. call'[c].phase \in {"connect", "record", "settled"}
      BY <2>1, <3>1 DEF CallStep, EnforcePlanLimit, Connect, RecordUsage, RecordUsageFails,
                  EvaluateCondition, CallGoes
    <3>5. Current' = Current /\ Current \in Calls
      BY <3>2 DEF EngineInv, StepRowInv, Current, Calls
    <3>. QED BY <3>2, <3>3, <3>4, <3>5 DEF AwaitedInv, InFlight
  <2>4. CASE UNCHANGED engineVars BY <2>4 DEF engineVars, callVars, AwaitedInv, InFlight, Current
  <2>5. ~StartRun BY DEF StartRun
  <2>6. ~Crash BY <2>1 DEF Crash, EngineState
  <2>7. EngineStep => BeginStep
    <3>1. ~CycleDetected /\ ~MarkFailed /\ ~MarkFailedFails
      BY <2>1 DEF CycleDetected, MarkFailed, MarkFailedFails, RunFails, EngineState
    <3>2. ~StepUnresolved /\ ~BeginStepFails
      BY <2>1 DEF StepUnresolved, BeginStepFails, EngineState
    <3>3. ~StepSettled /\ ~StepTimesOut /\ ~MarkSucceededFails
      BY <2>1 DEF StepSettled, StepTimesOut, MarkSucceededFails, EngineState
    <3>4. ~MarkSucceeded BY <2>1 DEF MarkSucceeded, EngineState
    <3>. QED BY <3>1, <3>2, <3>3, <3>4 DEF EngineStep
  <2>. QED BY <2>2, <2>3, <2>4, <2>5, <2>6, <2>7 DEF EngineNext
<1>. QED BY <1>1, <1>2, EngineInvariant, PTL DEF EngineSpec
=============================================================================
