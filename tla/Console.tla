------------------------------ MODULE Console ------------------------------
(***************************************************************************)
(* The web console's runs: the list it shows, the run that is selected and *)
(* the steps shown for it.  Every call to the API is answered when it is   *)
(* answered: answers cross, arrive after the selection has moved, or after *)
(* another account has signed in.  Runs are numbered as they start, and a  *)
(* list shows the newest first.                                            *)
(***************************************************************************)
EXTENDS Integers, FiniteSetsExt

CONSTANTS
  Accounts,
  Calls,    \* calls that may be under way at once
  MaxRuns,  \* bound: runs ever started
  None

Runs == 1..MaxRuns

ConsoleAssumption == MaxRuns \in Nat /\ None \notin Accounts /\ None \notin Runs

VARIABLES
  runs,       \* the server's runs by account
  started,    \* how many runs were started
  session,    \* the account that is signed in
  executions, \* the list the console holds
  selected,   \* selectedExecutionId
  steps,      \* the run whose steps the console holds
  call,       \* the calls under way
  crossed     \* history: the steps held came for a run that was not selected any more

shown == <<executions, selected, steps, crossed>>
vars == <<runs, started, session, executions, selected, steps, call, crossed>>

Idle == [op |-> "idle"]
Call ==
  [op : {"login", "load", "reset"}, account : Accounts]
    \cup [op : {"select", "steps", "refresh", "run"}, account : Accounts,
          run : Runs \cup {None}]
    \cup [op : {"loaded"}, account : Accounts, list : SUBSET Runs]
    \cup [op : {"pair", "ran"}, account : Accounts, list : SUBSET Runs, run : Runs \cup {None}]

\* Every variable keeps its type.
TypeOK ==
  /\ runs \in [Accounts -> SUBSET Runs]
  /\ started \in 0..MaxRuns
  /\ session \in Accounts \cup {None}
  /\ executions \subseteq Runs
  /\ {selected, steps} \subseteq Runs \cup {None}
  /\ call \in [Calls -> Call \cup {Idle}]
  /\ crossed \in BOOLEAN

Init ==
  /\ runs = [a \in Accounts |-> {}]
  /\ started = 0
  /\ session = None
  /\ executions = {} /\ selected = None /\ steps = None
  /\ call = [c \in Calls |-> Idle]
  /\ crossed = FALSE

First(list) == IF list = {} THEN None ELSE Max(list)

Send(c, q) == call[c] = Idle /\ call' = [call EXCEPT ![c] = q]
Goes(c, q) == call' = [call EXCEPT ![c] = q]
Ends(c) == Goes(c, Idle)

Start(a) ==
  /\ started < MaxRuns
  /\ started' = started + 1
  /\ runs' = [runs EXCEPT ![a] = @ \cup {started'}]

\* initialState: nothing is listed or selected.
Cleared ==
  /\ executions' = {} /\ selected' = None /\ steps' = None /\ crossed' = FALSE
SignedOut == session' = None /\ Cleared

---------------------------------------------------------------------------
(***************************************************************************)
(* What the user, the timers and the rest of the system do.                *)
(***************************************************************************)

\* A webhook or an automation call starts a run, whoever looks.
RunStarts(a) == Start(a) /\ UNCHANGED <<session, call, shown>>

Login(c, a) ==
  /\ session = None
  /\ Send(c, [op |-> "login", account |-> a])
  /\ UNCHANGED <<runs, started, session, shown>>

\* The answers under way are not called off.
SignOut ==
  /\ session # None
  /\ SignedOut
  /\ UNCHANGED <<runs, started, call>>

\* The workspace is loaded again for a new session or another theme.
Reload(c) ==
  /\ session # None
  /\ Send(c, [op |-> "load", account |-> session])
  /\ UNCHANGED <<runs, started, session, shown>>

SelectExecution(c, e) ==
  /\ session # None /\ e \in executions
  /\ selected' = e /\ steps' = None /\ crossed' = FALSE
  /\ Send(c, [op |-> "select", account |-> session, run |-> e])
  /\ UNCHANGED <<runs, started, session, executions>>

\* selectedExecution: the one selected if it is listed, else the first.
Shown == IF selected \in executions THEN selected ELSE First(executions)

\* The steps of the run shown are loaded when it or its status changes.
RefreshSteps(c) ==
  /\ session # None /\ Shown # None
  /\ Send(c, [op |-> "steps", account |-> session, run |-> Shown])
  /\ UNCHANGED <<runs, started, session, shown>>

\* The poll, the focus and the button keep the selection; a retry selects its run.
RefreshRuns(c, e) ==
  /\ session # None
  /\ e \in {selected} \cup executions
  /\ Send(c, [op |-> "refresh", account |-> session, run |-> e])
  /\ UNCHANGED <<runs, started, session, shown>>

\* executeAutomation starts a run; the list is fetched after that.
RunWorkflowCheck(c) ==
  /\ session # None
  /\ Start(session)
  /\ Send(c, [op |-> "run", account |-> session, run |-> started'])
  /\ UNCHANGED <<session, shown>>

ResetDemo(c) ==
  /\ session # None
  /\ Send(c, [op |-> "reset", account |-> session])
  /\ UNCHANGED <<runs, started, session, shown>>

---------------------------------------------------------------------------
(***************************************************************************)
(* What the server does with a call, and what its answer does here.  A     *)
(* list that could not be fetched is taken to be empty (safeValue).        *)
(***************************************************************************)

\* The session is opened; the workspace is loaded before the login returns.
LoginAnswered(c) ==
  /\ call[c].op = "login"
  /\ session' = call[c].account
  /\ Goes(c, [op |-> "load", account |-> call[c].account])
  /\ UNCHANGED <<runs, started, shown>>

\* The copy's runs are deleted; then the workspace is loaded.
ResetAnswered(c) ==
  /\ call[c].op = "reset"
  /\ runs' = [runs EXCEPT ![call[c].account] = {}]
  /\ Goes(c, [op |-> "load", account |-> call[c].account])
  /\ UNCHANGED <<started, session, shown>>

Listed(c) == {runs[call[c].account], {}}

LoadServed(c) ==
  /\ call[c].op = "load"
  /\ \E list \in Listed(c) :
       Goes(c, [op |-> "loaded", account |-> call[c].account, list |-> list])
  /\ UNCHANGED <<runs, started, session, shown>>

RefreshServed(c) ==
  /\ call[c].op = "refresh"
  /\ \E list \in Listed(c) :
       Goes(c, [op |-> "pair", account |-> call[c].account, list |-> list,
                run |-> IF call[c].run \in list THEN call[c].run ELSE First(list)])
  /\ UNCHANGED <<runs, started, session, shown>>

RunServed(c) ==
  /\ call[c].op = "run"
  /\ Goes(c, [op |-> "ran", account |-> call[c].account, list |-> runs[call[c].account],
              run |-> call[c].run])
  /\ UNCHANGED <<runs, started, session, shown>>

\* loadWorkspace keeps a selection there is.
LoadAnswered(c) ==
  /\ call[c].op = "loaded"
  /\ executions' = call[c].list
  /\ selected' = IF selected = None THEN First(call[c].list) ELSE selected
  /\ Ends(c)
  /\ UNCHANGED <<runs, started, session, steps, crossed>>

\* refreshExecutionData and runWorkflowCheck set the selection with its steps.
PairAnswered(c) ==
  /\ call[c].op \in {"pair", "ran"}
  /\ executions' = call[c].list
  /\ selected' = call[c].run
  /\ steps' \in {call[c].run, None}
  /\ crossed' = FALSE
  /\ Ends(c)
  /\ UNCHANGED <<runs, started, session>>

\* selectExecution does not ask whether the run is still selected.
SelectAnswered(c) ==
  /\ call[c].op = "select"
  /\ steps' = call[c].run
  /\ crossed' = (selected # call[c].run)
  /\ Ends(c)
  /\ UNCHANGED <<runs, started, session, executions, selected>>

\* Seeded regression: the answer is taken whatever is selected.
TakenAnyway(e) == TRUE
Taken(e) == selected = e

\* refreshSelectedExecutionSteps does.
StepsAnswered(c) ==
  /\ call[c].op = "steps"
  /\ IF Taken(call[c].run)
       THEN /\ steps' \in {call[c].run, None}
            /\ crossed' = FALSE
       ELSE UNCHANGED <<steps, crossed>>
  /\ Ends(c)
  /\ UNCHANGED <<runs, started, session, executions, selected>>

\* Any other error is a toast.
CallFails(c) ==
  /\ call[c].op \in {"login", "select", "reset", "run"}
  /\ Ends(c)
  /\ UNCHANGED <<runs, started, session, shown>>

\* A call that is refused signs the console out, whoever is signed in by then; the
\* poll and the steps' refresh only give up.
Unauthorized(c) ==
  /\ call[c].op \in {"login", "load", "select", "steps", "refresh", "reset", "run"}
  /\ Ends(c)
  /\ IF call[c].op = "steps" THEN UNCHANGED <<session, shown>>
     ELSE IF call[c].op = "refresh" THEN SignedOut \/ UNCHANGED <<session, shown>>
     ELSE SignedOut
  /\ UNCHANGED <<runs, started>>

Next ==
  \/ \E a \in Accounts : RunStarts(a)
  \/ SignOut
  \/ \E c \in Calls :
       \/ \E a \in Accounts : Login(c, a)
       \/ \E e \in Runs : SelectExecution(c, e)
       \/ \E e \in Runs \cup {None} : RefreshRuns(c, e)
       \/ Reload(c) \/ RefreshSteps(c) \/ RunWorkflowCheck(c) \/ ResetDemo(c)
       \/ LoginAnswered(c) \/ ResetAnswered(c)
       \/ LoadServed(c) \/ RefreshServed(c) \/ RunServed(c)
       \/ LoadAnswered(c) \/ PairAnswered(c) \/ SelectAnswered(c) \/ StepsAnswered(c)
       \/ CallFails(c) \/ Unauthorized(c)

Spec == Init /\ [][Next]_vars

---------------------------------------------------------------------------

\* Under a run the console shows that run's steps, however answers, polls and sessions
\* overlap. The exceptions: an answer to selectExecution that came after the selection
\* had moved, until the next refresh, and a selected run that is not listed any more.
StepsBelongToShownRun ==
  steps # None /\ selected \in executions => steps = Shown \/ crossed
=============================================================================
