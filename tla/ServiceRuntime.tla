--------------------------- MODULE ServiceRuntime ---------------------------
(***************************************************************************)
(* The life of a service's process, the API's or the worker's: it is       *)
(* bootstrapped, runs, and is closed on a signal or an error no one        *)
(* caught, with a deadline.  Closing runs the hooks of its parts, the      *)
(* connections and the queue, and then the server's; a hook may take for   *)
(* ever or fail.  The process ends by itself when nothing in it is open    *)
(* any more.                                                               *)
(***************************************************************************)
EXTENDS Integers, FiniteSets

CONSTANTS
  Parts, \* what the service opens beside its server
  None

Signals == {"SIGINT", "SIGTERM"}
Faults == {"uncaughtException", "unhandledRejection"}

ServiceRuntimeAssumption ==
  /\ IsFiniteSet(Parts)
  /\ "server" \notin Parts

VARIABLES
  phase,    \* "creating", "created", "running", "closing", "closed" or "failed"
  handlers, \* the events process.once still handles
  reason,   \* what began the shutdown, None
  open,     \* the parts that are open
  deadline, \* the timer of the shutdown runs
  exitCode, \* process.exitCode
  ended     \* the code the process ended with, or None

vars == <<phase, handlers, reason, open, deadline, exitCode, ended>>

Init ==
  /\ phase = "creating"
  /\ handlers = {} /\ reason = None
  /\ open = {} /\ deadline = FALSE
  /\ exitCode = 0 /\ ended = None

Alive == ended = None

\* The code a shell reports for a process that a signal ended.
Killed == 128

\* NestFactory.create; where it fails the process exits.
Create ==
  /\ Alive /\ phase = "creating"
  /\ \/ phase' = "created" /\ open' = Parts /\ UNCHANGED ended
     \/ ended' = 1 /\ UNCHANGED <<phase, open>>
  /\ UNCHANGED <<handlers, reason, deadline, exitCode>>

\* The service listens, and only then handles signals and errors.
Listen ==
  /\ Alive /\ phase = "created"
  /\ phase' = "running"
  /\ open' = open \cup {"server"}
  /\ handlers' = Signals \cup Faults
  /\ UNCHANGED <<reason, deadline, exitCode, ended>>

\* The catch of bootstrapHttpRuntime: the application is closed, without a deadline.
ListenFails ==
  /\ Alive /\ phase = "created"
  /\ phase' = "closing" /\ reason' = "bootstrap"
  /\ UNCHANGED <<handlers, open, deadline, exitCode, ended>>

\* Seeded regression: only a signal's shutdown has a deadline.
TimedIfSignalled(event) == event \in Signals
\* closeApplication starts the timer whatever the reason.
Timed(event) == event \in Signals \cup Faults

\* shutdown: the first reason counts.
Shutdown(event) ==
  IF phase = "running"
  THEN phase' = "closing" /\ reason' = event /\ deadline' = Timed(event)
  ELSE UNCHANGED <<phase, reason, deadline>>

\* An event is handled once; the next of its kind has the process end as by default, but a
\* rejection no one handles then becomes an exception.
Handler(event) ==
  IF event = "unhandledRejection" /\ event \notin handlers THEN "uncaughtException" ELSE event

Event(event) ==
  /\ Alive
  /\ IF Handler(event) \in handlers
     THEN /\ handlers' = handlers \ {Handler(event)}
          /\ Shutdown(Handler(event))
          /\ UNCHANGED ended
     ELSE /\ ended' = IF event \in Signals THEN Killed ELSE 1
          /\ UNCHANGED <<handlers, phase, reason, deadline>>
  /\ UNCHANGED <<open, exitCode>>

NextToClose == IF open = {"server"} THEN open ELSE open \ {"server"}

\* app.close: the hooks of the parts, and the server last.
CloseHook ==
  /\ Alive /\ phase = "closing"
  /\ \E p \in NextToClose : open' = open \ {p}
  /\ UNCHANGED <<phase, handlers, reason, deadline, exitCode, ended>>

\* A hook that fails leaves the rest as it is.
CloseFails ==
  /\ Alive /\ phase = "closing" /\ open # {}
  /\ phase' = "failed"
  /\ exitCode' = 1
  /\ deadline' = FALSE
  /\ UNCHANGED <<handlers, reason, open, ended>>

Closed ==
  /\ Alive /\ phase = "closing" /\ open = {}
  /\ phase' = "closed"
  /\ exitCode' = IF reason \in Signals THEN 0 ELSE 1
  /\ deadline' = FALSE
  /\ UNCHANGED <<handlers, reason, open, ended>>

TimerFires ==
  /\ Alive /\ deadline
  /\ ended' = 1
  /\ UNCHANGED <<phase, handlers, reason, open, deadline, exitCode>>

\* Node: nothing is left that could still happen.
RunsDry ==
  /\ Alive /\ phase \in {"closed", "failed"} /\ open = {}
  /\ ended' = exitCode
  /\ UNCHANGED <<phase, handlers, reason, open, deadline, exitCode>>

Next ==
  \/ Create \/ Listen \/ ListenFails
  \/ \E event \in Signals \cup Faults : Event(event)
  \/ CloseHook \/ CloseFails \/ Closed \/ TimerFires \/ RunsDry

\* Timers fire, the code after an await goes on, and a process with nothing to do ends. No
\* hook need ever finish.
Fairness == WF_vars(TimerFires) /\ WF_vars(Closed) /\ WF_vars(RunsDry)

Spec == Init /\ [][Next]_vars
FairSpec == Spec /\ Fairness

---------------------------------------------------------------------------
\* A process reports success only if a signal stopped it and everything was closed.
EndsWell == ended = 0 => reason \in Signals /\ open = {} /\ phase = "closed"

\* Once a running service was told to stop, or failed, it ends whatever its parts do, and it
\* reports success only if a signal stopped it and everything was closed. The exceptions: a
\* hook that fails takes the deadline with it, so that the process stays for as long as
\* something is open; and an error during a shutdown by a signal is not reported.
ShutdownEnds ==
  /\ [](reason \in Signals \cup Faults =>
          <>(ended # None \/ (phase = "failed" /\ open # {})))
  /\ []EndsWell
=============================================================================
