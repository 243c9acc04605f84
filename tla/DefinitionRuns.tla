--------------------------- MODULE DefinitionRuns ---------------------------
(***************************************************************************)
(* The path a run takes through a workflow's definition, beside the lines  *)
(* the console's canvas draws for it: the engine and the canvas each work  *)
(* out from the definition which step follows which.  The definition is    *)
(* one of the demo workspace's or any acceptable one of two steps, whose   *)
(* steps read nothing.  Every step here succeeds; what a failure does is   *)
(* in StepEngine.                                                          *)
(***************************************************************************)
EXTENDS DemoWorkflows

CONSTANT Branch \* the name of a branch, in a definition of two steps

Keys == {"first", "second"}
RoutesOver(names) == UNION {[s -> Keys] : s \in SUBSET names}
Step(key, type, own, routes) ==
  [key |-> key, type |-> type, branch |-> own, routes |-> routes, payload |-> {}, outputs |-> {}]
StepsKeyed(key) ==
  {Step(key, t, None, r) :
     t \in {"http", "ai_decision"}, r \in RoutesOver({"onSuccess", "onFailure", Branch})}
    \cup {Step(key, "condition", own, r) :
     own \in {None, Branch}, r \in RoutesOver({"onSuccess", Branch})}

SmallDefinitions ==
  {[entry |-> key, steps |-> <<s1, s2>>, payload |-> {}] :
     key \in Keys, s1 \in StepsKeyed("first"), s2 \in StepsKeyed("second")}

Definitions == Seeds \cup SmallDefinitions

\* The demo workspace's workflows have up to six steps; None is no key and no route's name.
DefinitionRunsAssumption ==
  /\ StepLimit \in Nat /\ StepLimit >= 6
  /\ Branch \notin {"onSuccess", "onFailure", "next"}
  /\ None # "onFailure"
  /\ \A d \in Definitions : \A i \in DOMAIN d.steps :
       d.steps[i].key # None /\ None \notin DOMAIN d.steps[i].routes

VARIABLES
  definition, \* the workflow's definition
  current,    \* currentStepKey, None once the run has ended
  ran,        \* visitedSteps, in the order they ran
  branch,     \* the branch in the output of the last step
  cycle       \* the run was ended for coming back to a step

vars == <<definition, current, ran, branch, cycle>>

StartsWith(d) ==
  /\ definition = d
  /\ current = definition.entry
  /\ ran = <<>>
  /\ branch = None
  /\ cycle = FALSE

Init == \E d \in Definitions : StartsWith(d)

Steps == definition.steps
IndexOf(key) == CHOOSE i \in DOMAIN Steps : Steps[i].key = key
Route(s, x) == IF x \in DOMAIN s.routes THEN s.routes[x] ELSE None

\* The branch in a step's output: a condition's own or the one that says it passed, an AI
\* decision's answer, and none of an HTTP request. Every condition here passes.
BranchesOf(s) ==
  CASE s.type = "condition" -> {IF s.branch # None THEN s.branch ELSE "success"}
    [] s.type = "ai_decision" -> {None, Branch}
    [] OTHER -> {None}

\* isTransitionTarget: "onFailure" does not count.
IsTransitionTarget(key) ==
  \E i \in DOMAIN Steps : \E x \in DOMAIN Steps[i].routes \ {"onFailure"} :
    Steps[i].routes[x] = key

\* resolveNextStep
NextStepKey(s, b) ==
  LET i == IndexOf(s.key)
      byBranch == IF b = None THEN None ELSE Route(s, b) IN
  CASE byBranch # None -> byBranch
    [] byBranch = None /\ Route(s, "onSuccess") # None -> Route(s, "onSuccess")
    [] byBranch = None /\ Route(s, "onSuccess") = None ->
         IF ~IsTransitionTarget(s.key) /\ i < Len(Steps) THEN Steps[i + 1].key ELSE None

\* The step runs, and the engine works out which is next.
RunStep ==
  /\ current \notin Range(ran) \cup {None}
  /\ LET s == Steps[IndexOf(current)] IN
       \E b \in BranchesOf(s) : branch' = b /\ current' = NextStepKey(s, b)
  /\ ran' = Append(ran, current)
  /\ UNCHANGED <<definition, cycle>>

\* executionStepCycleDetected
DetectCycle ==
  /\ current \in Range(ran)
  /\ current' = None
  /\ cycle' = TRUE
  /\ UNCHANGED <<definition, ran, branch>>

Next == RunStep \/ DetectCycle

Spec == Init /\ [][Next]_vars

---------------------------------------------------------------------------
\* The routes, with what each is for.
RouteLines ==
  UNION {{<<Steps[i].key, Steps[i].routes[x], x>> : x \in DOMAIN Steps[i].routes} :
           i \in DOMAIN Steps}

\* Seeded regression: a step that only a failure leads to counts as well.
AnyTarget == {l[2] : l \in RouteLines} \ {None}
\* buildWorkflowEdges: explicitTargets
ExplicitTargets == {l[2] : l \in {e \in RouteLines : e[3] # "onFailure"}} \ {None}

\* buildWorkflowEdges: the lines drawn, one of them for the saved order.
Edges ==
  {e \in RouteLines : e[2] # None}
    \cup {<<Steps[i].key, Steps[i + 1].key, "next">> :
          i \in {n \in 1..(Len(Steps) - 1) : /\ Route(Steps[n], "onSuccess") = None
                                            /\ Steps[n].key \notin ExplicitTargets}}

\* A run goes from step to step along lines the canvas shows for success, and ends only
\* where it shows none; and a workflow of the demo workspace never comes back to a step,
\* and reads only what the console's payload has and the output of steps that ran before.
RunsFollowTheDrawing ==
  /\ \A n \in 1..(Len(ran) - 1) :
       \E e \in Edges : e[1] = ran[n] /\ e[2] = ran[n + 1] /\ e[3] # "onFailure"
  /\ current = None /\ ~cycle =>
       \A e \in Edges : e[1] = ran[Len(ran)] => e[3] \notin {"onSuccess", "next", branch}
  /\ definition \in Seeds =>
       /\ Acceptable(Steps, definition.entry)
       /\ ~cycle
       /\ \A n \in DOMAIN ran :
            LET s == Steps[IndexOf(ran[n])] IN
            /\ s.payload \subseteq definition.payload \cup {"payload"}
            /\ s.outputs \subseteq {ran[m] : m \in 1..(n - 1)}
=============================================================================
