-------------------------- MODULE DefinitionRules --------------------------
(***************************************************************************)
(* What the API accepts as a workflow definition.  A definition is the     *)
(* sequence of its steps and the key of the first one; a step has a key    *)
(* and, for each of its routes, the key of the step that follows or None;  *)
(* the routes are "onSuccess", "onFailure" and the names of branches.      *)
(* Names, configurations and time limits are left out.                     *)
(***************************************************************************)
EXTENDS Integers, Sequences, Functions

CONSTANTS
  StepLimit, \* WORKFLOW_STEP_LIMIT, 50
  None

KeysOf(steps) == {steps[i].key : i \in DOMAIN steps}

TargetsOf(steps) == (UNION {Range(steps[i].routes) : i \in DOMAIN steps}) \ {None}

\* validateStepTransitions: no route leads to a step that is not there.
TargetsKnown(steps) == TargetsOf(steps) \subseteq KeysOf(steps)

\* normalizeWorkflowDefinition: the conditions under which it does not throw.
Acceptable(steps, entry) ==
  /\ Len(steps) \in 1..StepLimit
  /\ \A i, j \in DOMAIN steps : steps[i].key = steps[j].key => i = j
  /\ entry \in KeysOf(steps)
  /\ TargetsKnown(steps)
=============================================================================
