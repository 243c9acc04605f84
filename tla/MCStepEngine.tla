---------------------------- MODULE MCStepEngine ----------------------------
(***************************************************************************)
(* Workflows for TLC: a list without transitions, a decision with two      *)
(* routes of which one has a failure route, and a cycle that publishing    *)
(* accepts.                                                                *)
(***************************************************************************)
EXTENDS StepEngine

NoRoute == [s \in Steps |-> NoStep]
NoBranchRoute == [s \in Steps |-> [b \in Branches |-> NoStep]]

InListOrder ==
  [entry |-> 1, kind |-> <<Metered, "notification", "condition">>,
   onSuccess |-> NoRoute, onFailure |-> NoRoute, branch |-> NoBranchRoute]

Decision ==
  [entry |-> 1, kind |-> <<Metered, Metered, "notification">>,
   onSuccess |-> NoRoute, onFailure |-> [NoRoute EXCEPT ![1] = 3],
   branch |-> [NoBranchRoute EXCEPT ![1]["yes"] = 2, ![1]["no"] = 3]]

Cycle ==
  [entry |-> 2, kind |-> <<"condition", Metered, "notification">>,
   onSuccess |-> [NoRoute EXCEPT ![2] = 1], onFailure |-> NoRoute,
   branch |-> [NoBranchRoute EXCEPT ![1]["no"] = 2, ![1]["yes"] = 3]]

ExampleWorkflows == {InListOrder, Decision, Cycle}

OnlyDecision == {Decision}
=============================================================================
