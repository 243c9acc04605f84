--------------------------- MODULE MCAcceptedCalls ---------------------------
(***************************************************************************)
(* Calls for TLC: one key sent to a workflow twice, signed anew, and an    *)
(* automation call.                                                        *)
(***************************************************************************)
EXTENDS AcceptedCalls

CONSTANTS w, k, p

Webhook(signature) ==
  [trigger |-> "webhook", workflow |-> w, key |-> k, payload |-> p, signature |-> signature]

Automation ==
  [trigger |-> "automation", workflow |-> w, key |-> k, payload |-> p, signature |-> None]

ExampleSignatures == {"p at 1", "p at 2"}

ExampleInputs == {Webhook("p at 1"), Webhook("p at 2"), Automation}

OneLostHandOver == [f \in FaultKinds |-> IF f = "enqueue" THEN 1 ELSE 0]
=============================================================================
