------------------------- MODULE MCWebhookIngestion -------------------------
(***************************************************************************)
(* Calls for TLC: one key sent twice to a workflow, once more with another *)
(* payload, once to another workflow; a verbatim replay is any call made   *)
(* twice; a webhook without a key and an automation call complete the set. *)
(***************************************************************************)
EXTENDS WebhookIngestion, TLC

CONSTANTS wA, wB, k, p, q

Webhook(w, key, payload, signature) ==
  [trigger |-> "webhook", workflow |-> w, key |-> key, payload |-> payload,
   signature |-> signature]

Automation ==
  [trigger |-> "automation", workflow |-> wB, key |-> k, payload |-> q, signature |-> Nothing]

ExampleInputs ==
  {Webhook(wA, k, p, "p at 1"), Webhook(wA, k, p, "p at 2"), Webhook(wA, k, q, "q at 1"),
   Webhook(wB, k, p, "p at 3"), Webhook(wA, Nothing, p, "p at 4"), Automation}

ResentInputs == {Webhook(wA, k, p, "p at 1"), Webhook(wA, k, p, "p at 2")}

ExampleSignatures == {"p at 1", "p at 2", "p at 3", "p at 4", "q at 1"}

AnyCall == Permutations(Calls)
=============================================================================
