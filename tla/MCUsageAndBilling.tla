------------------------- MODULE MCUsageAndBilling -------------------------
(***************************************************************************)
(* StepEngine and StripeSync side by side: what the runs of a workspace    *)
(* use, and what its plan is paid with.  They share no variable, and a     *)
(* behaviour is about one of them while the other stays as it began.       *)
(***************************************************************************)
EXTENDS MCStepEngine, MCStripeSync

VARIABLE focus

usageAndBillingVars == <<focus, engineVars, vars>>

OnlyUsage == focus = "usage" /\ UNCHANGED <<focus, vars>>
OnlyBilling == focus = "billing" /\ UNCHANGED <<focus, engineVars>>

\* The engine begins with one workflow while the billing has the focus.
UsageAndBillingInit ==
  /\ focus \in {"usage", "billing"}
  /\ EngineInit /\ (focus = "billing" => workflow = Cycle)
  /\ Init

UsageAndBillingNext ==
  \/ OnlyUsage /\ EngineNext
  \/ OnlyBilling /\ Next

\* The fairness is the components' own: of the one without the focus no step is enabled.
UsageAndBillingSpec ==
  /\ UsageAndBillingInit
  /\ [][UsageAndBillingNext]_usageAndBillingVars
  /\ WF_engineVars(EngineStep) /\ Fairness
=============================================================================
