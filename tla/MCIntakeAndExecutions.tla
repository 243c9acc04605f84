----------------------- MODULE MCIntakeAndExecutions -----------------------
(***************************************************************************)
(* WebhookIngestion and ExecutionLifecycle side by side, each with larger  *)
(* bounds and more faults than AcceptedCalls, which joins them, can give   *)
(* it.  A behaviour is about one of them while the other stays as it       *)
(* began: calls that race for keys and limits, or an execution on its way  *)
(* through processors and faults.                                          *)
(***************************************************************************)
EXTENDS MCWebhookIngestion, MCExecutionLifecycle

VARIABLE focus

intakeAndExecutionsVars == <<focus, ingestionVars, vars>>

OnlyIntake == focus = "intake" /\ UNCHANGED <<focus, vars>>
OnlyExecutions == focus = "executions" /\ UNCHANGED <<focus, ingestionVars>>

IntakeAndExecutionsInit ==
  focus \in {"intake", "executions"} /\ IngestionInit /\ Init

IntakeAndExecutionsNext ==
  \/ OnlyIntake /\ IngestionNext
  \/ OnlyExecutions /\ Next

IntakeAndExecutionsSpec ==
  IntakeAndExecutionsInit /\ [][IntakeAndExecutionsNext]_intakeAndExecutionsVars
=============================================================================
