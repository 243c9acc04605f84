--------------------------- MODULE MCControlPlane ---------------------------
(***************************************************************************)
(* The instance of ControlPlane for TLC; ControlPlane.cfg gives the values *)
(* and takes the environments from here.                                   *)
(***************************************************************************)
EXTENDS ControlPlane, TLC, Functions

Settings == INSTANCE Configuration
Given(value) == Settings!Given(value)

\* Every value of one setting with every value of another.
Pairs(name, raws, other, otherRaws) ==
  {(name :> raw) @@ (other :> otherRaw) : raw \in raws, otherRaw \in otherRaws}

\* An environment that a deployment starts with.
Deployed ==
  [name \in {"RUNTIME_PROFILE"} \cup Settings!SetInDeploy |->
     IF name = "RUNTIME_PROFILE" THEN Given("deploy") ELSE Given(name)]

MCSources ==
  Pairs("WORKER_HEARTBEAT_INTERVAL_MS",
        {Settings!Blank, Given(1000), Given(10000), Given(60000), Given(500)},
        "WORKER_HEARTBEAT_TTL_SECONDS",
        {Given(5), Given(10), Given(20), Given(120), Settings!Malformed})
    \cup Pairs("WEBHOOK_SIGNATURE_TOLERANCE_SECONDS", {Settings!Blank, Given(30), Given(60)},
               "WEBHOOK_REPLAY_TTL_SECONDS",
               {Settings!Blank, Given(30), Given(60), Given(90), Given(150)})
    \cup {Deployed}
    \cup {Restrict(Deployed, DOMAIN Deployed \ {name}) : name \in Settings!SetInDeploy}
    \cup {Deployed @@ pair : pair \in Pairs("DEMO_MODE", {Given(TRUE), Settings!Blank},
                                            "DEMO_USER_PASSWORD",
                                            {Settings!Blank, Given("password")})}
=============================================================================
