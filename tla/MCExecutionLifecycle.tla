---------------------- MODULE MCExecutionLifecycle ----------------------
(***************************************************************************)
(* Instances of ExecutionLifecycle for TLC.  Each budget lets every fault  *)
(* it names happen that often in one behaviour.                            *)
(***************************************************************************)
EXTENDS ExecutionLifecycle

NoFaults == [k \in FaultKinds |-> 0]

EveryFaultOnce == [k \in FaultKinds |-> 1]

OneCrash == [NoFaults EXCEPT !["crash"] = 1]
=============================================================================
