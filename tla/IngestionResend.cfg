SPECIFICATION IngestionSpec
CONSTANTS
  Calls = {c1, c2}
  wA = wA
  wB = wB
  k = k
  p = p
  q = q
  Inputs <- ResentInputs
  Workflows = {wA, wB}
  Keys = {k}
  Payloads = {p, q}
  Signatures <- ExampleSignatures
  Nothing = Nothing
  WebhookLimit = 2
  ExecutionLimit = 2
  MaxOpen = 2
  MaxFaults = 1
SYMMETRY AnyCall
INVARIANT AcceptedExecutionIsEnqueued
CHECK_DEADLOCK FALSE
