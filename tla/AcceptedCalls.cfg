SPECIFICATION FairCallSpec
CONSTANTS
  MaxAttempts = 2
  Executions = {c1, c2}
  Slots = {s1}
  Retries = {r1}
  Requests = {c1, c2, r1}
  FaultBudget <- OneLostHandOver
  MaxManualRetries = 1
  MaxStalledCount = 1
  None = None
  w = w
  k = k
  p = p
  Inputs <- ExampleInputs
  Workflows = {w}
  Keys = {k}
  Payloads = {p}
  Signatures <- ExampleSignatures
  WebhookLimit = 2
  ExecutionLimit = 2
  MaxOpen = 2
  MaxCallFaults = 1
INVARIANT AcceptedCallsAreCarried
PROPERTIES KeyIsOneExecution AcceptedCallsSettle
CHECK_DEADLOCK FALSE
