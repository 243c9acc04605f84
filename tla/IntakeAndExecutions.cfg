SPECIFICATION IntakeAndExecutionsSpec
CONSTANTS
  Calls = {c1, c2, c3, c4}
  wA = wA
  wB = wB
  k = k
  p = p
  q = q
  Inputs <- ExampleInputs
  Workflows = {wA, wB}
  Keys = {k}
  Payloads = {p, q}
  Signatures <- ExampleSignatures
  Nothing = Nothing
  WebhookLimit = 2
  ExecutionLimit = 2
  MaxOpen = 2
  MaxFaults = 1
  MaxAttempts = 3
  Executions = {e1}
  Slots = {s1, s2}
  Requests = {r1, r2}
  FaultBudget <- EveryFaultOnce
  MaxManualRetries = 1
  MaxStalledCount = 1
  None = None
SYMMETRY AnyCall
INVARIANTS
  OneExecutionPerKey
  AnswersAgree
  OvershootBounded
  SingleOwner
  CompletesOnce
  TransferIsDurable
PROPERTIES
  NoStaleSettlement
  ImplementsContract
CHECK_DEADLOCK FALSE
