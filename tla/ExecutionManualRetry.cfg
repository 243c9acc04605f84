SPECIFICATION Spec
CONSTANTS
  MaxAttempts = 2
  Executions = {e1}
  Slots = {s1, s2}
  Requests = {r1}
  FaultBudget <- NoFaults
  MaxManualRetries = 1
  MaxStalledCount = 1
  None = None
INVARIANT NothingStranded
CHECK_DEADLOCK FALSE
