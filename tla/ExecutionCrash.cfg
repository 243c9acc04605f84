SPECIFICATION Spec
CONSTANTS
  MaxAttempts = 2
  Executions = {e1}
  Slots = {s1, s2}
  Requests = {r1}
  FaultBudget <- OneCrash
  MaxManualRetries = 0
  MaxStalledCount = 1
  None = None
INVARIANT ExhaustedJobIsSettled
CHECK_DEADLOCK FALSE
