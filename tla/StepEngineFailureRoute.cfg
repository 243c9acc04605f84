SPECIFICATION EngineSpec
CONSTANTS
  StepCount = 3
  Branches = {"yes", "no"}
  Workflows <- OnlyDecision
  MaxAttempts = 2
  MaxRuns = 1
  MaxDbFaults = 0
PROPERTY FailureRouteFollowed
CHECK_DEADLOCK FALSE
