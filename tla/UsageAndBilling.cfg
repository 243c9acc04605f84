SPECIFICATION UsageAndBillingSpec
CONSTANTS
  StepCount = 3
  Branches = {"yes", "no"}
  Workflows <- ExampleWorkflows
  MaxAttempts = 1
  MaxRuns = 2
  MaxDbFaults = 1
  c1 = c1
  c2 = c2
  s1 = s1
  s2 = s2
  started = started
  billed = billed
  other = other
  unhandled = unhandled
  Workspaces = {w1, w2}
  Customers = {c1, c2}
  Subscriptions = {s1, s2}
  Plans = {"free", "starter", "pro"}
  FreePlan = "free"
  Events = {started, billed, other, unhandled}
  EventData <- ExampleData
  Ignorable = {unhandled}
  None = None
  Handlers = {h1, h2}
  Checkouts = {k1, k2}
  MaxDeliveries = 4
  MaxFaults = 1
INVARIANTS
  RowsTellTheRun
  UsageCountsEveryCall
  PaidByOwnCustomer
  ReappliedOnlyAfterFailure
  ProcessedWasApplied
PROPERTIES
  RunEnds
  EveryEventSettles
CHECK_DEADLOCK FALSE
