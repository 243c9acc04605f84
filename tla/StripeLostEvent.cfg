SPECIFICATION Spec
CONSTANTS
  c1 = c1
  c2 = c2
  s1 = s1
  s2 = s2
  started = started
  billed = billed
  other = other
  unhandled = unhandled
  Workspaces = {w1, w2}
  Customers = {c1, c2}
  Subscriptions = {s1, s2}
  Plans = {"free", "starter", "pro"}
  FreePlan = "free"
  Events = {started}
  EventData <- ExampleData
  Ignorable = {}
  None = None
  Handlers = {h1}
  Checkouts = {k1}
  MaxDeliveries = 2
  MaxFaults = 1
INVARIANT AnsweredIsSettled
CHECK_DEADLOCK FALSE
