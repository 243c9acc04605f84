SPECIFICATION Spec
CONSTANTS
  Members = {}
  Browsers = {b1, b2}
  Ips = {ip1}
  Sessions = {1, 2, 3}
  Requests = {r1}
  Seed = seed
  DemoUser = demoUser
  None = None
  AccessTtl = 1
  RefreshTtl = 2
  DemoTtl = 1
  RateWindow = 1
  MaxPerIp = 2
  CleanupLimit = 2
  MaxTime = 1
  MaxClones = 2
  MaxTokens = 2
INVARIANT VisitorsShareNothing
CHECK_DEADLOCK FALSE
