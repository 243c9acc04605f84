SPECIFICATION Spec
CONSTANTS
  Members = {ann}
  Browsers = {b1, b2}
  Ips = {ip1}
  Sessions = {1, 2}
  Requests = {r1, r2}
  Seed = seed
  DemoUser = demoUser
  None = None
  AccessTtl = 1
  RefreshTtl = 2
  DemoTtl = 1
  RateWindow = 1
  MaxPerIp = 1
  CleanupLimit = 1
  MaxTime = 2
  MaxClones = 2
  MaxTokens = 2
SYMMETRY Interchangeable
INVARIANTS RedeemedOnce DemoLoginsBounded CallsKeepTheirWorkspace
PROPERTIES LoggedOutTokenIsDead DeletesOnlyExpiredCopies
CHECK_DEADLOCK FALSE
