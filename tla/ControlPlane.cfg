SPECIFICATION FairSpec
CONSTANTS
  None = None
  ApiRequests = {"r1", "r2"}
  MaxCount = 4
  WindowTtl = 2
  MaxRequests = 2
  Workspaces = {"mine", "demo"}
  Prefixes = {"p", "pdemo"}
  Secrets = {"x", "y"}
  DemoWorkspace = "demo"
  DemoPrefix = "pdemo"
  KeyRequests = {"r1"}
  KeyAttempts = 2
  MaxIds = 2
  WorkflowIds = {"w1", "w2", "w3"}
  Triggers = {"webhook", "automation"}
  Bodies = {"body"}
  EditRequests = {"r1", "r2"}
  Limit = 1
  MaxVersion = 2
  StepRoutes = {"onSuccess", "x", "y"}
  StepLimit = 3
  Types = {"condition", "notification"}
  MaxSteps = 4
  MaxEdits = 3
  Branch = "x"
  EngineStepLimit = 50
  Fields = {a, b}
  SecretToken = secret
  PlainText = text
  Object = object
  TokenLimit = 2
  MaxPieces = 3
  Names = {"n"}
  CredentialTypes = {"bearer_token", "api_key"}
  SecretValues = {"v1", "v2"}
  SecretRequests = {"r1", "r2"}
  MaxWorkflows = 2
  JobAttempts = 2
  RedirectLimit = 1
  MaxBody = 1
  Parts = {"database", "redis", "queue"}
  Sources <- MCSources
  ClockTick = 30
  MaxMisses = 2
  MaxTaken = 4
  Accounts = {ann, bob}
  Calls = {c1, c2}
  MaxRuns = 2
  RowIds = {1, 2, 3, 4}
  PageLimit = 1
  MaxPages = 3
  Skew = 1
  MaxClock = 1
  MaxKeys = 2
INVARIANTS
  WindowsHold
  TriggersAgree
  EditsStayAcceptable
  RunsFollowTheDrawing
  ResolvedAsWritten
  SecretsReadBack
  VerdictAgrees
  AcceptedSettingsHold
  StepsBelongToShownRun
  ListedOnce
  AnswersUnderstood
  SessionsEndForCause
PROPERTIES
  NobodyLockedOut
  RevokedKeyRefused
  PublishedIsFrozen
  CallSettles
  ShutdownEnds
CHECK_DEADLOCK FALSE
