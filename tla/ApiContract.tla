---------------------------- MODULE ApiContract ----------------------------
(***************************************************************************)
(* The HTTP API: the routes of the controllers with the guard each is      *)
(* behind, the fields a request must have and those its answer has.  A     *)
(* field is a pair of the object it is in and its name; "answer" is the    *)
(* answer itself, and "items" an element of its list.                      *)
(***************************************************************************)
EXTENDS Integers, Sequences

Of(object, fields) == {object} \X fields

---------------------------------------------------------------------------
(***************************************************************************)
(* The answers of the API, from the functions that build them.             *)
(***************************************************************************)
Named == {"id", "name"}
PageAnswer == Of("answer", {"items", "nextCursor", "hasMore"})
ListAnswer(item) == Of("answer", {"items"}) \cup Of("items", item)

\* The records of the user and the workspace are answered as they were read.
UserFields == {"id", "email", "name"}
RegisterAnswer ==
  Of("answer", {"user", "workspace"}) \cup Of("user", UserFields)
    \cup Of("workspace", Named \cup {"role", "isDemo", "demoSessionId"})
MeAnswer == RegisterAnswer \cup Of("answer", {"session"}) \cup Of("session", {"id", "expiresAt"})
Tokens ==
  {"tokenType", "accessToken", "refreshToken", "accessTokenExpiresAt",
   "refreshTokenExpiresAt", "expiresIn"}
RefreshAnswer == MeAnswer \cup Of("answer", {"tokens"}) \cup Of("tokens", Tokens)
LoginAnswer == RefreshAnswer \cup Of("user", {"passwordHash"})
LogoutAnswer == Of("answer", {"revoked"})

Summary == Named \cup {"role"}
CurrentWorkspaceAnswer ==
  Of("answer", {"workspace", "scope"}) \cup Of("workspace", Summary)
    \cup Of("scope", {"userId", "sessionId", "workspaceId", "role"})

WorkflowFields ==
  {"id", "publicId", "workspaceId", "name", "status", "version", "triggerType", "definition",
   "publishedAt", "createdAt", "updatedAt"}
DefinitionFields ==
  Of("definition", {"schemaVersion", "trigger", "entryStepKey", "steps"})
    \cup Of("trigger", {"type", "config"}) \cup Of("steps", {"key", "name", "type", "config"})
WorkflowAnswer ==
  Of("answer", {"workflow"}) \cup Of("workflow", WorkflowFields) \cup DefinitionFields
ContractFields ==
  {"mode", "workflowId", "workflowPublicId", "workspaceId", "workflowVersion", "triggerType",
   "workflowStatus", "entryStepKey", "stepCount"}
TestAnswer ==
  Of("answer", {"contract"})
    \cup Of("contract",
            ContractFields \cup {"source", "idempotencyKey", "payload", "acceptedAt"})

Owned == {"id", "workspaceId", "workflowId"}
SecretFields == Owned \cup {"key", "maskedValue", "createdAt", "updatedAt"}
CredentialFields ==
  Owned \cup {"name", "type", "maskedValue", "metadata", "createdAt", "updatedAt"}
SecretAnswer == Of("answer", {"secret"}) \cup Of("secret", SecretFields)
CredentialAnswer == Of("answer", {"credential"}) \cup Of("credential", CredentialFields)
DeleteAnswer == Of("answer", {"deleted"})

Timed == {"status", "input", "output", "errorCode", "errorMessage", "durationMs", "startedAt",
          "finishedAt", "createdAt"}
ExecutionFields ==
  Owned \cup Timed \cup {"workflowPublicId", "workflowVersion", "attempts", "queuedAt"}
StepFields == Timed \cup {"id", "workspaceId", "executionId", "stepKey", "type"}
ExecutionAnswer == Of("answer", {"execution"}) \cup Of("execution", ExecutionFields)

RequestFields ==
  Owned \cup {"workflowPublicId", "workflowVersion", "status", "source", "idempotencyKey",
              "payloadHash"}
ContractAnswer ==
  Of("answer", {"contract"}) \cup Of("contract", ContractFields \cup {"request", "response"})
    \cup Of("request", {"method", "path", "authentication", "headers", "body"})
    \cup Of("response", {"statusCode", "body"})
AutomationAnswer ==
  ExecutionAnswer \cup Of("answer", {"automationRequest"})
    \cup Of("automationRequest", RequestFields \cup {"acceptedAt"})
HookAnswer ==
  ExecutionAnswer \cup Of("answer", {"webhookRequest"})
    \cup Of("webhookRequest", RequestFields \cup {"receivedAt"})

KeyFields == Named \cup {"prefix", "lastUsedAt", "revokedAt", "createdAt"}
CurrentKeyAnswer ==
  Of("answer", {"apiKey"})
    \cup Of("apiKey", Named \cup {"workspaceId", "prefix", "lastUsedAt"})
\* Seeded regression: the token of a new key is not handed out.
TokenWithheld == Of("answer", {"apiKey"}) \cup Of("apiKey", KeyFields)
CreateKeyAnswer == Of("answer", {"apiKey", "token"}) \cup Of("apiKey", KeyFields)
RevokeKeyAnswer == Of("answer", {"revoked"})

AuditFields ==
  {"id", "workspaceId", "actorUserId", "action", "entityType", "entityId", "metadata", "ip",
   "userAgent", "createdAt"}

MeteredCalls == {"aiCalls", "httpCalls", "webhookRequests"}
PlanLimits == MeteredCalls \cup {"workflows", "executions", "requestsPerMinute"}
Totals == MeteredCalls \cup {"executions", "retries"}
UsageAnswer ==
  Of("answer", {"workspaceId", "periodStart", "periodEnd", "plan", "totals", "metrics"})
    \cup Of("plan", {"name", "limits", "used", "remaining"})
    \cup Of("limits", PlanLimits) \cup Of("remaining", PlanLimits)
    \cup Of("used", Totals \cup {"workflows"})
    \cup Of("totals", Totals) \cup Of("metrics", {"type", "quantity"})

PortalAnswer == Of("answer", {"provider", "workspaceId", "stripeCustomerId", "sessionId", "url"})
CheckoutAnswer == PortalAnswer \cup Of("answer", {"plan"})
StripeAnswer == Of("answer", {"received", "eventId", "eventType", "status", "workspaceId"})

DemoAnswer ==
  Of("answer", {"demo"})
    \cup Of("demo", {"enabled", "seedVersion", "resetAt", "credentials", "user", "workspace",
                     "apiKey", "workflows", "limits", "publicRegistrationEnabled"})
    \cup Of("credentials", {"email", "password", "apiKey"}) \cup Of("user", UserFields)
    \cup Of("workspace", Named \cup {"isDemo"}) \cup Of("apiKey", Named \cup {"prefix"})
    \cup Of("workflows", Named \cup {"publicId", "triggerType", "status", "version"})
    \cup Of("limits", {"executionsPerHour", "aiCallsPerDay"})

---------------------------------------------------------------------------
(***************************************************************************)
(* The fields without which a request's body is refused.                   *)
(***************************************************************************)
RegisterBody == {"email", "password", "name"}
LoginBody == {"email", "password"}
RefreshBody == {"refreshToken"}
LogoutBody == {"refreshToken"}
CreateWorkflowBody == {"name"}
SecretBody == {"key", "value"}
CredentialBody == {"name", "type", "value"}
KeyBody == {"name"}
RenameBody == {"name"}
CheckoutBody == {"plan"}

---------------------------------------------------------------------------
(***************************************************************************)
(* The routes. "*" in a path stands for a parameter; a guard wants the     *)
(* session's access token, an API key, or nothing.                         *)
(***************************************************************************)
Route(method, path, guard, needs, answer) ==
  [method |-> method, path |-> path, guard |-> guard, needs |-> needs, answer |-> answer]

AuthRoutes ==
  {Route("POST", <<"auth", "register">>, "open", RegisterBody, RegisterAnswer),
   Route("POST", <<"auth", "login">>, "open", LoginBody, LoginAnswer),
   Route("POST", <<"auth", "refresh">>, "open", RefreshBody, RefreshAnswer),
   Route("POST", <<"auth", "logout">>, "open", LogoutBody, LogoutAnswer),
   Route("GET", <<"auth", "me">>, "session", {}, MeAnswer)}

WorkspaceRoutes ==
  {Route("GET", <<"workspaces">>, "session", {}, ListAnswer(Summary)),
   Route("GET", <<"workspaces", "current">>, "session", {}, CurrentWorkspaceAnswer),
   Route("PATCH", <<"workspaces", "current">>, "session", RenameBody, CurrentWorkspaceAnswer)}

WorkflowRoutes ==
  {Route("GET", <<"workflows">>, "session", {}, ListAnswer(WorkflowFields) \cup DefinitionFields),
   Route("POST", <<"workflows">>, "session", CreateWorkflowBody, WorkflowAnswer),
   Route("GET", <<"workflows", "*">>, "session", {}, WorkflowAnswer),
   Route("PATCH", <<"workflows", "*">>, "session", {}, WorkflowAnswer),
   Route("POST", <<"workflows", "*", "publish">>, "session", {}, WorkflowAnswer),
   Route("POST", <<"workflows", "*", "test">>, "session", {}, TestAnswer)}

SecretRoutes ==
  {Route("GET", <<"workflows", "*", "secrets">>, "session", {}, ListAnswer(SecretFields)),
   Route("POST", <<"workflows", "*", "secrets">>, "session", SecretBody, SecretAnswer),
   Route("DELETE", <<"workflows", "*", "secrets", "*">>, "session", {}, DeleteAnswer)}

CredentialRoutes ==
  LET path == <<"workflows", "*", "connector-credentials">> IN
  {Route("GET", path, "session", {}, ListAnswer(CredentialFields)),
   Route("POST", path, "session", CredentialBody, CredentialAnswer),
   Route("DELETE", path \o <<"*">>, "session", {}, DeleteAnswer)}

ExecutionRoutes ==
  {Route("GET", <<"executions">>, "session", {}, PageAnswer \cup Of("items", ExecutionFields)),
   Route("GET", <<"executions", "*">>, "session", {}, ExecutionAnswer),
   Route("GET", <<"executions", "*", "steps">>, "session", {}, ListAnswer(StepFields)),
   Route("POST", <<"executions", "*", "retry">>, "session", {}, ExecutionAnswer)}

AutomationRoutes ==
  {Route("GET", <<"automation", "contracts", "*">>, "key", {}, ContractAnswer),
   Route("POST", <<"automation", "execute", "*">>, "key", {}, AutomationAnswer)}

HookRoutes == {Route("POST", <<"hooks", "*">>, "open", {}, HookAnswer)}

KeyRoutes ==
  {Route("GET", <<"api-keys", "current">>, "key", {}, CurrentKeyAnswer),
   Route("GET", <<"api-keys">>, "session", {}, ListAnswer(KeyFields)),
   Route("POST", <<"api-keys">>, "session", KeyBody, CreateKeyAnswer),
   Route("DELETE", <<"api-keys", "*">>, "session", {}, RevokeKeyAnswer)}

UsageRoutes == {Route("GET", <<"usage", "current">>, "session", {}, UsageAnswer)}

AuditRoutes ==
  {Route("GET", <<"audit-logs">>, "session", {}, PageAnswer \cup Of("items", AuditFields))}

BillingRoutes ==
  {Route("POST", <<"billing", "checkout">>, "session", CheckoutBody, CheckoutAnswer),
   Route("POST", <<"billing", "portal">>, "session", {}, PortalAnswer),
   Route("POST", <<"billing", "webhook">>, "open", {}, StripeAnswer)}

DemoRoutes ==
  {Route("POST", <<"demo", "seed">>, "open", {}, DemoAnswer),
   Route("POST", <<"demo", "reset">>, "session", {}, DemoAnswer \cup Of("answer", {"reset"}))}

Routes ==
  AuthRoutes \cup WorkspaceRoutes \cup WorkflowRoutes \cup SecretRoutes \cup CredentialRoutes
    \cup ExecutionRoutes \cup AutomationRoutes \cup HookRoutes \cup KeyRoutes \cup UsageRoutes
    \cup AuditRoutes \cup BillingRoutes \cup DemoRoutes

Served(route, method, path) ==
  /\ route.method = method
  /\ Len(route.path) = Len(path)
  /\ \A i \in DOMAIN path : route.path[i] \in {path[i], "*"}
=============================================================================
