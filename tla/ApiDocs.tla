------------------------------ MODULE ApiDocs ------------------------------
(***************************************************************************)
(* What the OpenAPI documents of the HTTP API say of its routes: for each, *)
(* the fields a request must have and those its answer has, as the schemas *)
(* beside the controllers require them.                                    *)
(***************************************************************************)
EXTENDS ApiContract

Doc(method, path, needs, answer) ==
  [method |-> method, path |-> path, needs |-> needs, answer |-> answer]

userSchema == {"id", "email", "name"}
workspaceSchema == {"id", "name", "role"}
tokensSchema ==
  {"tokenType", "accessToken", "refreshToken", "accessTokenExpiresAt", "refreshTokenExpiresAt",
   "expiresIn"}
registerUserResponseSchema ==
  Of("answer", {"user", "workspace"}) \cup Of("user", userSchema)
    \cup Of("workspace", workspaceSchema)
authenticatedUserResponseSchema ==
  registerUserResponseSchema \cup Of("answer", {"session"})
    \cup Of("session", {"id", "expiresAt"})
authenticationResponseSchema ==
  authenticatedUserResponseSchema \cup Of("answer", {"tokens"}) \cup Of("tokens", tokensSchema)

AuthDocs ==
  {Doc("POST", <<"auth", "register">>, {"email", "password", "name"}, registerUserResponseSchema),
   Doc("POST", <<"auth", "login">>, {"email", "password"}, authenticationResponseSchema),
   Doc("POST", <<"auth", "refresh">>, {"refreshToken"}, authenticationResponseSchema),
   Doc("POST", <<"auth", "logout">>, {"refreshToken"}, Of("answer", {"revoked"})),
   Doc("GET", <<"auth", "me">>, {}, authenticatedUserResponseSchema)}

workspaceSummarySchema == {"id", "name", "role"}
currentWorkspaceResponseSchema ==
  Of("answer", {"workspace", "scope"}) \cup Of("workspace", workspaceSummarySchema)
    \cup Of("scope", {"userId", "sessionId", "workspaceId", "role"})

WorkspaceDocs ==
  {Doc("GET", <<"workspaces">>, {}, ListAnswer(workspaceSummarySchema)),
   Doc("GET", <<"workspaces", "current">>, {}, currentWorkspaceResponseSchema),
   Doc("PATCH", <<"workspaces", "current">>, {"name"}, currentWorkspaceResponseSchema)}

workflowSchema ==
  {"id", "publicId", "workspaceId", "name", "status", "version", "triggerType", "definition",
   "publishedAt", "createdAt", "updatedAt"}
workflowDefinitionSchema ==
  Of("definition", {"schemaVersion", "trigger", "entryStepKey", "steps"})
    \cup Of("trigger", {"type", "config"}) \cup Of("steps", {"key", "name", "type", "config"})
workflowResponseSchema ==
  Of("answer", {"workflow"}) \cup Of("workflow", workflowSchema) \cup workflowDefinitionSchema
workflowTestResponseSchema ==
  Of("answer", {"contract"})
    \cup Of("contract",
            {"mode", "workflowId", "workflowPublicId", "workspaceId", "workflowVersion",
             "triggerType", "workflowStatus", "entryStepKey", "stepCount", "source",
             "idempotencyKey", "payload", "acceptedAt"})

WorkflowDocs ==
  {Doc("GET", <<"workflows">>, {}, ListAnswer(workflowSchema) \cup workflowDefinitionSchema),
   Doc("POST", <<"workflows">>, {"name"}, workflowResponseSchema),
   Doc("GET", <<"workflows", "*">>, {}, workflowResponseSchema),
   Doc("PATCH", <<"workflows", "*">>, {}, workflowResponseSchema),
   Doc("POST", <<"workflows", "*", "publish">>, {}, workflowResponseSchema),
   Doc("POST", <<"workflows", "*", "test">>, {}, workflowTestResponseSchema)}

workflowSecretSchema ==
  {"id", "workspaceId", "workflowId", "key", "maskedValue", "createdAt", "updatedAt"}
connectorCredentialSchema ==
  {"id", "workspaceId", "workflowId", "name", "type", "maskedValue", "metadata", "createdAt",
   "updatedAt"}
deleteResponseSchema == Of("answer", {"deleted"})

SecretDocs ==
  LET secrets == <<"workflows", "*", "secrets">>
      credentials == <<"workflows", "*", "connector-credentials">> IN
  {Doc("GET", secrets, {}, ListAnswer(workflowSecretSchema)),
   Doc("POST", secrets, {"key", "value"},
       Of("answer", {"secret"}) \cup Of("secret", workflowSecretSchema)),
   Doc("DELETE", secrets \o <<"*">>, {}, deleteResponseSchema),
   Doc("GET", credentials, {}, ListAnswer(connectorCredentialSchema)),
   Doc("POST", credentials, {"name", "type", "value"},
       Of("answer", {"credential"}) \cup Of("credential", connectorCredentialSchema)),
   Doc("DELETE", credentials \o <<"*">>, {}, deleteResponseSchema)}

executionSchema ==
  {"id", "workspaceId", "workflowId", "workflowPublicId", "workflowVersion", "status",
   "attempts", "input", "output", "errorCode", "errorMessage", "durationMs", "queuedAt",
   "startedAt", "finishedAt", "createdAt"}
executionStepSchema ==
  {"id", "workspaceId", "executionId", "stepKey", "type", "status", "input", "output",
   "errorCode", "errorMessage", "durationMs", "startedAt", "finishedAt", "createdAt"}
executionResponseSchema == Of("answer", {"execution"}) \cup Of("execution", executionSchema)
Page(item) == ListAnswer(item) \cup Of("answer", {"nextCursor", "hasMore"})

ExecutionDocs ==
  {Doc("GET", <<"executions">>, {}, Page(executionSchema)),
   Doc("GET", <<"executions", "*">>, {}, executionResponseSchema),
   Doc("GET", <<"executions", "*", "steps">>, {}, ListAnswer(executionStepSchema)),
   Doc("POST", <<"executions", "*", "retry">>, {}, executionResponseSchema)}

automationContractSchema ==
  Of("answer", {"contract"})
    \cup Of("contract",
            {"mode", "workflowId", "workflowPublicId", "workspaceId", "workflowVersion",
             "triggerType", "workflowStatus", "entryStepKey", "stepCount", "request",
             "response"})
acceptedSchema ==
  {"id", "workspaceId", "workflowId", "workflowPublicId", "workflowVersion", "status", "source",
   "idempotencyKey", "payloadHash"}
automationAcceptedSchema ==
  Of("answer", {"automationRequest"}) \cup executionResponseSchema
    \cup Of("automationRequest", acceptedSchema \cup {"acceptedAt"})
publicWebhookResponseSchema ==
  Of("answer", {"webhookRequest"}) \cup executionResponseSchema
    \cup Of("webhookRequest", acceptedSchema \cup {"receivedAt"})

AutomationDocs ==
  {Doc("GET", <<"automation", "contracts", "*">>, {}, automationContractSchema),
   Doc("POST", <<"automation", "execute", "*">>, {"payload"}, automationAcceptedSchema),
   Doc("POST", <<"hooks", "*">>, {}, publicWebhookResponseSchema)}

apiKeySchema == {"id", "name", "prefix", "lastUsedAt", "revokedAt", "createdAt"}
currentApiKeyResponseSchema ==
  Of("answer", {"apiKey"})
    \cup Of("apiKey", {"id", "workspaceId", "name", "prefix", "lastUsedAt"})

KeyDocs ==
  {Doc("GET", <<"api-keys", "current">>, {}, currentApiKeyResponseSchema),
   Doc("GET", <<"api-keys">>, {}, ListAnswer(apiKeySchema)),
   Doc("POST", <<"api-keys">>, {"name"},
       Of("answer", {"apiKey", "token"}) \cup Of("apiKey", apiKeySchema)),
   Doc("DELETE", <<"api-keys", "*">>, {}, Of("answer", {"revoked"}))}

usageTotalsSchema == {"executions", "aiCalls", "httpCalls", "webhookRequests", "retries"}
usagePlanLimitsSchema ==
  {"workflows", "executions", "aiCalls", "httpCalls", "webhookRequests", "requestsPerMinute"}
currentUsageResponseSchema ==
  Of("answer", {"workspaceId", "periodStart", "periodEnd", "plan", "totals", "metrics"})
    \cup Of("plan", {"name", "limits", "used", "remaining"})
    \cup Of("limits", usagePlanLimitsSchema) \cup Of("remaining", usagePlanLimitsSchema)
    \cup Of("used", usageTotalsSchema \cup {"workflows"})
    \cup Of("totals", usageTotalsSchema) \cup Of("metrics", {"type", "quantity"})
auditLogSchema ==
  {"id", "workspaceId", "actorUserId", "action", "entityType", "entityId", "metadata", "ip",
   "userAgent", "createdAt"}

ReportDocs ==
  {Doc("GET", <<"usage", "current">>, {}, currentUsageResponseSchema),
   Doc("GET", <<"audit-logs">>, {}, Page(auditLogSchema))}

billingPortalResponseSchema == {"provider", "workspaceId", "stripeCustomerId", "sessionId", "url"}
billingCheckoutResponseSchema ==
  {"provider", "workspaceId", "plan", "stripeCustomerId", "sessionId", "url"}
stripeWebhookResponseSchema == {"received", "eventId", "eventType", "status", "workspaceId"}

BillingDocs ==
  {Doc("POST", <<"billing", "checkout">>, {"plan"}, Of("answer", billingCheckoutResponseSchema)),
   Doc("POST", <<"billing", "portal">>, {}, Of("answer", billingPortalResponseSchema)),
   Doc("POST", <<"billing", "webhook">>, {}, Of("answer", stripeWebhookResponseSchema))}

demoStateSchema ==
  Of("demo", {"enabled", "seedVersion", "resetAt", "credentials", "user", "workspace", "apiKey",
              "workflows", "limits", "publicRegistrationEnabled"})
demoObjectSchemas ==
  Of("credentials", {"email", "password", "apiKey"}) \cup Of("user", {"id", "email", "name"})
    \cup Of("workspace", {"id", "name", "isDemo"}) \cup Of("apiKey", {"id", "prefix", "name"})
    \cup Of("workflows", {"id", "publicId", "name", "triggerType", "status", "version"})
    \cup Of("limits", {"executionsPerHour", "aiCallsPerDay"})
demoSeedResponseSchema == Of("answer", {"demo"}) \cup demoStateSchema \cup demoObjectSchemas

DemoDocs ==
  {Doc("POST", <<"demo", "seed">>, {}, demoSeedResponseSchema),
   Doc("POST", <<"demo", "reset">>, {}, demoSeedResponseSchema \cup Of("answer", {"reset"}))}

Docs ==
  AuthDocs \cup WorkspaceDocs \cup WorkflowDocs \cup SecretDocs \cup ExecutionDocs
    \cup AutomationDocs \cup KeyDocs \cup ReportDocs \cup BillingDocs \cup DemoDocs

Documents(doc, route) == doc.method = route.method /\ doc.path = route.path

\* A route's answer has what its document says, and of the objects documented nothing else but
\* that the workspace carries along whose copy of the demo it is; a body that its document
\* allows is taken.
AsDocumented(route) ==
  \E doc \in Docs :
    /\ Documents(doc, route)
    /\ route.needs \subseteq doc.needs
    /\ doc.answer \subseteq route.answer
    /\ \A field \in route.answer \ doc.answer :
         \/ field[1] \notin {documented[1] : documented \in doc.answer}
         \/ field \in Of("workspace", {"isDemo", "demoSessionId"})

\* What a route answers of the user that no document of it has.
Untold(route) ==
  {field \in route.answer :
     field[1] = "user" /\ \A doc \in Docs : Documents(doc, route) => field \notin doc.answer}

\* Every route but the login answers as documented.
AnswersAsDocumented ==
  \A route \in Routes : route.path # <<"auth", "login">> => AsDocumented(route)
=============================================================================
