----------------------------- MODULE ApiClient -----------------------------
(***************************************************************************)
(* The calls of the console's client to the HTTP API: the method and the   *)
(* path, the header with a session token or a key, the fields of the body, *)
(* and what the client reads of the answer.                                *)
(***************************************************************************)
EXTENDS ApiContract

\* request: the headers it sets, for a session token, a key, or none
Request(method, path, shows, body, reads) ==
  [method |-> method, path |-> path, shows |-> shows, body |-> body, reads |-> reads]

Get(path, reads) == Request("GET", path, {"session"}, {}, reads)
Post(path, body, reads) == Request("POST", path, {"session"}, body, reads)
Open(path, body, reads) == Request("POST", path, {}, body, reads)
Delete(path) == Request("DELETE", path, {"session"}, {}, {})

Profile == Of("answer", {"workspace"}) \cup Of("workspace", {"id", "name", "role", "isDemo"})
OneWorkflow ==
  Of("answer", {"workflow"}) \cup Of("workflow", WorkflowFields) \cup DefinitionFields
Execution == ExecutionFields \ {"workspaceId"}
Step == {"id", "stepKey", "type", "status", "durationMs", "errorMessage", "startedAt", "finishedAt"}
Key == {"id", "name", "prefix", "lastUsedAt", "revokedAt", "createdAt"}
Secret == {"key", "createdAt", "updatedAt"}
Credential == {"name", "type", "metadata", "createdAt", "updatedAt"}
AuditLog == {"id", "action", "entityType", "entityId", "metadata", "ip", "userAgent", "createdAt"}
Contract ==
  {"mode", "workflowId", "workflowPublicId", "workflowVersion", "triggerType", "workflowStatus",
   "entryStepKey", "stepCount", "request", "response"}
List(item) == Of("answer", {"items"}) \cup Of("items", item)
Paged(item) == List(item) \cup Of("answer", {"hasMore", "nextCursor"})

\* The meters of the usage page: each takes the first of its names the plan has.
Meters == {"executions", "workflows"}
UnsentMeters ==
  {"webhooks", "webhook_requests", "ai_decisions", "ai_calls", "http_calls",
   "http_connector_calls"}

AccountCalls ==
  [seedDemo |-> Open(<<"demo", "seed">>, {},
     Of("answer", {"demo"}) \cup Of("demo", {"credentials"})
       \cup Of("credentials", {"email", "password"})),
   register |-> Open(<<"auth", "register">>, {"name", "email", "password"}, {}),
   login |-> Open(<<"auth", "login">>, {"email", "password"},
     Of("answer", {"tokens", "user", "workspace"}) \cup Of("user", {"id", "email", "name"})
       \cup Of("tokens", {"accessToken", "refreshToken", "accessTokenExpiresAt"})
       \cup Of("workspace", {"id", "name", "role", "isDemo"})),
   logout |-> Post(<<"auth", "logout">>, {"refreshToken"}, {}),
   currentWorkspace |-> Get(<<"workspaces", "current">>, Profile),
   listWorkspaces |-> Get(<<"workspaces">>, List({"id", "name", "role"})),
   updateWorkspaceName |->
     Request("PATCH", <<"workspaces", "current">>, {"session"}, {"name"}, Profile),
   resetDemo |-> Post(<<"demo", "reset">>, {}, {})]

WorkflowCalls ==
  [listWorkflows |-> Get(<<"workflows">>, List(WorkflowFields) \cup DefinitionFields),
   getWorkflow |-> Get(<<"workflows", "id">>, OneWorkflow),
   createWorkflow |-> Post(<<"workflows">>, {"name", "triggerType", "definition"}, OneWorkflow),
   updateDraftWorkflow |->
     Request("PATCH", <<"workflows", "id">>, {"session"}, {"name", "triggerType", "definition"},
            OneWorkflow),
   publishWorkflow |-> Post(<<"workflows", "id", "publish">>, {}, OneWorkflow),
   testWorkflow |-> Post(<<"workflows", "id", "test">>, {"payload", "source", "idempotencyKey"},
     Of("answer", {"contract"}) \cup Of("contract", {"mode"}))]

SecretCalls ==
  LET credentials == <<"workflows", "id", "connector-credentials">> IN
  [listSecrets |-> Get(<<"workflows", "id", "secrets">>, List(Secret)),
   saveSecret |-> Post(<<"workflows", "id", "secrets">>, {"key", "value"}, {}),
   deleteSecret |-> Delete(<<"workflows", "id", "secrets", "key">>),
   listCredentials |-> Get(credentials, List(Credential)),
   saveCredential |-> Post(credentials, {"name", "type", "value", "metadata"}, {}),
   deleteCredential |-> Delete(credentials \o <<"name">>)]

RunCalls ==
  [listExecutions |-> Get(<<"executions">>, Paged(Execution)),
   listExecutionSteps |-> Get(<<"executions", "id", "steps">>, List(Step)),
   retryExecution |-> Post(<<"executions", "id", "retry">>, {}, {}),
   usage |-> Get(<<"usage", "current">>,
     Of("answer", {"plan", "totals", "metrics"}) \cup Of("metrics", {"type", "quantity"})
       \cup Of("plan", {"name", "limits", "used", "remaining"})
       \cup Of("limits", Meters \cup UnsentMeters) \cup Of("used", Meters \cup UnsentMeters)),
   audit |-> Get(<<"audit-logs">>, Paged(AuditLog))]

KeyCalls ==
  [listApiKeys |-> Get(<<"api-keys">>, List(Key)),
   createApiKey |-> Post(<<"api-keys">>, {"name"}, Of("answer", {"token"})),
   revokeApiKey |-> Delete(<<"api-keys", "id">>),
   automationContract |-> Request("GET", <<"automation", "contracts", "id">>, {"key"}, {},
     Of("answer", {"contract"}) \cup Of("contract", Contract) \cup Of("request", {"path"})
       \cup Of("response", {"statusCode", "body"})),
   executeAutomation |-> Request("POST", <<"automation", "execute", "id">>, {"key"},
     {"payload", "source", "metadata"},
     Of("answer", {"automationRequest", "execution"}) \cup Of("execution", {"id", "status"})
       \cup Of("automationRequest", {"id", "source", "acceptedAt"})),
   checkout |-> Post(<<"billing", "checkout">>, {"plan"}, Of("answer", {"url"})),
   portal |-> Post(<<"billing", "portal">>, {}, Of("answer", {"url"}))]

ClientCalls ==
  [c \in DOMAIN AccountCalls \cup DOMAIN WorkflowCalls \cup DOMAIN SecretCalls
          \cup DOMAIN RunCalls \cup DOMAIN KeyCalls |->
    CASE c \in DOMAIN AccountCalls -> AccountCalls[c]
      [] c \in DOMAIN WorkflowCalls -> WorkflowCalls[c]
      [] c \in DOMAIN SecretCalls -> SecretCalls[c]
      [] c \in DOMAIN RunCalls -> RunCalls[c]
      [] c \in DOMAIN KeyCalls -> KeyCalls[c]]

\* The routes each call meets.
RoutesMet ==
  [c \in DOMAIN ClientCalls |->
    {r \in Routes : Served(r, ClientCalls[c].method, ClientCalls[c].path)}]
=============================================================================
