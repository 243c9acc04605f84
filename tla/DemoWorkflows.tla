--------------------------- MODULE DemoWorkflows ---------------------------
(***************************************************************************)
(* The six workflows the demo workspace is seeded with.  A step has its    *)
(* key, its type, the branch its configuration names, its routes, the      *)
(* fields of the payload its templates read and the earlier steps whose    *)
(* output they read; a workflow also has the fields of the payload the     *)
(* console starts it with.  "payload" stands for the payload as a whole.   *)
(***************************************************************************)
EXTENDS DefinitionRules

Condition(key, branch, routes) ==
  [key |-> key, type |-> "condition", branch |-> branch, routes |-> routes,
   payload |-> {}, outputs |-> {}]
Http(key, routes, payload, outputs) ==
  [key |-> key, type |-> "http", branch |-> None, routes |-> routes,
   payload |-> payload, outputs |-> outputs]
To(key) == [onSuccess |-> key]
Last == [onSuccess |-> None]

LeadRoutingPayload ==
  {"name", "email", "score", "source", "company", "companyDomain", "title", "urgency",
   "notes", "requestId", "receivedAt"}
LeadRouting ==
  [entry |-> "validate_lead_payload",
   payload |-> LeadRoutingPayload,
   steps |-> <<
     Condition("validate_lead_payload", "valid", [valid |-> "classify_source"]),
     Condition("classify_source", "qualified",
       [qualified |-> "create_lead_snapshot", nurture |-> "create_nurture_snapshot"]),
     Http("create_lead_snapshot", To("route_to_owner_queue"),
       {"name", "email", "company", "source", "requestId", "score"}, {}),
     Http("create_nurture_snapshot", To("write_routing_audit"),
       {"name", "email", "company", "requestId"}, {}),
     Http("route_to_owner_queue", To("write_routing_audit"),
       {"email", "company"}, {"create_lead_snapshot"}),
     Http("write_routing_audit", Last, {"email", "requestId", "receivedAt"}, {})>>]

WebhookQueueWorkerPayload ==
  {"event", "externalId", "idempotencyKey", "accountId", "source", "name", "email",
   "company", "requestId", "receivedAt"}
WebhookQueueWorker ==
  [entry |-> "accept_signed_webhook",
   payload |-> WebhookQueueWorkerPayload,
   steps |-> <<
     Condition("accept_signed_webhook", "accepted", [accepted |-> "normalize_event_payload"]),
     Condition("normalize_event_payload", "normalized",
       [normalized |-> "persist_idempotency_window"]),
     Http("persist_idempotency_window", To("deliver_to_downstream_api"),
       {"idempotencyKey", "externalId", "event", "receivedAt"}, {}),
     Http("deliver_to_downstream_api", To("archive_delivery_snapshot"),
       {"event", "externalId", "accountId", "payload"}, {}),
     Http("archive_delivery_snapshot", Last,
       {"event", "requestId"}, {"deliver_to_downstream_api"})>>]

ApiEnrichmentPayload ==
  {"name", "email", "source", "company", "companyDomain", "title", "urgency", "notes",
   "requestId", "receivedAt"}
ApiEnrichment ==
  [entry |-> "prepare_enrichment_request",
   payload |-> ApiEnrichmentPayload,
   steps |-> <<
     Condition("prepare_enrichment_request", "ready", [ready |-> "fetch_company_profile"]),
     Http("fetch_company_profile", To("fetch_contact_profile"),
       {"companyDomain", "company", "requestId"}, {}),
     Http("fetch_contact_profile", To("evaluate_enrichment_quality"),
       {"email", "name", "companyDomain", "requestId"}, {}),
     Condition("evaluate_enrichment_quality", "accepted",
       [accepted |-> "push_to_business_system", rejected |-> "write_review_event"]),
     Http("push_to_business_system", Last,
       {"requestId"}, {"fetch_company_profile", "fetch_contact_profile"}),
     Http("write_review_event", Last, {"requestId", "companyDomain"}, {})>>]

RetryFailureDrillPayload ==
  {"source", "event", "externalId", "failureMode", "expectedStatus", "requestId",
   "receivedAt"}
RetryFailureDrill ==
  [entry |-> "prepare_retry_probe",
   payload |-> RetryFailureDrillPayload,
   steps |-> <<
     Condition("prepare_retry_probe", "probe_ready", [probe_ready |-> "write_retry_context"]),
     Http("write_retry_context", To("classify_retry_probe"),
       {"requestId", "externalId", "failureMode", "event"}, {}),
     Condition("classify_retry_probe", "retryable", [retryable |-> "call_unstable_downstream"]),
     Http("call_unstable_downstream", Last,
       {"requestId", "failureMode", "expectedStatus"}, {})>>]

SubscriptionSyncPayload ==
  {"id", "type", "source", "receivedAt", "data.object.customer", "data.object.id",
   "data.object.status", "data.object.plan"}
SubscriptionSync ==
  [entry |-> "classify_billing_event",
   payload |-> SubscriptionSyncPayload,
   steps |-> <<
     Condition("classify_billing_event", "subscription_event",
       [subscription_event |-> "persist_billing_event"]),
     Http("persist_billing_event", To("sync_subscription_state"),
       {"id", "type", "receivedAt"}, {}),
     Http("sync_subscription_state", To("write_plan_audit"),
       {"data.object.customer", "data.object.id", "data.object.status", "data.object.plan"}, {}),
     Http("write_plan_audit", Last,
       {"data.object.customer", "data.object.id", "data.object.plan", "id"}, {})>>]

AiDecisionRoutingPayload ==
  {"name", "email", "score", "source", "company", "companyDomain", "title", "urgency",
   "notes", "requestId", "receivedAt", "ai.provider", "ai.model", "ai.expectedBranch",
   "ai.score", "ai.reason"}
AiDecisionRouting ==
  [entry |-> "prepare_ai_contract",
   payload |-> AiDecisionRoutingPayload,
   steps |-> <<
     Condition("prepare_ai_contract", "contract_ready",
       [contract_ready |-> "record_ai_request_contract"]),
     Http("record_ai_request_contract", To("classify_ai_result"),
       {"requestId", "ai.provider", "ai.model", "title", "urgency", "score",
        "ai.expectedBranch"}, {}),
     Condition("classify_ai_result", "priority",
       [priority |-> "route_priority_request", standard |-> "route_standard_request"]),
     Http("route_priority_request", Last, {"ai.score", "ai.reason", "requestId"}, {}),
     Http("route_standard_request", Last, {"ai.score", "ai.reason", "requestId"}, {})>>]

\* buildDemoWorkflowSeeds
Seeds == {LeadRouting, WebhookQueueWorker, ApiEnrichment, RetryFailureDrill, SubscriptionSync,
          AiDecisionRouting}
=============================================================================
