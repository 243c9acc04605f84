--------------------------- MODULE ConnectorCalls ---------------------------
(***************************************************************************)
(* The calls a step makes to the world: an HTTP request with its           *)
(* redirects, a request to the AI provider, or a notification.  The engine *)
(* races each call with the step's time limit and does not stop the one    *)
(* that loses, so a call may outlive its attempt and run beside the next.  *)
(* A failure is a code, a category and whether the connector thinks it     *)
(* worth a retry; the engine and the retry rules judge it again.           *)
(***************************************************************************)
EXTENDS ExecutionRules

CONSTANTS
  RedirectLimit, \* HTTP_CONNECTOR_REDIRECT_LIMIT
  MaxBody        \* chunks of the largest response that is read

ConnectorCallsAssumption == {RedirectLimit, MaxBody} \subseteq Nat

Attempts == 1..MaxAttempts
Kinds == {"http", "ai", "notification"}

VARIABLES
  kind,    \* the connector of the step
  attempt, \* the attempt that runs, or ran last
  step,    \* how the step stands in that attempt
  calls    \* the calls by attempt

vars == <<kind, attempt, step, calls>>

Failure(code, category, retryable) ==
  [code |-> code, category |-> category, retryable |-> retryable]

---------------------------------------------------------------------------
(***************************************************************************)
(* How the connectors name what goes wrong.                                *)
(***************************************************************************)

NetworkError == Failure("HTTP_CONNECTOR_NETWORK_ERROR", "network", TRUE)

\* readHttpConnectorStepConfig, readAiStructuredObjectSchema and
\* readNotificationStepConfig: the configuration is not a valid one.
HttpConfigInvalid == Failure("HTTP_CONNECTOR_CONFIG_INVALID", "validation", FALSE)
AiConfigInvalid == Failure("AI_PROVIDER_CONFIG_INVALID", "validation", FALSE)
NotificationConfigInvalid == Failure("NOTIFICATION_CONFIG_INVALID", "validation", FALSE)

\* resolveAllowedAddresses: no address, or one that is not public.
AddressFaults ==
  {Failure("HTTP_CONNECTOR_URL_BLOCKED", "validation", FALSE),
   Failure("HTTP_CONNECTOR_DNS_RESOLUTION_FAILED", "network", TRUE)}

\* assertUrlAllowed; what has no code of the connector's own, as a location that is no
\* URL, counts as a network error (classifyConnectorError).
UrlFaults == AddressFaults \cup {NetworkError}

\* replaceSecrets
SecretUnresolved == Failure("HTTP_CONNECTOR_SECRET_UNRESOLVED", "validation", FALSE)

\* buildRequestBody
BodyTooLarge == Failure("HTTP_CONNECTOR_REQUEST_TOO_LARGE", "validation", FALSE)

\* applyAuthentication: a credential that cannot be read or decrypted is an error without
\* a code of the connector's own.
CredentialFaults ==
  {Failure("HTTP_CONNECTOR_AUTHENTICATION_INVALID", "authentication", FALSE), NetworkError}

\* resolveWebhook: neither the step nor the configuration names one.
WebhookMissing == Failure("NOTIFICATION_WEBHOOK_MISSING", "validation", FALSE)
\* Its credential cannot be decrypted, or the database fails, whose code is kept.
WebhookFaults ==
  {Failure("NOTIFICATION_DELIVERY_FAILED", "unknown", FALSE), Failure("P1001", "unknown", FALSE)}
WebhookInvalid == Failure("NOTIFICATION_WEBHOOK_INVALID", "validation", FALSE)

\* Before anything is sent.
HttpPrepareFaults == {HttpConfigInvalid, SecretUnresolved, BodyTooLarge} \cup CredentialFaults
AiPrepareFaults ==
  {AiConfigInvalid, Failure("AI_PROVIDER_UNSUPPORTED", "configuration", FALSE),
   Failure("AI_PROVIDER_API_KEY_MISSING", "configuration", FALSE)}
NotificationPrepareFaults ==
  {NotificationConfigInvalid, WebhookMissing, WebhookInvalid,
   Failure("NOTIFICATION_PAYLOAD_TOO_LARGE", "validation", FALSE)} \cup WebhookFaults
PrepareFaults ==
  [http |-> HttpPrepareFaults, ai |-> AiPrepareFaults,
   notification |-> NotificationPrepareFaults]

\* readProxyConfig: a proxy variable that is no URL, or of another protocol.
ProxyInvalid == {Failure("HTTP_CONNECTOR_PROXY_INVALID", "validation", FALSE)}

\* createHttpProxyTunnel
TunnelFaults ==
  {Failure("HTTP_CONNECTOR_PROXY_INVALID", "network", TRUE),
   Failure("HTTP_CONNECTOR_PROXY_REJECTED", "network", TRUE),
   Failure("HTTP_CONNECTOR_PROXY_REJECTED", "network", FALSE)}

\* The connection: for HTTP to each address in turn, or through a proxy and its tunnel.
HttpConnectFaults == UrlFaults \cup ProxyInvalid \cup TunnelFaults
AiConnectFaults ==
  {Failure("AI_PROVIDER_NETWORK_ERROR", "network", TRUE),
   Failure("AI_PROVIDER_REQUEST_FAILED", "unknown", FALSE)}
ConnectFaults ==
  [http |-> HttpConnectFaults, ai |-> AiConnectFaults,
   notification |-> {Failure("NOTIFICATION_DELIVERY_FAILED", "network", TRUE)}]

\* The connection is reset, or ends before the body does.
Broken ==
  [http |-> NetworkError,
   ai |-> Failure("AI_PROVIDER_NETWORK_ERROR", "network", TRUE),
   notification |-> Failure("NOTIFICATION_DELIVERY_FAILED", "network", TRUE)]

TimedOut ==
  [http |-> Failure("HTTP_CONNECTOR_TIMEOUT", "timeout", TRUE),
   ai |-> Failure("AI_PROVIDER_TIMEOUT", "timeout", TRUE),
   notification |-> Failure("NOTIFICATION_DELIVERY_FAILED", "timeout", TRUE)]

TooLarge ==
  [http |-> Failure("HTTP_CONNECTOR_RESPONSE_TOO_LARGE", "validation", FALSE),
   ai |-> Failure("AI_PROVIDER_REQUEST_FAILED", "unknown", FALSE)]

\* A body that cannot be parsed or mapped, found before the status is looked at.
HttpUnreadable ==
  {Failure("HTTP_CONNECTOR_RESPONSE_INVALID_JSON", "validation", FALSE),
   Failure("HTTP_CONNECTOR_RESPONSE_MAPPING_FAILED", "validation", FALSE)}
AiUnreadable == {Failure("AI_PROVIDER_RESPONSE_INVALID", "validation", FALSE)}
Unreadable == [http |-> HttpUnreadable, ai |-> AiUnreadable, notification |-> {}]

\* Statuses that are to be retried, and all others that are no success.
HttpRefused ==
  [retry |-> {Failure("HTTP_CONNECTOR_RETRYABLE_STATUS", "remote", TRUE)},
   other |-> {Failure("HTTP_CONNECTOR_STATUS_NOT_ACCEPTED", "validation", FALSE)}]
AiRefused ==
  [retry |-> {Failure("AI_PROVIDER_RATE_LIMITED", "rate_limit", TRUE),
              Failure("AI_PROVIDER_TEMPORARY_FAILURE", "remote", TRUE),
              Failure("AI_PROVIDER_TEMPORARY_FAILURE", "timeout", TRUE)},
   other |-> {Failure("AI_PROVIDER_AUTHENTICATION_FAILED", "authentication", FALSE),
              Failure("AI_PROVIDER_AUTHORIZATION_FAILED", "authorization", FALSE),
              Failure("AI_PROVIDER_HTTP_404", "validation", FALSE)}]
NotificationRefused ==
  [retry |-> {Failure("NOTIFICATION_DELIVERY_FAILED", "remote", TRUE)},
   other |-> {Failure("NOTIFICATION_DELIVERY_REJECTED", "validation", FALSE)}]
Refused == [http |-> HttpRefused, ai |-> AiRefused, notification |-> NotificationRefused]

---------------------------------------------------------------------------
(***************************************************************************)
(* How the engine and the retry rules judge it.                            *)
(***************************************************************************)

\* RETRYABLE_EXECUTION_ERROR_CODES and NON_RETRYABLE_EXECUTION_ERROR_CODES.
RetryableCodes ==
  {"EXECUTION_STEP_TIMEOUT", "HTTP_CONNECTOR_TIMEOUT", "HTTP_CONNECTOR_NETWORK_ERROR",
   "HTTP_CONNECTOR_RETRYABLE_STATUS", "AI_PROVIDER_TIMEOUT", "AI_PROVIDER_RATE_LIMITED",
   "AI_PROVIDER_TEMPORARY_FAILURE", "AI_PROVIDER_NETWORK_ERROR",
   "NOTIFICATION_DELIVERY_FAILED"}
NonRetryableCodes ==
  {"HTTP_CONNECTOR_AUTHENTICATION_INVALID", "HTTP_CONNECTOR_CONFIG_INVALID",
   "HTTP_CONNECTOR_REDIRECT_LIMIT_EXCEEDED", "HTTP_CONNECTOR_RESPONSE_TOO_LARGE",
   "HTTP_CONNECTOR_STATUS_NOT_ACCEPTED", "HTTP_CONNECTOR_URL_BLOCKED",
   "AI_PROVIDER_API_KEY_MISSING", "AI_PROVIDER_AUTHENTICATION_FAILED",
   "AI_PROVIDER_AUTHORIZATION_FAILED", "AI_PROVIDER_CONFIG_INVALID",
   "AI_PROVIDER_REQUEST_FAILED", "AI_PROVIDER_RESPONSE_INVALID", "AI_PROVIDER_UNSUPPORTED",
   "NOTIFICATION_CONFIG_INVALID", "NOTIFICATION_DELIVERY_REJECTED",
   "NOTIFICATION_PAYLOAD_TOO_LARGE", "NOTIFICATION_WEBHOOK_INVALID",
   "NOTIFICATION_WEBHOOK_MISSING"}

\* Seeded regression: every other category becomes a validation error.
CategoryUnlessKept(f) ==
  IF f.category \in {"authentication", "authorization", "rate_limit"}
    THEN f.category ELSE "validation"
\* mapConnectorErrorCategory, mapAiProviderErrorCategory.
MappedCategory(f) ==
  IF f.category \in {"authentication", "authorization", "rate_limit"} THEN f.category
  ELSE IF f.retryable THEN "business_rule" ELSE "validation"

\* classifyExecutionRetryError of the error the engine makes of a failure.
Verdict(f) ==
  IsRetryableExecutionError(
    [code |-> IF f.code \in RetryableCodes THEN "retryable"
              ELSE IF f.code \in NonRetryableCodes THEN "non_retryable" ELSE "unlisted",
     category |-> IF MappedCategory(f) \in {"authentication", "authorization", "validation"}
                    THEN "non_retryable" ELSE "retryable"])

---------------------------------------------------------------------------

RedirectLimitExceeded == Failure("HTTP_CONNECTOR_REDIRECT_LIMIT_EXCEEDED", "validation", FALSE)

Failures ==
  (UNION {PrepareFaults[k] \cup ConnectFaults[k] \cup Unreadable[k] \cup Refused[k].retry
            \cup Refused[k].other \cup {Broken[k], TimedOut[k]} : k \in Kinds})
    \cup UrlFaults \cup {TooLarge.http, TooLarge.ai, RedirectLimitExceeded}

NoFailure == Failure("none", "none", FALSE)
Call ==
  [phase : {"none", "check", "prepare", "connect", "body", "truncated", "settled",
            "returned"},
   redirects : 0..RedirectLimit,
   body : 0..MaxBody,
   status : {"none", "ok", "redirect", "retry", "other"},
   failure : Failures \cup {NoFailure}]

\* Every variable keeps its type.
TypeOK ==
  /\ kind \in Kinds
  /\ attempt \in 0..MaxAttempts
  /\ step \in [state : {"waiting", "racing", "timed_out", "failed", "succeeded"},
               failure : Failures \cup {NoFailure}]
  /\ calls \in [Attempts -> Call]

NoCall ==
  [phase |-> "none", redirects |-> 0, body |-> 0, status |-> "none", failure |-> NoFailure]
Racing == [state |-> "racing", failure |-> NoFailure]
Opening(k) == [NoCall EXCEPT !.phase = IF k = "http" THEN "check" ELSE "prepare"]

Init ==
  /\ kind \in Kinds
  /\ attempt = 0
  /\ step = [state |-> "waiting", failure |-> NoFailure]
  /\ calls = [a \in Attempts |-> NoCall]

Moves(a, c) == calls' = [calls EXCEPT ![a] = c] /\ UNCHANGED <<kind, attempt, step>>
Enters(a, phase) == Moves(a, [calls[a] EXCEPT !.phase = phase])
Fails(a, f) == Moves(a, [calls[a] EXCEPT !.phase = "settled", !.failure = f])

---------------------------------------------------------------------------
(***************************************************************************)
(* A call.                                                                 *)
(***************************************************************************)

\* The URL is allowed and its addresses are public; a redirect sends the same request.
CheckUrl(a) ==
  /\ calls[a].phase = "check"
  /\ \/ Enters(a, IF calls[a].redirects = 0 THEN "prepare" ELSE "connect")
     \/ \E f \in UrlFaults : Fails(a, f)

PrepareRequest(a) ==
  /\ calls[a].phase = "prepare"
  /\ Enters(a, "connect") \/ \E f \in PrepareFaults[kind] : Fails(a, f)

\* The head of a response arrives, or the connection fails.
Connect(a) ==
  /\ calls[a].phase = "connect"
  /\ \/ \E s \in {"ok", "retry", "other"} \cup IF kind = "http" THEN {"redirect"} ELSE {} :
          Moves(a, [calls[a] EXCEPT !.phase = "body", !.body = 0, !.status = s])
     \/ \E f \in ConnectFaults[kind] : Fails(a, f)

\* A notification's response is read whatever its size.
ReceiveChunk(a) ==
  /\ calls[a].phase = "body"
  /\ \/ /\ calls[a].body < MaxBody
        /\ Moves(a, [calls[a] EXCEPT !.body = @ + 1])
     \/ /\ calls[a].body = MaxBody /\ kind # "notification"
        /\ Fails(a, TooLarge[kind])

\* Seeded regression: a redirect is not counted.
NotCounted(n) == n
Counted(n) == n + 1

\* executeWithRedirects: a response that leads nowhere is taken as it is.
FollowRedirect(a) ==
  /\ calls[a].phase = "body" /\ calls[a].status = "redirect"
  /\ IF calls[a].redirects < RedirectLimit
       THEN Moves(a, [calls[a] EXCEPT !.phase = "check", !.redirects = Counted(@)])
       ELSE Fails(a, RedirectLimitExceeded)

\* The body is complete: it is parsed and mapped first, then the status decides.
ReadResponse(a) ==
  LET status == IF calls[a].status = "redirect" THEN "other" ELSE calls[a].status IN
  /\ calls[a].phase = "body"
  /\ \/ \E f \in Unreadable[kind] : Fails(a, f)
     \/ status = "ok" /\ Enters(a, "settled")
     \/ status # "ok" /\ \E f \in Refused[kind][status] : Fails(a, f)

ConnectionBreaks(a) ==
  /\ calls[a].phase = "body"
  /\ Fails(a, Broken[kind])

\* The peer ends the connection within the body. performNodeRequestToUrl listens to the
\* end of a complete response and to errors of the request, and this is neither: the
\* promise is settled by nothing any more, not by the timer.
PeerCloses(a) ==
  /\ calls[a].phase = "body"
  /\ IF kind = "http" THEN Enters(a, "truncated") ELSE Fails(a, Broken[kind])

\* The connector's own limit: of one request, or of its silence.
ConnectorTimesOut(a) ==
  /\ calls[a].phase \in {"connect", "body"}
  /\ Fails(a, TimedOut[kind])

CallStep(a) ==
  CheckUrl(a) \/ PrepareRequest(a) \/ Connect(a) \/ ReceiveChunk(a) \/ FollowRedirect(a)
    \/ ReadResponse(a) \/ ConnectionBreaks(a) \/ PeerCloses(a) \/ ConnectorTimesOut(a)

---------------------------------------------------------------------------
(***************************************************************************)
(* The step around it.                                                     *)
(***************************************************************************)

\* The result counts if the race still runs.
CallReturns(a) ==
  /\ calls[a].phase = "settled"
  /\ calls' = [calls EXCEPT ![a] = [NoCall EXCEPT !.phase = "returned"]]
  /\ step' = IF a # attempt \/ step # Racing THEN step
             ELSE [state |-> IF calls[a].failure = NoFailure THEN "succeeded" ELSE "failed",
                   failure |-> calls[a].failure]
  /\ UNCHANGED <<kind, attempt>>

\* EXECUTION_STEP_TIMEOUT, which is retryable; the call goes on.
StepTimesOut ==
  /\ step = Racing
  /\ step' = [step EXCEPT !.state = "timed_out"]
  /\ UNCHANGED <<kind, attempt, calls>>

\* The first attempt, or one that the retry rules allow.
NextAttempt ==
  /\ attempt < MaxAttempts
  /\ \/ step.state \in {"waiting", "timed_out"}
     \/ step.state = "failed" /\ Verdict(step.failure)
  /\ attempt' = attempt + 1
  /\ step' = Racing
  /\ calls' = [calls EXCEPT ![attempt + 1] = Opening(kind)]
  /\ UNCHANGED kind

CallProgress == \E a \in Attempts : CallStep(a) \/ CallReturns(a)

Next == StepTimesOut \/ NextAttempt \/ CallProgress

\* A connection is never silent for ever: a timer watches it.
Fairness == WF_vars(CallProgress)

Spec == Init /\ [][Next]_vars /\ Fairness

---------------------------------------------------------------------------

\* What a connector says of a failure is what the engine's mapping and the retry rules
\* make of it, and a status that is to be retried is. The exceptions: a notification whose
\* credential cannot be decrypted shares its code with failed deliveries, and a body that
\* cannot be read hides the status it came with.
VerdictAgrees ==
  \A a \in Attempts :
    calls[a].phase = "settled" /\ calls[a].failure # NoFailure =>
      LET f == calls[a].failure IN
      /\ Verdict(f) = f.retryable \/ f = Failure("NOTIFICATION_DELIVERY_FAILED", "unknown", FALSE)
      /\ calls[a].status = "retry" =>
           Verdict(f) \/ f \in Unreadable[kind] \/ f \in {TooLarge.http, TooLarge.ai}

\* Every call ends, however it is redirected, slowed down or abandoned by its step: again and
\* again none is under way. The exception is an HTTP response that is cut off within its body.
CallSettles ==
  []<>(\A a \in Attempts : calls[a].phase \in {"none", "returned", "truncated"})
=============================================================================
