--------------------------- MODULE Configuration ---------------------------
(***************************************************************************)
(* validateEnvironment: what the services accept as their environment and  *)
(* what they read from it.  A source gives some of the variables a raw     *)
(* value, which is blank, malformed or the value it spells; the rest are   *)
(* unset.  A text (a URL, a secret, a name, a list) is malformed when its  *)
(* reader objects to it, whatever the reason; which ones are numbers,      *)
(* their ranges and which have no default in a deployment is as in the     *)
(* code.                                                                   *)
(***************************************************************************)
EXTENDS Integers

CONSTANT None

Blank == [form |-> "blank"]
Malformed == [form |-> "malformed"]
Given(v) == [form |-> "given", value |-> v]

\* LOCAL_DEFAULTS, of the numbers.
IntegerDefaults ==
  [API_PORT |-> 4600, WORKER_PORT |-> 4601, WORKER_CONCURRENCY |-> 4,
   WORKER_HEARTBEAT_INTERVAL_MS |-> 10000, WORKER_HEARTBEAT_TTL_SECONDS |-> 45,
   EXECUTION_RETRY_MAX_ATTEMPTS |-> 3, EXECUTION_RETRY_BASE_DELAY_MS |-> 500,
   EXECUTION_RETRY_MAX_DELAY_MS |-> 30000, HTTP_CONNECTOR_TIMEOUT_MS |-> 10000,
   HTTP_CONNECTOR_MAX_RESPONSE_BYTES |-> 1048576, HTTP_CONNECTOR_REDIRECT_LIMIT |-> 3,
   AI_TIMEOUT_MS |-> 30000, NOTIFICATION_CONNECTOR_TIMEOUT_MS |-> 10000,
   NOTIFICATION_CONNECTOR_MAX_PAYLOAD_BYTES |-> 32768, STRIPE_WEBHOOK_TOLERANCE_SECONDS |-> 300,
   STRIPE_REQUEST_TIMEOUT_MS |-> 10000, DEMO_SESSION_TTL_HOURS |-> 12,
   DEMO_MAX_SESSIONS_PER_IP_PER_HOUR |-> 20, DEMO_CLEANUP_INTERVAL_HOURS |-> 6,
   DEMO_EXECUTION_LIMIT_PER_HOUR |-> 20, DEMO_AI_CALL_LIMIT_PER_DAY |-> 5,
   ACCESS_TOKEN_TTL |-> 900, REFRESH_TOKEN_TTL |-> 2592000, RATE_LIMIT_TTL |-> 60,
   RATE_LIMIT_MAX |-> 25, MAX_PAYLOAD_SIZE |-> 1048576,
   WEBHOOK_SIGNATURE_TOLERANCE_SECONDS |-> 300, WEBHOOK_REPLAY_TTL_SECONDS |-> 600,
   WEBHOOK_IDEMPOTENCY_TTL_SECONDS |-> 86400, HEALTH_CHECK_TIMEOUT_MS |-> 3000,
   REDIS_CONNECT_TIMEOUT_MS |-> 5000, SHUTDOWN_TIMEOUT_MS |-> 15000]

\* The least and the greatest value of the numbers.
ServiceRanges ==
  [API_PORT |-> <<1, 65535>>, WORKER_PORT |-> <<1, 65535>>, WORKER_CONCURRENCY |-> <<1, 100>>,
   WORKER_HEARTBEAT_INTERVAL_MS |-> <<1000, 60000>>, WORKER_HEARTBEAT_TTL_SECONDS |-> <<5, 300>>,
   EXECUTION_RETRY_MAX_ATTEMPTS |-> <<1, 10>>, EXECUTION_RETRY_BASE_DELAY_MS |-> <<0, 60000>>,
   EXECUTION_RETRY_MAX_DELAY_MS |-> <<0, 300000>>, HTTP_CONNECTOR_TIMEOUT_MS |-> <<250, 30000>>,
   HTTP_CONNECTOR_MAX_RESPONSE_BYTES |-> <<1024, 5242880>>,
   HTTP_CONNECTOR_REDIRECT_LIMIT |-> <<0, 10>>, AI_TIMEOUT_MS |-> <<1000, 120000>>,
   NOTIFICATION_CONNECTOR_TIMEOUT_MS |-> <<250, 30000>>,
   NOTIFICATION_CONNECTOR_MAX_PAYLOAD_BYTES |-> <<1024, 262144>>]
AccountRanges ==
  [STRIPE_WEBHOOK_TOLERANCE_SECONDS |-> <<30, 3600>>, STRIPE_REQUEST_TIMEOUT_MS |-> <<250, 30000>>,
   DEMO_SESSION_TTL_HOURS |-> <<1, 168>>, DEMO_MAX_SESSIONS_PER_IP_PER_HOUR |-> <<1, 10000>>,
   DEMO_CLEANUP_INTERVAL_HOURS |-> <<1, 168>>]
LimitRanges ==
  [DEMO_EXECUTION_LIMIT_PER_HOUR |-> <<1, 10000>>, DEMO_AI_CALL_LIMIT_PER_DAY |-> <<0, 10000>>,
   ACCESS_TOKEN_TTL |-> <<60, 86400>>, REFRESH_TOKEN_TTL |-> <<300, 31536000>>,
   RATE_LIMIT_TTL |-> <<1, 3600>>, RATE_LIMIT_MAX |-> <<1, 10000>>,
   MAX_PAYLOAD_SIZE |-> <<1024, 10485760>>,
   WEBHOOK_SIGNATURE_TOLERANCE_SECONDS |-> <<30, 3600>>,
   WEBHOOK_REPLAY_TTL_SECONDS |-> <<60, 86400>>]
RuntimeRanges ==
  [WEBHOOK_IDEMPOTENCY_TTL_SECONDS |-> <<300, 604800>>, HEALTH_CHECK_TIMEOUT_MS |-> <<250, 30000>>,
   REDIS_CONNECT_TIMEOUT_MS |-> <<250, 60000>>, SHUTDOWN_TIMEOUT_MS |-> <<1000, 120000>>]
Ranges ==
  [n \in UNION {DOMAIN ServiceRanges, DOMAIN AccountRanges, DOMAIN LimitRanges,
                DOMAIN RuntimeRanges} |->
     CASE n \in DOMAIN ServiceRanges -> ServiceRanges[n]
       [] n \in DOMAIN AccountRanges -> AccountRanges[n]
       [] n \in DOMAIN LimitRanges -> LimitRanges[n]
       [] n \in DOMAIN RuntimeRanges -> RuntimeRanges[n]]
Numbers == DOMAIN Ranges
InRange(value, n) == value \in Ranges[n][1]..Ranges[n][2]

\* The switches; in a deployment they are off unless they are set.
Switches ==
  {"DEMO_MODE", "DEMO_SESSION_ENABLED", "PUBLIC_REGISTRATION_ENABLED", "API_DOCS_ENABLED"}

\* The texts that have no default in a deployment.
SetInDeploy ==
  {"API_URL", "APP_URL", "DATABASE_URL", "REDIS_URL", "JWT_ACCESS_SECRET",
   "JWT_REFRESH_SECRET", "CORS_ORIGIN", "ENCRYPTION_KEY", "WEBHOOK_SIGNING_SECRET"}

Form(source, n) == IF n \in DOMAIN source THEN source[n].form ELSE "unset"
Chosen(source, n) == Form(source, n) = "given"

\* RUNTIME_PROFILE
Deployed(source) == Chosen(source, "RUNTIME_PROFILE") /\ source["RUNTIME_PROFILE"].value = "deploy"

\* readInteger: the default unless a value in the range is given.
Setting(source, n) ==
  IF Chosen(source, n) /\ InRange(source[n].value, n) THEN source[n].value ELSE IntegerDefaults[n]

\* readBoolean
On(source, n) == IF Chosen(source, n) THEN source[n].value ELSE ~Deployed(source)

\* readUrl, readSecret, readCorsOrigins: the text, named by its variable where it is the
\* local default, or None.
Text(source, n) ==
  CASE Chosen(source, n) -> source[n].value
    [] Form(source, n) = "malformed" -> <<"malformed", n>>
    [] OTHER -> IF Deployed(source) /\ n \in SetInDeploy THEN None ELSE <<"default", n>>

\* The variables whose readers object.
ReaderErrors(source) ==
  {n \in DOMAIN source : \/ Form(source, n) = "malformed"
                         \/ Chosen(source, n) /\ n \in Numbers /\ ~InRange(source[n].value, n)}
    \cup {n \in SetInDeploy : Text(source, n) = None}

\* Seeded regression: the key is to outlive one interval only.
TtlOfOneInterval(ttl, interval) == ttl * 1000 >= interval
\* The heartbeat's key is to outlive two intervals.
TtlCovers(ttl, interval) == ttl * 1000 >= interval * 2

\* The conditions between variables, over the values as they were read.
CrossChecks(source) ==
  LET value(n) == Setting(source, n) IN
  /\ On(source, "DEMO_SESSION_ENABLED") => On(source, "DEMO_MODE")
  /\ On(source, "DEMO_MODE") /\ Deployed(source) =>
       Form(source, "DEMO_USER_PASSWORD") \notin {"unset", "blank"}
  /\ Text(source, "JWT_ACCESS_SECRET") # Text(source, "JWT_REFRESH_SECRET")
  /\ TtlCovers(value("WORKER_HEARTBEAT_TTL_SECONDS"), value("WORKER_HEARTBEAT_INTERVAL_MS"))
  /\ value("HTTP_CONNECTOR_MAX_RESPONSE_BYTES") <= value("MAX_PAYLOAD_SIZE") * 5
  /\ value("NOTIFICATION_CONNECTOR_MAX_PAYLOAD_BYTES") <= value("MAX_PAYLOAD_SIZE")
  /\ value("EXECUTION_RETRY_MAX_DELAY_MS") >= value("EXECUTION_RETRY_BASE_DELAY_MS")
  /\ value("WEBHOOK_REPLAY_TTL_SECONDS") >= value("WEBHOOK_SIGNATURE_TOLERANCE_SECONDS")

Accepted(source) == ReaderErrors(source) = {} /\ CrossChecks(source)
=============================================================================
