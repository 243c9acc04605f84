# Runlane: a verification development

TLA+ models of Runlane (`src/`), TLC configurations that check them on small
instances, and TLAPS proofs of the main results for every value of the constants.

Runlane accepts webhooks and automation calls over HTTP, turns each into an *execution*
of a published workflow, carries it to workers through a BullMQ queue, and runs its steps
(HTTP calls, AI decisions, notifications, conditions) with retries, dead letters, usage
metering and plan limits.  Around the executions stand accounts and sessions, API keys, demo workspaces, a rate
limit, encrypted secrets, billing, and a web console in which workflows are drawn
and runs are watched.

Paths below are relative to `src/packages/` unless they start with `apps/`,
`docs/` or `scripts/`.

## 1. The system

Two kinds of process, any number of each: the API (`apps/api`) and the worker
(`apps/worker`), and the console (`apps/web`) in any number of browsers, which knows
the API only through HTTP.  The processes share PostgreSQL (through Prisma, READ COMMITTED
interactive transactions with a 15 s limit) and Redis (BullMQ's queue, markers,
counters).  Nothing else is shared: most hazards are an interleaving of handlers
over those two stores, or a failure between a step in one and a step in the other;
the rest lie between two parts that have to agree and are written separately
(canvas and engine, connector and retry rules, client and API, settings and timers).

| component | state | operations | interacts with |
|---|---|---|---|
| execution lifecycle | `executions` rows: status, attempts | create, mark running / succeeded / retrying / failed / dead letter, manual retry | queue (delivery), engine (run), ingestion (create) |
| execution queue | BullMQ jobs: state, lock, attemptsMade, stalled count | add, remove by id, deliver, finish, stalled check | lifecycle, ingestion |
| workflow engine | visited set and step of a run; `execution_steps` rows; calls in flight; `usage_records` | start, begin step, settle, time out, mark, route; enforce, connect, record | lifecycle (a run is one attempt), plan limits, connectors |
| webhook ingestion | transaction locals; `webhook_requests`, `executions`, `usage_records`; Redis replay and idempotency markers | verify, enforce limits, reserve, look up, insert, commit, enqueue | lifecycle, queue, plan limits |
| automation bridge | as ingestion, without request rows or markers | enforce limit, insert, commit, enqueue | lifecycle, queue |
| plan limits and usage | `usage_records` aggregated per period | enforce, record | ingestion, engine, demo |
| workflow definitions | `workflows`: status, version, definition | create, update draft, publish, find published | ingestion and worker read them |
| billing | `billing_events` status, workspace plan and subscription | process a Stripe event, checkout, portal | plan limits read the plan |
| identity | `users`, `sessions`: refresh hash, revoked, expiry, workspace | register, log in, refresh, log out, admit a call | every authenticated request |
| API keys | `api_keys`: prefix, hash, revoked, last used | create, resolve, revoke | automation bridge, demo |
| demo workspaces | `demo_sessions`, copies of the seed workspace | log in, renew, clean up, seed, reset | identity, secrets, lists |
| rate limiting | Redis counters with a TTL | INCR, EXPIRE, TTL | every request |
| secrets and credentials | `workflow_secrets`, `connector_credentials`: cipher text, type | upsert, delete, copy, decrypt | connectors, demo |
| connectors (HTTP, AI, notification) | a call in flight: redirects, body, timer | call, redirect, read, time out | engine, retry rules |
| template resolver | the output so far | replace a token | engine, before each step |
| process runtime | handlers, open connections, deadline, exit code | start, signal, close, time out | every service |
| configuration | the environment | validate, read | heartbeat, replay markers, every limit |
| audit log and lists | `audit_logs`, `executions` | append, page | console |
| HTTP API and client | routes, bodies, answers, statuses | request, answer, refuse | console, every use case |
| console | session, lists, selection, draft, latest key | sign in, load, select, run, edit, page | HTTP API |

What is hard about each, and what makes it correct:

* **Lifecycle and queue.**  Redelivery after a crash or a lost lock, two retry
  counters kept by two systems, updates conditional on status but not on the
  attempt, a commit whose acknowledgement is lost, a manual retry racing the job
  that dead-lettered the execution.  Correct means: one processor per execution,
  only the current attempt settles, bounded attempts, final outcomes stay final,
  completed work is not repeated, and no execution is left without a carrier.
* **Engine.**  A timeout is a lost race and stops nothing; rows and usage ids must
  stay right when calls of earlier runs answer late.  Correct means: rows tell the
  current run, usage counts each call once, one call in flight per run, runs end.
* **Ingestion.**  Check-then-act under READ COMMITTED, markers that are not rolled
  back, an enqueue outside the transaction.  Correct means: one execution per key,
  consistent answers, bounded overshoot of limits, a job for what was accepted.
* **Definitions.**  Update and publish each read and then write without repeating
  what was read.  Correct means: a published version stays as it is, and trigger and
  definition agree.
* **Billing.**  Events lost by a crash after `received`, duplicated, reordered.
  Correct means: every event is applied once, to the workspace that pays.
* **Identity and demo.**  Refreshes and logouts with one token, limits that are
  counted before they are used up, a clean-up that deletes what others renew, a
  workspace that goes away under its sessions.  Correct means: a token is redeemed
  once and never after its logout, a call acts on its own workspace, limits hold up to
  stated slack.
* **API keys, rate limit, secrets.**  A revocation between two steps of resolving, a
  counter without a time to live, a value encrypted for columns that then change.
  Correct means: a revoked key admits nobody, nobody is locked out for good, a run
  reads what was stored.
* **Connectors and templates.**  Every way a response can end must settle the call,
  three judgements of a failure must agree, and text is replaced in text that already
  holds values.
* **Runtime and settings.**  Signals, faults, failing hooks and a deadline in any
  order; settings whose windows depend on each other.  Correct means: a service told
  to stop ends and says how; accepted settings work.
* **Console.**  Answers that cross, edits in any order, pages of a list that changes,
  refusals in the middle of an operation.  Correct means: what is shown belongs
  together, drafts stay acceptable, a list shows each row once, a session is given up
  for a cause.

`PROJECT.json` lists every component with its sources and status, and every
hazard with its line and the properties that guard it.

## 2. Modules

```
ExecutionRules            pure rules: statuses, transition table, error classes
   |    |   \
   |    |    ExecutionContract        abstract: what a row promises
   |    |         |  (INSTANCE)
   |  ExecutionLifecycle ---- MCExecutionLifecycle      (2 configurations)
   |       \
   |      AcceptedCalls ------ MCAcceptedCalls           (1)
   |       |   (INSTANCE WebhookIngestion)
   |       \---- ExecutionLifecycleProofs   (INSTANCE WebhookIngestionProofs)
   |
ConnectorCalls ---------------------------------\
                                                 \
StepEngine -------- MCStepEngine     (1)          |
   \---- StepEngineProofs                         |
WebhookIngestion -- MCWebhookIngestion (1)        |
   \---- WebhookIngestionProofs                   |
StripeSync -------- MCStripeSync     (1)          |
   \---- StripeSyncProofs                         |
Identity ---------- MCIdentity       (2)          |
   \---- IdentityProofs                           |
                                                  |
RateLimit   ApiKeys   WorkflowDefinitions         |
Templates   StoredSecrets   ServiceRuntime        |
Console     Listings                              |
DefinitionRules -- WorkflowBuilder                | INSTANCE
     \---- DemoWorkflows ---- DefinitionRuns      |
Configuration ---- ConfiguredWindows              |
ApiContract ------ ApiDocs                        |
     \---- ApiClient ---- ConsoleApi -------------+-- ControlPlane -- MCControlPlane
                                                        |---- ApiProofs
                                                        |---- RunProofs
                                                        \---- ConsoleProofs
```

A module named `MC...` gives the constants of its component small values for TLC
and nothing else.  Two of them put two components side by side, so that one run checks
both: `MCIntakeAndExecutions` has `WebhookIngestion` and `ExecutionLifecycle`, each with
larger bounds and more faults than `AcceptedCalls`, which joins the two, can give it, and
`MCUsageAndBilling` has `StepEngine` and `StripeSync`.  A behaviour is about one of the two, named by
`focus`, while the other stays as it began; hence the different names of their variables
and of what is defined over all of them (`engineVars`, `IngestionSpec`).  Definitions commented *Seeded regression* are not part of
a specification: each is one plausible bug, used in place of the definition that
follows it to confirm that a property notices.

### ExecutionRules, ExecutionContract, ExecutionLifecycle

`ExecutionLifecycle` follows an execution from the commit that creates it to the
end of its last attempt.  `status` and `attempts` are the row; `job[e]` is the
BullMQ job, whose id is a function of the execution's id; `slot[s]` is one of the
concurrent processors of all workers; `request[r]` is an API request between its
commit and its enqueue.  One database transaction is one action, one call to
Redis or to the engine another:

| code | action |
|---|---|
| `process-execution.use-case.ts:67-115` find, check, mark running | `FindExecution`, `MarkRunning` |
| `:117-144` workflow gone or unpublished | `WorkflowUnavailable` |
| `:146-149` the engine | `EngineSucceeds`, `EngineFails` |
| `:150-183`, `:237-425` the settling transactions | `SettleAttempt`, `UpdateMissed` |
| `:186-234` catch: retry, dead letter or fail | `SettleStep`, `AfterThrow` |
| `:427-452` alert | `SendFailureAlert` |
| `execution-worker.processor.ts:104-159` | `FinishJob` |
| `execution-queue.producer.ts:67-120` | `RemoveJob`, `AddJob` |
| `retry-execution.use-case.ts:48-148` | `RetryTransaction`, then the two above |
| `receive-public-webhook.use-case.ts:397-440` | `CreateExecution` |
| BullMQ (external) | `Fetch`, `LockExpires`, `CheckStalled`, `EvictFinishedJob` |
| faults | `CrashSlot`, `ReadFails`, `TransactionRollsBack`, `CommitUnacknowledged`, `EnqueueFails`, `LockExpires` of a live holder |

`StatusGuard` and `StatusWritten` are the WHERE clauses and data of the
repository's conditional updates.  The stale copy the code calls
`running.attempts` is `slot[s].attempt`.  `faults`, `manual`, `runs` and
`completions` are bookkeeping: they bound faults or record history for properties.

`ExecutionContract` is the abstract specification: accepted once, started at
most `MaxAttempts` times per acceptance or manual retry, dead-lettered only when
exhausted, retried by hand only from dead letter, `succeeded` and `failed` final.

### StepEngine

One execution's successive runs of `execution-engine.ts`.  `engine` is the loop,
`row` the step rows (one per step key, reused by later runs), `call[<<r, s>>]` the
promise of run `r`'s call of step `s`.  A call belongs to its run and not to the
loop: `StepTimesOut` moves the engine on and leaves the call where it is.  That
runs do not overlap is `SingleOwner` of `ExecutionLifecycle`; it enters here as
the guard of `StartRun`.  A run's number stands for `running.startedAt`, which
the usage id contains; `AttemptOf` counts attempts from one again after each
`MaxAttempts` runs, as after a manual retry.

### WebhookIngestion

Concurrent calls for the workflows of one workspace.  A call is a handler with a
program counter; its rows become visible at `Commit` (READ COMMITTED).  A request,
its execution and their usage are inserted in one transaction and are one element
of `committed`; because they are, the branch of `resolveOrCreateWebhookExecution`
that creates a missing execution cannot be reached.  Redis markers are set at once
and survive a rollback.  `overlaps` records which transactions were open together
with the one that set a marker; `ExpireKey` may fire only when they are over, which
is what a TTL of at least 300 s (`config/src/env.schema.ts`) against a transaction
limit of 15 s gives.  A replay marker is taken to outlive the validity of its
signature.  `MaxOpen` is the number of transactions that can be open at once, the
connection pools of the API processes.  Automation calls share the execution limit
and have neither key nor signature.

### AcceptedCalls

`ExecutionLifecycle` and `WebhookIngestion` at work together: the whole way from a call
of the endpoint to the end of the execution it is answered with.  An execution has the
name of the call that creates it, and that call is also the API request of
`ExecutionLifecycle` that adds its job; other requests are manual retries (`Retries`).
What both modules describe is one step of both:

| code | step | of `WebhookIngestion` | of `ExecutionLifecycle` |
|---|---|---|---|
| `receive-public-webhook.use-case.ts:219-305` | `Accept` | `Commit` | `CreateExecution` |
| `prisma-transaction-boundary.ts:44-56` | `AcceptUnacknowledged` | `AcknowledgementLost` | the row alone: nobody will add the job |
| `receive-public-webhook.use-case.ts:307-349` | `HandOver` | `Enqueue` | `AddJob` |
| the audit record after it fails | `HandOverUnrecorded` | `EnqueueUnrecorded` | `AddJob` |
| the addition fails | `HandOverFails` | `EnqueueRefused` | `EnqueueFails` |

The other steps of either leave the other's variables alone (`IngestionStep`,
`LifecycleStep`).  `KeyContract` is `ExecutionContract` once more, with the idempotency
keys of the workflows in the place of the executions: what is read of a key
(`KeyStatus`, `KeyAttempts`) is the row of the call that was committed with it.

### StripeSync

How a workspace's plan follows Stripe.  `checkout[k]` is a request of
`create-billing-checkout-session.use-case.ts`, `handler[h]` a delivery inside
`process-stripe-webhook.use-case.ts`; neither opens a transaction, so each call of
a repository or of Stripe is an action and `HandlerDies` and `CheckoutDies` may
stop a request between any two.  `workspace` and `billing` are the rows, `owner`
and `sessions` are what Stripe knows of its customers.  Stripe (external) delivers
any event of a customer that has been to a checkout page, again and in any order.
`EventData` keeps what the lookups and the update tell apart: customer,
subscription (`None` in a one-off invoice) and plan (`None` in every invoice).
`findFirst` on two columns that have no unique key is a choice among the
matching workspaces (`Resolve`).  `applied` and `retried` are history.  The find
and the unique key of `billing_events` are apart in the code and in the model
(`Deliver`, `CreateEvent`): of two first deliveries, one insert throws.

### Identity

Accounts, sessions and the demo's copies of its seed workspace.  A session row keeps
the refresh token it accepts as a number (`Tokens` are pairs of session and number;
the code stores a hash), its expiry and its workspace, which `SetNull` clears when
that workspace is deleted, as the foreign key does.  `RegisterUser`, `LoginUser`,
`LogoutSession` and `SeedDemoWorkspace` are one transaction each.  A refresh reads
(`FindRefreshedSession`) and later rotates by an update with conditions
(`RotateRefreshToken`); a demo login lists what is expired (`BeginDemoLogin`), deletes
it and looks for the browser's session and the address's count (`FindDemoSession`), and
commits a renewal or a new copy (`RenewDemoSession`, `CreateDemoSession`).  What a
request has read is in `request[r]` and may be stale when it writes; `TransactionFails`
rolls it back between the two.  `Admits` is the check every authenticated call goes
through.  `redeemed`, `loggedOut` and a session's `home` are history.

### ControlPlane and its components

Thirteen components that share no state but the rows each owns.  `ControlPlane`
instantiates them side by side; a behaviour is about one of them, named by `focus`,
so that one run checks all and their states add up instead of multiplying.

| module | what it models | state | actions |
|---|---|---|---|
| `RateLimit` | `redis.service.ts:67-83`, `redis-rate-limit.middleware.ts` | the counter, each request between its commands | `Incr`, `Expire`, `Decide`, `Crash`, `Tick` |
| `ApiKeys` | the API-key use cases and repository, `upsertDemoApiKey` | rows, the creation under way, requests that resolve a key | `BeginCreate`, `Insert`, `RevokeApiKey`, `FindApiKey`, `MarkLastUsed`, ... |
| `WorkflowDefinitions` | create, update and publish with their transactions | rows, requests between read and write | `BeginUpdate`, `Update`, `BeginPublish`, `Publish`, `Create`, `Abort` |
| `WorkflowBuilder` | `BuilderView.tsx`, the inspector of `canvas.tsx` | steps and entry of a draft that the console started, with those that go on from a published one | one per edit |
| `DefinitionRuns`, `DemoWorkflows` | routing of `execution-engine.ts` beside the lines of `canvas.tsx`; the demo's six definitions | the run's path | `RunStep`, `DetectCycle` |
| `Templates` | `safe-template-resolver.ts` | the text as replaced so far | one per replaced token or string |
| `StoredSecrets` | upsert, delete, copy and reset of secrets and credentials, AES-GCM with associated data | rows, requests | `Store`, `Delete`, `ResetSeed`, `CopySeed` |
| `ConnectorCalls` | the three connectors, the engine's race with the timeout, the retry rules | the calls of each attempt | `StepTimesOut`, `NextAttempt`, the steps of a call (`CallProgress`) |
| `ServiceRuntime` | `bootstrap-http-runtime.ts` and the hooks it closes | phase, handlers, open parts, deadline, exit code | `Create`, `Listen`, `Event`, `CloseHook`, `TimerFires`, ... |
| `Configuration`, `ConfiguredWindows` | `env.schema.ts`; heartbeat and replay marker under accepted settings | environment, age of the heartbeat, clock, marker | `Start`, `BeatWritten`, `BeatLost`, `TimePasses`, `Receive` |
| `Console` | state and effects of `App.tsx` around runs | list, selection, steps shown, calls under way | one per call, answer and failure |
| `Listings` | paging of executions and audit log, from `client.ts` down to the queries | rows, the walk's cursor and pages | `StartWalk`, `CheckCursor`, `FindCursor`, `Page`, `Insert`, `Reset` |
| `ApiContract`, `ApiDocs`, `ApiClient`, `ConsoleApi` | every route's body and answer, its OpenAPI schema, every call of the client, every operation of the console | session, keys, selection, calls still to make | `Begin`, `CallEnds`, `Reload`, `SessionEnds`, `RevokedElsewhere`, `ResetElsewhere` |

Some data of these components is kept as it is written because properties are about
it: the settings with ranges and defaults (`Configuration`), the demo's definitions
(`DemoWorkflows`), and the fields of bodies, answers and schemas (`Api...`).

## 3. Runs

| run | instance | shows |
|---|---|---|
| `intake_and_executions` | intake: 4 calls, 6 inputs, 2 workflows, 1 key, 2 payloads, limits 2, 2 open, 1 fault; executions: 1 execution, 2 slots, 2 requests, 3 attempts, 1 manual retry, each fault once (1.8 M states) | `OneExecutionPerKey`, `AnswersAgree`, `OvershootBounded`; `SingleOwner`, `CompletesOnce`, `NoStaleSettlement`, `ImplementsContract`; until the first fault or manual retry `TransferIsDurable` |
| `execution_crash` | 1 execution, 1 crash | violates `ExhaustedJobIsSettled` |
| `execution_manual_retry` | 1 execution, 1 manual retry, no fault | violates `NothingStranded` |
| `usage_and_billing` | usage: 3 steps, 2 branches, 3 workflows, 2 runs, 1 database fault, crashes; billing: 2 workspaces, 2 customers, 4 events, 2 handlers, 2 checkouts, 4 deliveries, 1 fault (450 k) | `RowsTellTheRun`, `UsageCountsEveryCall`, `RunEnds`; `PaidByOwnCustomer`, `ReappliedOnlyAfterFailure`, `ProcessedWasApplied`, `EveryEventSettles` |
| `step_failure_route` | 1 workflow | violates `FailureRouteFollowed` |
| `ingestion_resend` | 2 calls, 1 fault | violates `AcceptedExecutionIsEnqueued` |
| `accepted_calls` | 2 calls of 3 inputs (a key sent twice, an automation call), 1 slot, 1 manual retry, 2 attempts; 1 call failure, 1 failed hand-over (320 k) | `AcceptedCallsAreCarried`, `KeyIsOneExecution`, `AcceptedCallsSettle` |
| `stripe_lost_event` | 1 event, 2 deliveries, 1 fault | violates `AnsweredIsSettled` |
| `identity` | 1 member and the demo, 2 browsers, 1 address, 2 sessions, 2 requests, clock to 2 (0.99 M) | `RedeemedOnce`, `LoggedOutTokenIsDead`, `CallsKeepTheirWorkspace`, `DeletesOnlyExpiredCopies`, `DemoLoginsBounded` |
| `demo_fallback` | the demo, 2 browsers, 3 sessions, 1 request, clock to 1 | violates `VisitorsShareNothing` |
| `control_plane` | see below (0.74 M) | one or two properties of each component |
| `login_answer` | as `control_plane` | violates `UserAsDocumented` |

The properties of `control_plane`:

| component | property | says |
|---|---|---|
| rate limit | `WindowsHold` | a window admits no more than its limit, and ends when a refused client was told |
| | `NobodyLockedOut` | a window ends, unless its first request is lost between INCR and EXPIRE |
| API keys | `RevokedKeyRefused` | resolving ends in no key revoked, deleted or taken over meanwhile, and opens only a workspace the token was made for |
| definitions | `PublishedIsFrozen` | a published definition stays, unless an update had read it as a draft |
| | `TriggersAgree` | the column and the definition name the same trigger, whatever updates race |
| builder | `EditsStayAcceptable` | any sequence of edits leaves a draft the API accepts |
| canvas | `RunsFollowTheDrawing` | a run goes along the lines that are drawn; the demo's workflows end and read only what is there |
| templates | `ResolvedAsWritten` | the resolver's output is what the document means, token by token |
| secrets | `SecretsReadBack` | a run decrypts the value last stored |
| connectors | `VerdictAgrees` | connector, engine and retry rules judge a failure alike |
| | `CallSettles` | every call ends, unless its body is cut off |
| runtime | `ShutdownEnds` | a service told to stop ends, with the right exit code |
| settings | `AcceptedSettingsHold` | accepted settings keep a heartbeat alive over one loss, and the takings of a signature a marker's life apart |
| console | `StepsBelongToShownRun` | under a run its own steps are shown |
| lists | `ListedOnce` | a walk shows every row once, newest first |
| API | `AnswersUnderstood` | the client reads and sends what the API answers and takes, and every route but the login answers as documented |
| | `SessionsEndForCause` | the console gives up only sessions the API does not honour |

Where the code has an exception to one of these, the definition names it and its
comment says why; without the exception the run fails.  These are listed at the end of
this section.

**Why the bounds are enough.**  Ownership is contested by two processors, and
one stall or crash plus the redelivery it causes already puts two on one
execution; three attempts have a first, a middle and a last one, and one manual
retry resets them.  Executions meet only in the slots, hence two of them
and one slot in `accepted_calls`, the run about liveness.  In the engine two runs are what a straggler needs, with
`MaxAttempts = 1` so that the second is a manual retry whose attempt number
repeats; three steps have a branch, a cycle and an end of the list.  Ingestion
needs two calls to race, a third to resend and a fourth to take the last unit of
a limit.  In `accepted_calls` the second call comes before, between or after
the first one's commit and hand-over, and either may fail; what several slots and a
crash do to one execution is in `intake_and_executions`.  Stripe's events need two handlers to race, a duplicate, and a redelivery
after a failure; two checkouts make one customer each for two workspaces or two
for one; the events are a subscription of each customer, an invoice without a
subscription and one to ignore.  In `identity` two requests race over one session or
one browser's copy; two sessions tell a fresh token from a stale one; the clock's two
ticks expire an access token and a copy (after one) and a session (after two).  With
one address the limit of another is untouched, and one member is one account that is
not the demo's; `demo_fallback` has visitors only, with a third session for the login that cleans
up.  In `control_plane` two requests race wherever requests race, and one
more unit than a limit is asked for: two of `MaxRequests`, one workflow, one redirect,
one chunk of a body.  Three edits add, route and delete a step; a document of three
pieces has a token within text and a value that holds a token; `MCSources` has the
defaults, deployments and the edges of the ranges the checks compare, and `MaxTaken` is one
more than any of its windows lets a signature be taken; four rows and
three pages have a tie across a page, and a row inserted or reset during a walk; two
accounts and two calls make answers cross.  Each property was confirmed to fail under one seeded regression in the
same instance.  `SYMMETRY` permutes the calls of `intake_and_executions` and the
browsers and requests of `identity`, which no definition distinguishes, and is used in runs without liveness only.

**The disagreements with the documentation** (the runs that violate):

1. `execution_crash`: `docs/architecture.md:123` says exhausted failures move to
   dead letter.  After a worker dies in the middle of a run (or its row cannot be
   settled) every redelivery finds RUNNING, is refused, and the job is exhausted
   while the row stays RUNNING; manual retry accepts dead letters only.
2. `execution_manual_retry`: `docs/cases/webhook-queue-worker.md:56` promises a
   durable queue transfer.  A manual retry issued while the dead-lettering job is
   still sending its alert cannot replace that job; the execution stays QUEUED.
3. `step_failure_route`: the builder's "Failure target" is validated and stored,
   and the engine never follows it.
4. `ingestion_resend`: a resend after a failed enqueue is answered as accepted,
   and nothing ever adds the job.
5. `stripe_lost_event`: `docs/cases/stripe-webhook-sync.md:52` promises reliable,
   duplicate-safe billing events.  A handler that stops after inserting the event
   leaves it `received`; the redelivery is answered as a duplicate and the change
   of subscription is never applied.
6. `demo_fallback`: `docs/security.md:21,55` and `README.md:103` say that the visitors of
   the demo are isolated and share no mutable data.  When the clean-up deletes a visitor's
   copy, `sessions.workspace` becomes null (`schema.prisma:107`) and the next refresh takes
   the account's first workspace (`refresh-session.use-case.ts:64-69`): the shared seed, for
   sessions live up to 30 days and copies 12 hours.  Two visitors whose copies are gone work
   on one workspace.  `CallsKeepTheirWorkspace` says what holds: as long as its own workspace
   exists a call acts on that, and it never acts on another visitor's copy or another user's
   workspace.
7. `login_answer`: the schema of `POST /v1/auth/login` (`apps/api/src/modules/auth/auth.controller.ts:95-103,159-168`)
   gives the user an id, an email and a name.  The use case answers the record that it read
   to check the password (`login-user.use-case.ts:61,125`, `auth-response.ts:25`), and with it
   `passwordHash`.  No other route answers more of a user than its document has, and the
   rest of `AnswersUnderstood` is about every other route.

Two more were met and are not run, for each is one line to be read and not a behaviour.
`env.schema.ts` requires nine settings in a deployment, and the demo's password if there is a
demo, and gives the others the defaults of
a developer's machine: Stripe's return URLs point to `localhost:4610` (`:379-399`) and the
demo's API key is the public one (`:471-476`); and `STRIPE_API_KEY` and
`STRIPE_WEBHOOK_SECRET` may be empty, also in `docker-compose.deploy.yml:29,31`, though
`docs/deployment.md:56-66` lists them as required.  `docs/security.md:25` says that a replay
marker is kept "for a bounded window" without saying how long it must be; with the
defaults that is a moment too short (see *Settings* below).

`EveryEventSettles` names two exceptions, both real: disagreement 5 (`faults > 0`),
and `Contested`, two checkouts of one workspace that both create a customer: the
row keeps the last one stored, and events of the other resolve to no workspace
and end `failed`.  Without either exception the run fails.

**What the newer models found, stated in their properties as exceptions** or met while
writing them:

* *Demo sessions.*  The address limit is passed by concurrent logins and by renewals from
  elsewhere; a copy that is renewed after the clean-up listed it is deleted all the same.
* *Connectors.*  A response that the other side cuts off within its body reaches none of
  the listeners of `secure-http-connector.ts:1105-1186` (the response has no listener of
  its own for errors, and the request reports none once it has a response), and the
  promise stays unsettled; the engine's timeout still ends the step.  A body that cannot
  be read hides a retryable status.  A notification whose credential cannot be
  decrypted says it is not retryable under a code on the retryable list.
* *Definitions.*  An update that read a draft overwrites what was published meanwhile.
  The plan's number of workflows is checked before the insert's transaction.
* *Builder.*  A step appended under a key in use, and drafts above the API's 50 steps.
* *Templates.*  A value that has the text of a token matched after it is read again.
* *Secrets.*  The copies of a demo workspace's secrets are encrypted for the seed's
  workflow (the associated data names workspace and workflow): no run of the copy can
  read them.
* *Settings.*  The schema asks for a replay TTL of at least the tolerance; a signature is
  good for twice that, and the default, 600 s for 300 s either way, is a moment too short at
  the edge.  `TakingsSpaced` is no exception but the exact bound: with the defaults a
  signature may be taken twice, with the marker at its least up to three times.  Nothing
  reads the heartbeat's key.
* *Rate limit.*  A request lost between INCR and EXPIRE leaves a counter for ever.
* *Runtime.*  A failing hook clears the deadline, and the process may stay alive; an
  uncaught error during a signal's shutdown exits with 0.
* *Console.*  401 and 403 alike count as an expired session (`client.ts:33`): resetting
  a workspace that is no demo, a workflow deleted elsewhere, or revoking a key twice
  shows "Session expired".  An answer to one selection may overwrite the next until the
  following refresh; an old session's 401 signs out the one that followed; lists of
  another account may be shown.  A created key's token is lost when the operation fails
  later, and the key stays live.
* *Lists.*  Executions created in the same millisecond as the last one of a page are
  skipped; a walk ends after four pages of 100; a walk across a reset may fail or start
  again.
* *API.*  The usage page reads meters no plan sends; the workspace in the answers of the
  account routes tells `isDemo` and `demoSessionId`, which the schemas do not list and the console
  reads (`AsDocumented` excepts the two); `POST` of publish, test and retry are documented
  as 200 and answered with 201.

**Fairness.**  `AcceptedCalls` assumes weak fairness of each processor's and each
request's own steps (Node resumes them), of fetching a waiting job, of the stalled
check and of the expiry of a dead holder's lock (BullMQ's timers), and that a call
whose transaction has been committed goes on to the hand-over.  It assumes nothing of
clients, of a call before its commit, of faults, eviction or stalls.
`AcceptedCallsSettle` promises an end until a fault or a manual retry comes in
between: findings 1, 2 and 4 show why it cannot promise more (4 is `LeftBehind`).
A call that fails is no such fault, and its effects on the other one are survived.
`StepEngine` assumes weak fairness of the engine's steps, its timer included, and
nothing of calls: a connector may hang for ever, so `RunEnds` rests on the timeout
and on cycle detection alone.
`StripeSync` assumes weak fairness of a handler that was called, and nothing of
Stripe's retries, of checkouts or of faults.  `usage_and_billing` has the fairness of both and
no more: as a component begins, no fair step of it is enabled, so that the one without the focus
is asked for nothing.
`ControlPlane` assumes that time passes and a command that was sent is carried out
(`RateLimit`), that a connection's timer watches it until the response begins and
then its body (`ConnectorCalls`), and that timers fire, code after an await goes on
and a process with nothing left to wait for ends (`ServiceRuntime`); nothing of a
closing hook, which may hang, nor of any client.

**Deadlock** checking is off because every instance ends: executions settle, runs,
calls, deliveries and checkouts are bounded, a clock stops at its bound and a process
ends.

## 4. Proofs

All by TLAPS with Z3, Zenon and LS4, for arbitrary constants under the named
assumptions (`MaxAttemptsAssumption`, `LifecycleAssumption`, `EngineAssumption`,
`IngestionAssumption`, `SyncAssumption`, `IdentityAssumption`, and
`ControlPlaneAssumption`, which conjoins its components').  Most of what they say is
that bounds are naturals, that the sets of actors are finite where they are counted,
and that `None` is not a row, a number or an id.  What they say beyond that:

* workflows are valid, a signature covers its payload, a subscription belongs to one
  customer;
* `RateWindow <= DemoTtl`: the window in which the demo workspaces of an address are
  counted is an hour, and `DEMO_SESSION_TTL_HOURS` is at least one;
* no user is both a member of a team and the owner of a visitor's copy, and the demo
  user's id names no workspace;
* the engine takes at least the six steps of the longest workflow that the demo is
  seeded with (the limit is 25), and a branch is not named like one of the fixed
  routes, whose names the schema keeps apart;
* `onSuccess` is one of the routes, and the two step types whose templates the builder
  offers are step types.

TLC evaluates them in the passing runs.

A theorem about a component of `ControlPlane` is one about `ControlPlane`'s own
specification: `Only(c)` says that a step belongs to one component and leaves the
others' variables, so each inductive invariant speaks of one component's variables,
is preserved by that component's next-state relation, and by every other step because
nothing it mentions changes.

* **ExecutionLifecycleProofs.**  `SingleOwner` is not inductive: a processor that
  owns an execution must also hold the row's own attempt and run, and the row must
  be running, or succeeded without the processor knowing (`OwnershipInv`).  Then a
  second `MarkRunning` is impossible, since it needs `queued` or `retrying`, and
  nothing else sets those while an owner exists.  `AttemptBudgetInv` and `JobInv`
  bound the two counters; `CompletionInv` charges each repeated completion to a
  failed transaction.  `IInv` is their conjunction; from it follow the
  safety properties that are run of one execution, the refinement of `ExecutionContract` among
  them (`StepImplements`: every step is a step of the contract or leaves the row).
  Until the first fault, what joins the row and the queue of an execution that was not
  retried by hand is that it is new, waiting, at work, or over, with the job and the
  request that go with it, and that a waiting job has used as many attempts as the row
  (`OrderInv`).  `TransferIsDurable` follows (`UndisturbedTransfer`), and where
  the fault budgets and the manual retries are zero, so do `NothingStranded` and
  `RetryBudgetsAgree` by themselves (`CleanRunsStrandNothing`, `CleanRunsCountOneBudget`);
  `execution_manual_retry` shows what a manual retry breaks.

  The last part is about `AcceptedCalls`.  What `WebhookIngestionProofs` shows is cited
  through an instance, and `SameStory` joins the two invariants: a row exists exactly for
  the committed calls, and a call's request is at work exactly between commit and
  hand-over.  From it and `OneExecutionPerKey` a key has at most one row behind it
  (`KeysRead`), the inputs of committed calls never change (`CommittedStay`), and so every
  step of an execution is the same step of its key and of no other (`KeyMoves`,
  `KeyStep`): `KeysAreExecutions`.  `CarriedInv` adds `InOrder` for every execution whose
  creator was not left behind, whatever becomes of the other calls; `AcceptedMovesOn`
  follows.
* **StepEngineProofs.**  `EngineInv` adds to the properties what they need to be
  inductive: a call in flight belongs to a run that has begun, and to the engine's
  own run only if it is the call of the step the engine stands at, never between
  two steps (`CallsInv`); the row of that step is the run's (`StepRowInv`); without a
  failed database call no other row is running (`RunningRowInv`); rows of passed
  steps have succeeded in this run (`PassedRowsInv`); a step is marked succeeded on
  an answer it has (`SettledInv`).  `UsageIsExact` adds that `usage` is the image of
  `recorded` under `UsageSourceId`, which is injective because a run's start time is.
  The last part is what `RunEnds` rests on: `Fuel` counts the steps of the engine a run
  has left, four for each step of the workflow it has not visited; every change of the
  engine lowers it and only `StartRun` refills it (`StepsOfARunAreCounted`), and a run
  that awaits a step awaits a call the timer can overtake, or one that has settled
  (`AwaitedCallsAnswerOrTimeOut`).  That the engine is then enabled and runs is left to
  TLC and to fairness.
* **WebhookIngestionProofs.**  `IngestionInv` says that a key has one marker at a
  time and that whatever is open together with the transaction that set it is in
  `overlaps` (`MarkerInv`); that a keyed call about to commit holds its key's marker,
  and that a call about to reserve a key whose row was committed meanwhile still
  overlaps the row's marker, so that its reservation must fail (`ExclusionInv`).
  This is where the marker's TTL is needed.  `LimitsOvershootLittle` counts the
  calls *admitted*, committed or past the check: an admission needs the committed
  ones below the limit, and at most `MaxOpen` are open.
* **StripeSyncProofs.**  `SyncInv` conjoins three parts with the properties.
  `OwnershipInv`: the customer in a workspace's row was created for that workspace,
  events of its subscription come from a customer created for it, and a checkout or a
  handler that holds a workspace holds the right one; this is why either lookup leads
  to the right workspace although ids are overwritten.  `HandlerInv`: an ignored event
  reaches no lookup, a handler past its insert has a row, one that settles has
  applied.  `ApplicationInv` charges applications: those made plus the handlers
  *taking* the event never exceed one for the insert, which one delivery
  wins, and one per delivery that found it failed.
* **IdentityProofs.**  `IdentityInv`: a session's token only grows, and a token that
  was redeemed, or presented at a logout, is older than the session's or its session
  is revoked (`TokenInv`); an access token and a request name the workspace the session
  was opened for, or the seed once a visitor's copy is gone (`SessionInv`, `AccessInv`);
  a clean-up that has picked a copy finds its time over, or it was renewed since
  (`RequestInv`, with the history field `touched`).  `BoundInv` counts the copies an
  address opened within the window, those only that had counted every copy committed
  before them (`counted`), for nothing serializes the logins of one address; since a copy
  is kept for at least the window, one that counts is not deleted while it counts.
* **ApiProofs.**  `LimiterInv` counts the requests that *will* be admitted with those
  that were, and charges both to what INCR returned (`CountInv`); only the
  request that opened a window is about to set its time to live, and an answer
  that tells when to retry tells no time before the window's end (`WindowInv`).
  `KeysInv`: whatever a request found was handed out, under that id, for that
  workspace, whatever has become of the row since.  `DefinitionsInv`: the
  trigger column is the definition's in every row and in every write that is under
  way, and an update of a published row overlapped its publication.  `SecretsInv`: a row
  is of the workflow its workspace has now, and a request that is to store a cipher
  text made it with the row's own associated data.  `WindowsInv`: from the first
  time a signature is taken to the end of the marker it has now there are as many of the
  marker's lives, or more, as it was taken times (`MarkerInv`), and a heartbeat is as old as
  those missed since, for every source of settings the schema accepts.
* **RunProofs.**  `ConnectorInv`: a call has a failure only if it has settled, the
  failure is one of its connector's, and of each of these the retry rules and the
  connector agree what is to be retried, the undecipherable credential excepted
  (`Agrees`).  `ProcessInv` gives the safety half of `ShutdownEnds`: a process that
  says it ended well has closed whatever it opened (`SuccessMeansClosed`).
  `DrawingInv`: for any well-formed definition, whatever was run is a
  sequence of steps of it, each joined to the one before by a line of the canvas, and
  a run that ended without a cycle ended where no line goes on (`PathInv`,
  `CurrentInv`); `OnTheWay` adds, for each workflow the demo is seeded with, that a run
  comes along one of its ways and so ends without a cycle and within the limit.
  `ResolverInv`: the strings before the one at hand are resolved, those after it
  untouched, and the one at hand is what it was with the tokens matched so far replaced
  (`Partly`).  Its step says that one more search and replace over the whole text touches
  no value already in it (`PartlyNext`), which rests on what `ReplaceText` does to texts
  that are put together (`ReplaceConcat`, `ReplaceFlatten`).  These hold for texts of every
  length; since the library's induction theorems cannot be used, each says of the *set*
  of lengths it holds for that it has 0 and, with a length, the next (`NatByStep`, from
  the well-foundedness of < on the naturals).
* **ConsoleProofs.**  `StepsInv`: the steps held are the selected run's, or they came
  after another was selected.  `ListingInv`: the cursor is the last row shown, no
  row shown comes after it, and no row that is still to be shown comes before it,
  unless two rows have the same time (`CursorInv`, `LeftInv`).  `BuilderInv`: a
  draft is coherent (`Coherent`: keys differ, the entry and every route lead to steps)
  as long as no edit took a key that was in use.  `SessionInv`: the session, the keys shown
  and the selection are the API's unless a step elsewhere disturbed them, and what is
  still to be called takes nothing from that.  Its step needs what each route's guards
  say of each call of the client: `PathsTellGuards`, `CallsShow` and
  `GuardsAreServed`, proved over all routes and calls of the two tables.
  `AnswersAlwaysUnderstood` goes on from it: no request can meet two routes
  (`RoutesAreDisjoint`), each of the client's calls has a route that wants no more than
  it sends and answers what it reads (`CallsMeetOneRoute`), each route but the login is as its
  OpenAPI document says (`RoutesAsDocumented`), and so no answer ever misleads
  (`UnderstoodInv`).

The type invariants are proved and not run.  So is `StepsRunSequentially`, that a run
of a workflow has one call in flight (`OneCallPerRun`).  `TransitionsFollowRules`, that
every status change is in the domain's table, is proved and is implied by
`ImplementsContract`, which is run.

Only model-checked: liveness, which is out of this prover's reach:
`AcceptedCallsSettle`, `RunEnds`, `EveryEventSettles`, `NobodyLockedOut`, `CallSettles`,
and of `ShutdownEnds` that a process which was told to end does.

## 5. Abstractions and what is left out

Time (backoff delays, periods; TTLs are small numbers), payloads, outputs beyond the
branch they select, the text of audit rows, logging and response bodies beyond their
fields are abstracted away.  The demo's hourly execution limit has the form of the plan
limit and is not modelled.  In `StepEngine` a configuration or template that cannot be
resolved is one nondeterministic failure; `Templates` says when it happens.  Billing
status and period are shown and decide nothing; an event's created time is read and
compared with nothing.  `cancelled` is in the transition table and written by no code,
so no action writes it.  Cryptography is its contract: a hash equals another of the same
input, a cipher text opens with the associated data it was made with.

`ControlPlane`'s components are checked side by side and not together: the code gives
them no state in common.  `ConsoleApi` makes one operation at a time (crossing answers
are `Console`'s subject) and leaves the errors of background refreshes out, which the
code leaves unhandled.  `Listings` takes the walk of one console; `Identity` one
address in its run.  The resets of a demo workspace under queued executions are
not modelled: the worker finds no row and the job fails, which `ExecutionLifecycle`
has as a failed read.

Not modelled at all: rendering, layout, dragging, themes and icons of the console, the
health probes (reads only), logging, metrics, Swagger's set-up beyond the schemas,
build and deployment scripts, tests.

`PROJECT.json` gives the reason for each component not modelled.

## 6. Plan

What was planned is built.  What would come next:

1. `StepEngine` inside `AcceptedCalls`: that runs of one execution do not overlap is
   proved of `ExecutionLifecycle` (`SingleOwner`) and is a guard of `StartRun`; composed,
   the guard could go.
2. Subscription events that carry their time of creation: the code compares it with
   nothing (`process-stripe-webhook.use-case.ts:116`), and no document of the repository
   says what order it should keep.
