---------------------------- MODULE ControlPlane ----------------------------
(***************************************************************************)
(* The components around the executions, side by side: the rate limit, the *)
(* API keys, the workflow definitions, the builder they are drawn in and   *)
(* the canvas that shows how they run, the templates and the stored        *)
(* secrets of their steps, the connectors' calls, the life of a service's  *)
(* process and the windows its settings give it, the console, the lists it *)
(* pages through, and its dealings with the API.  In the code they share   *)
(* no state but the rows each of them owns, so a behaviour is about one of *)
(* them: focus says which, and the others stay as they were initially.     *)
(***************************************************************************)
EXTENDS ApiDocs, ApiClient

CONSTANTS
  None,
  ApiRequests, MaxCount, WindowTtl, MaxRequests,                           \* RateLimit
  Workspaces, Prefixes, Secrets, DemoWorkspace, DemoPrefix, KeyRequests,
  KeyAttempts, MaxIds,                                                     \* ApiKeys
  WorkflowIds, Triggers, Bodies, EditRequests, Limit, MaxVersion,          \* WorkflowDefinitions
  StepRoutes, StepLimit, Types, MaxSteps, MaxEdits,                        \* WorkflowBuilder
  Branch, EngineStepLimit,                                                 \* DefinitionRuns
  Fields, SecretToken, PlainText, Object, TokenLimit, MaxPieces,           \* Templates
  Names, CredentialTypes, SecretValues, SecretRequests, MaxWorkflows,      \* StoredSecrets
  JobAttempts, RedirectLimit, MaxBody,                                     \* ConnectorCalls
  Parts,                                                                   \* ServiceRuntime
  Sources, ClockTick, MaxMisses, MaxTaken,                                 \* ConfiguredWindows
  Accounts, Calls, MaxRuns,                                                \* Console
  RowIds, PageLimit, MaxPages, Skew, MaxClock,                             \* Listings
  MaxKeys                                                                  \* ConsoleApi

VARIABLES
  focus,
  counter, limited, admitted, orphaned,
  keys, creation, keyed, granted, inserted,
  workflow, edit, overlap,
  draft, entry, edits, keyTaken,
  definition, current, ran, branch, cycle,
  document, values, at, matched, output, refs, outcome,
  workflowOf, workflows, secretRows, storing, stored,
  kind, attempt, step, calls,
  phase, handlers, reason, open, deadline, exitCode, ended,
  source, status, age, misses, clock, marker, first, taken,
  runs, started, session, executions, selected, shownSteps, pending, crossed,
  list, listRows, listClock, unused, walk, cursor, place, pages, shown, lasts, since, wasReset,
  signedIn, holds, inDemo, live, made, listed, chosen, latest, key, todo, lacking, misled,
  disturbed, revoked, dismissed

limiter == <<counter, limited, admitted, orphaned>>
apiKeys == <<keys, creation, keyed, granted, inserted>>
definitions == <<workflow, edit, overlap>>
builder == <<draft, entry, edits, keyTaken>>
drawing == <<definition, current, ran, branch, cycle>>
templates == <<document, values, at, matched, output, refs, outcome>>
secrets == <<workflowOf, workflows, secretRows, storing, stored>>
connector == <<kind, attempt, step, calls>>
process == <<phase, handlers, reason, open, deadline, exitCode, ended>>
windows == <<source, status, age, misses, clock, marker, first, taken>>
console == <<runs, started, session, executions, selected, shownSteps, pending, crossed>>
listing ==
  <<list, listRows, listClock, unused, walk, cursor, place, pages, shown, lasts, since, wasReset>>
api ==
  <<signedIn, holds, inDemo, live, made, listed, chosen, latest, key, todo, lacking, misled,
    disturbed, revoked, dismissed>>
vars ==
  <<focus, limiter, apiKeys, definitions, builder, drawing, templates, secrets, connector,
    process, windows, console, listing, api>>

Limiter == INSTANCE RateLimit WITH Requests <- ApiRequests, request <- limited
KeyRing == INSTANCE ApiKeys WITH
  Requests <- KeyRequests, MaxAttempts <- KeyAttempts, request <- keyed
Definitions == INSTANCE WorkflowDefinitions WITH
  Ids <- WorkflowIds, Requests <- EditRequests, request <- edit
Builder == INSTANCE WorkflowBuilder WITH Routes <- StepRoutes, steps <- draft
Drawing == INSTANCE DefinitionRuns WITH StepLimit <- EngineStepLimit
Resolver == INSTANCE Templates WITH Text <- PlainText
SecretStore == INSTANCE StoredSecrets WITH
  Values <- SecretValues, rows <- secretRows, request <- storing
Connector == INSTANCE ConnectorCalls WITH MaxAttempts <- JobAttempts
Process == INSTANCE ServiceRuntime
Windows == INSTANCE ConfiguredWindows WITH Tick <- ClockTick
WebConsole == INSTANCE Console WITH steps <- shownSteps, call <- pending
Lists == INSTANCE Listings WITH rows <- listRows, clock <- listClock
Dealings == INSTANCE ConsoleApi WITH
  Client <- ClientCalls, Met <- RoutesMet, workflow <- chosen

\* What the components assume of their constants.
ASSUME ControlPlaneAssumption ==
  /\ Limiter!RateLimitAssumption /\ KeyRing!ApiKeysAssumption
  /\ Definitions!WorkflowDefinitionsAssumption /\ Builder!WorkflowBuilderAssumption
  /\ Drawing!DefinitionRunsAssumption
  /\ Resolver!TemplatesAssumption /\ SecretStore!StoredSecretsAssumption
  /\ JobAttempts \in Nat \ {0} /\ Connector!ConnectorCallsAssumption
  /\ Process!ServiceRuntimeAssumption /\ Windows!ConfiguredWindowsAssumption
  /\ WebConsole!ConsoleAssumption
  /\ Lists!ListingsAssumption /\ Dealings!ConsoleApiAssumption

\* A component that may begin in several ways begins in one while another has the focus.
Begins(component, S, value) == IF focus = component THEN S ELSE {value}
AnySource == CHOOSE s \in Sources : TRUE

Init ==
  /\ focus \in {"limiter", "keys", "definitions", "builder", "drawing", "templates", "secrets",
                "connector", "process", "windows", "console", "listing", "api"}
  /\ Limiter!Init /\ KeyRing!Init /\ Definitions!Init /\ Builder!Init
  /\ IF focus = "drawing" THEN Drawing!Init ELSE Drawing!StartsWith(Drawing!LeadRouting)
  /\ IF focus = "templates" THEN Resolver!Init
     ELSE Resolver!StartsWith(<<<<PlainText>>>>, [f \in Fields |-> None])
  /\ SecretStore!Init
  /\ kind \in Begins("connector", Connector!Kinds, "http") /\ Connector!Init
  /\ Process!Init
  /\ source \in Begins("windows", Sources, AnySource) /\ Windows!Init
  /\ WebConsole!Init
  /\ list \in Begins("listing", {"executions", "audit"}, "audit") /\ Lists!Init
  /\ Dealings!Init

\* The step is the component's, and changes nothing of the others.
Only(component) ==
  /\ focus = component /\ UNCHANGED focus
  /\ component # "limiter" => UNCHANGED limiter
  /\ component # "keys" => UNCHANGED apiKeys
  /\ component # "definitions" => UNCHANGED definitions
  /\ component # "builder" => UNCHANGED builder
  /\ component # "drawing" => UNCHANGED drawing
  /\ component # "templates" => UNCHANGED templates
  /\ component # "secrets" => UNCHANGED secrets
  /\ component # "connector" => UNCHANGED connector
  /\ component # "process" => UNCHANGED process
  /\ component # "windows" => UNCHANGED windows
  /\ component # "console" => UNCHANGED console
  /\ component # "listing" => UNCHANGED listing
  /\ component # "api" => UNCHANGED api

Next ==
  \/ Only("limiter") /\ Limiter!Next
  \/ Only("keys") /\ KeyRing!Next
  \/ Only("definitions") /\ Definitions!Next
  \/ Only("builder") /\ Builder!Next
  \/ Only("drawing") /\ Drawing!Next
  \/ Only("templates") /\ Resolver!Next
  \/ Only("secrets") /\ SecretStore!Next
  \/ Only("connector") /\ Connector!Next
  \/ Only("process") /\ Process!Next
  \/ Only("windows") /\ Windows!Next
  \/ Only("console") /\ WebConsole!Next
  \/ Only("listing") /\ Lists!Next
  \/ Only("api") /\ Dealings!Next

\* The fairness of the components that state any, where the behaviour is theirs.
Fairness ==
  /\ WF_vars(Only("limiter") /\ Limiter!Tick)
  /\ WF_vars(Only("limiter") /\ Limiter!SomeExpire)
  /\ WF_vars(Only("connector") /\ Connector!CallProgress)
  /\ WF_vars(Only("process") /\ Process!TimerFires)
  /\ WF_vars(Only("process") /\ Process!Closed)
  /\ WF_vars(Only("process") /\ Process!RunsDry)

Spec == Init /\ [][Next]_vars
FairSpec == Spec /\ Fairness

---------------------------------------------------------------------------
(***************************************************************************)
(* The components' properties; each is stated and commented where it is at *)
(* home.                                                                   *)
(***************************************************************************)

\* One window of the rate limit admits no more requests than it may, and ends when it said.
WindowsHold == focus = "limiter" => Limiter!WindowsHold

\* No client is locked out for ever, unless the window's first request was lost.
NobodyLockedOut == focus = "limiter" => Limiter!NobodyLockedOut

\* A revoked key admits no request, and a token opens no other workspace.
RevokedKeyRefused == KeyRing!RevokedKeyRefused

\* A published workflow keeps its definition, unless an update read it as a draft.
PublishedIsFrozen == Definitions!PublishedIsFrozen

\* The trigger and the definition of a workflow agree.
TriggersAgree == focus = "definitions" => Definitions!TriggersAgree

\* The builder's drafts are acceptable to the API.
EditsStayAcceptable == focus = "builder" => Builder!EditsStayAcceptable

\* A run goes from step to step along the lines the canvas draws.
RunsFollowTheDrawing == focus = "drawing" => Drawing!RunsFollowTheDrawing

\* A template is resolved to what it says, token by token.
ResolvedAsWritten == focus = "templates" => Resolver!ResolvedAsWritten

\* A run reads the secret last stored.
SecretsReadBack == focus = "secrets" => SecretStore!SecretsReadBack

\* The engine judges failures as the connectors do.
VerdictAgrees == focus = "connector" => Connector!VerdictAgrees

\* Every connector call ends.
CallSettles == focus = "connector" => Connector!CallSettles

\* A service that was told to stop ends, and says whether it went well.
ShutdownEnds == focus = "process" => Process!ShutdownEnds

\* The settings a service starts with keep its heartbeat long enough, and its replay markers
\* keep the takings of one signature apart.
AcceptedSettingsHold == focus = "windows" => Windows!AcceptedSettingsHold

\* Under a run the console shows that run's steps.
StepsBelongToShownRun == focus = "console" => WebConsole!StepsBelongToShownRun

\* A walk through a list shows every row once.
ListedOnce == focus = "listing" => Lists!ListedOnce

\* The console and the API understand each other, and the API answers as documented, but for
\* the login: see UserAsDocumented.
AnswersUnderstood == AnswersAsDocumented /\ (focus = "api" => Dealings!AnswersUnderstood)

\* Of a user, the route that a call of the console meets answers what its schema has:
\* userSchema has id, email and name. Not so the login, which answers the record its password
\* was checked against, with the hash.
UserAsDocumented ==
  focus = "api" /\ todo # <<>> => \A route \in Dealings!Meets : Untold(route) = {}

\* The console gives up no session without cause.
SessionsEndForCause == focus = "api" => Dealings!SessionsEndForCause
=============================================================================
