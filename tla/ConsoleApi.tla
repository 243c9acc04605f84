----------------------------- MODULE ConsoleApi -----------------------------
(***************************************************************************)
(* The console works with a workspace through the API: every operation of  *)
(* its pages is a few calls, made one after the other.  A call is refused  *)
(* when the session or the key it shows does not hold, and a refusal makes *)
(* the console take its session for expired.  Meanwhile the session may    *)
(* end, and somebody else may revoke keys or reset the workspace.          *)
(*                                                                         *)
(* Operations follow one another here; answers that cross are the subject  *)
(* of module Console.                                                      *)
(***************************************************************************)
EXTENDS ApiClient, FiniteSets

CONSTANTS
  Client,  \* the client's calls, ClientCalls of ApiClient
  Met,     \* the routes each of them meets, RoutesMet of ApiClient
  MaxKeys, \* bound: keys ever created
  None

Keys == 1..MaxKeys

ConsoleApiAssumption == MaxKeys \in Nat /\ None \notin Keys \cup STRING

VARIABLES
  signedIn,  \* the console holds a session
  holds,     \* the API honours it
  inDemo,    \* its workspace is a demo
  live,      \* the workspace's keys that are not revoked
  made,      \* how many keys were created
  listed,    \* the keys the console shows as active
  workflow,  \* the workflow it has selected: "none", "there" or "gone"
  latest,    \* latestApiKeyToken
  key,       \* the key the operation under way works with
  todo,      \* the calls it has still to make
  lacking,   \* what the console read in the last answer and was not there
  misled,    \* the last call met no route, or was refused for its body
  disturbed, \* history: somebody else revoked a key or reset the workspace
  revoked,   \* history: the console revoked a key
  dismissed  \* history: the call that ended a session the API honoured

vars == <<signedIn, holds, inDemo, live, made, listed, workflow, latest, key, todo, lacking,
          misled, disturbed, revoked, dismissed>>

---------------------------------------------------------------------------
(***************************************************************************)
(* The operations of the pages.  A safe call is made by safeValue: when it *)
(* fails, though not when it is refused, the operation goes on.            *)
(***************************************************************************)
Surely(calls) == [i \in DOMAIN calls |-> [call |-> calls[i], safe |-> FALSE]]
Safely(calls) == [i \in DOMAIN calls |-> [call |-> calls[i], safe |-> TRUE]]

KeyGuarded == {"automationContract", "executeAutomation"}
OnWorkflow ==
  {"getWorkflow", "updateDraftWorkflow", "publishWorkflow", "testWorkflow"}
    \cup KeyGuarded \cup DOMAIN SecretCalls

\* A load goes on with the secrets of the first workflow, once it is known.
Load ==
  Safely(<<"currentWorkspace", "listWorkspaces", "listWorkflows", "listExecutions",
           "listApiKeys", "usage", "audit">>)
SecretLists == Safely(<<"listSecrets", "listCredentials">>)
Runs == Safely(<<"listExecutions", "usage", "audit", "listExecutionSteps">>)

SignIns ==
  {Surely(calls) \o Load : calls \in {<<"login">>, <<"register", "login">>, <<"seedDemo", "login">>}}

\* prepareRunnableWorkflow: a draft is saved with an automation trigger and published.
Prepared == {<<>>, <<"updateDraftWorkflow", "publishWorkflow">>}
WithKey == IF latest = None THEN <<"createApiKey">> ELSE <<>>

RunWorkflowCheck ==
  {Surely(calls \o WithKey \o <<"executeAutomation", "listExecutions">>)
     \o Safely(<<"usage", "audit", "listExecutionSteps">>) : calls \in Prepared}
LoadAutomationContract ==
  {Surely(calls \o WithKey \o <<"automationContract", "listWorkflows">>) : calls \in Prepared}

WorkflowOperations ==
  RunWorkflowCheck \cup LoadAutomationContract
    \cup {Surely(<<"getWorkflow">>) \o SecretLists}
    \cup {Surely(<<save, "listWorkflows">>) :
            save \in {"updateDraftWorkflow", "createWorkflow", "publishWorkflow"}}
    \cup {Surely(<<"testWorkflow">>)}
    \cup {Surely(<<save, "listSecrets">>) : save \in {"saveSecret", "deleteSecret"}}
    \cup {Surely(<<save, "listCredentials">>) : save \in {"saveCredential", "deleteCredential"}}

Operations ==
  {Surely(<<"createWorkflow", "listWorkflows">>), Surely(<<"listExecutionSteps">>), Runs,
   Surely(<<"retryExecution">>) \o Runs, Surely(<<"createApiKey", "listApiKeys">>),
   Surely(<<"updateWorkspaceName">>), Surely(<<"checkout">>), Surely(<<"portal">>),
   Surely(<<"resetDemo">>) \o Load, Safely(<<"logout">>)}
    \cup (IF listed = {} THEN {} ELSE {Surely(<<"revokeApiKey", "listApiKeys">>)})
    \cup (IF workflow = "none" THEN {} ELSE WorkflowOperations)

---------------------------------------------------------------------------
Init ==
  /\ signedIn = FALSE /\ holds = FALSE /\ inDemo = FALSE
  /\ live = {} /\ made = 0 /\ listed = {} /\ workflow = "none"
  /\ latest = None /\ key = None /\ todo = <<>>
  /\ lacking = {} /\ misled = FALSE
  /\ disturbed = FALSE /\ revoked = FALSE /\ dismissed = None

Begin ==
  /\ todo = <<>>
  /\ todo' \in IF signedIn THEN Operations ELSE SignIns
  /\ key' = latest
  /\ UNCHANGED <<signedIn, holds, inDemo, live, made, listed, workflow, latest, lacking, misled,
                 disturbed, revoked, dismissed>>

\* The page is reloaded: the session is read back, the latest key's token is gone.
Reload ==
  /\ signedIn /\ todo = <<>>
  /\ todo' = Load
  /\ latest' = None /\ key' = None /\ listed' = {} /\ workflow' = "none"
  /\ UNCHANGED <<signedIn, holds, inDemo, live, made, lacking, misled, disturbed, revoked,
                 dismissed>>

Asked == Head(todo).call
Call == Client[Asked]
Meets == Met[Asked]
TheRoute == CHOOSE r \in Meets : TRUE

\* The guards, each with the header it wants.
Admits(guard) ==
  CASE guard = "open" -> TRUE
    [] guard = "session" -> "session" \in Call.shows /\ holds
    [] guard = "key" -> "key" \in Call.shows /\ key \in live

\* The revocation of a key that the console shows as active.
Revokes(k) == Asked = "revokeApiKey" => k \in listed

\* What a use case refuses as not permitted: the reset of a workspace that is no demo, a
\* workflow that is not there, a key that is revoked already.
Denied(k) ==
  \/ Asked = "resetDemo" /\ ~inDemo
  \/ Asked \in OnWorkflow \ KeyGuarded /\ workflow = "gone"
  \/ Asked = "revokeApiKey" /\ k \notin live

\* The answer of the use case; registration and the demo may be disabled.
Verdicts(k) ==
  CASE Denied(k) -> {403}
    [] Asked \in KeyGuarded /\ workflow = "gone" -> {404}
    [] Asked \in {"register", "seedDemo"} -> {200, 403}
    [] Asked = "login" -> {200, 401}
    [] Asked = "createApiKey" /\ made = MaxKeys -> {}
    [] OTHER -> {200}

\* The statuses a call may be answered with, k being the key it is to revoke. Whatever gets
\* past the guard and the parser may fail for a reason of its own.
Statuses(k) ==
  LET met == Meets
      route == CHOOSE r \in met : TRUE
  IN IF met = {} THEN {404}
     ELSE IF ~Admits(route.guard) THEN {401}
     ELSE IF ~(route.needs \subseteq Call.body) THEN {400}
     ELSE Verdicts(k) \cup {409, 429, 503}

Judged(status) ==
  /\ misled' = (Cardinality(Meets) # 1 \/ status = 400)
  /\ lacking' = IF status = 200 THEN Call.reads \ TheRoute.answer ELSE {}

\* An operation that comes to its end keeps the key it worked with as the latest.
GoOn ==
  /\ todo' = IF Asked = "listWorkflows" /\ Head(todo).safe /\ workflow' # "none"
             THEN Tail(todo) \o SecretLists ELSE Tail(todo)
  /\ latest' = IF todo' = <<>> THEN key' ELSE latest

Leave ==
  /\ signedIn' = FALSE /\ todo' = <<>>
  /\ latest' = None /\ key' = None /\ listed' = {} /\ workflow' = "none"

SignedIn ==
  /\ Asked = "login" /\ 200 \in Statuses(None)
  /\ Judged(200)
  /\ signedIn' = TRUE /\ holds' = TRUE /\ inDemo' \in BOOLEAN
  /\ disturbed' = FALSE /\ revoked' = FALSE /\ dismissed' = None
  /\ UNCHANGED <<live, made, listed, workflow, key>>
  /\ GoOn

SignedOut ==
  /\ Asked = "logout" /\ \E status \in Statuses(None) : Judged(status)
  /\ holds' \in {holds, FALSE}
  /\ Leave
  /\ UNCHANGED <<inDemo, live, made, disturbed, revoked, dismissed>>

KeyCreated ==
  /\ Asked = "createApiKey" /\ 200 \in Statuses(None)
  /\ Judged(200)
  /\ made' = made + 1 /\ live' = live \cup {made'} /\ key' = made'
  /\ UNCHANGED <<signedIn, holds, inDemo, listed, workflow, disturbed, revoked, dismissed>>
  /\ GoOn

KeyRevoked(k) ==
  /\ Asked = "revokeApiKey" /\ Revokes(k) /\ 200 \in Statuses(k)
  /\ Judged(200)
  /\ live' = live \ {k} /\ revoked' = TRUE
  /\ UNCHANGED <<signedIn, holds, inDemo, made, listed, workflow, key, disturbed, dismissed>>
  /\ GoOn

\* Every other call: lists are taken over, and a reset replaces the workflows.
Answered ==
  /\ Asked \notin {"login", "logout", "createApiKey", "revokeApiKey"}
  /\ 200 \in Statuses(None)
  /\ Judged(200)
  /\ listed' = IF Asked = "listApiKeys" THEN live ELSE listed
  /\ CASE Asked = "listWorkflows" -> workflow' \in {"there", "none"}
       [] Asked = "resetDemo" /\ workflow = "there" -> workflow' = "gone"
       [] OTHER -> UNCHANGED workflow
  /\ UNCHANGED <<signedIn, holds, inDemo, live, made, key, disturbed, revoked, dismissed>>
  /\ GoOn

\* Seeded regression: a conflict is taken for a session that has expired.
AnyRefusal(status) == status \in {401, 403, 409}
IsAuthenticationError(status) == status \in {401, 403}

\* handleAuthenticationFailure: the console forgets its session, whatever was refused.
Refused(k) ==
  /\ Asked # "logout" /\ Revokes(k)
  /\ \E status \in Statuses(k) : IsAuthenticationError(status) /\ Judged(status)
  /\ dismissed' = IF signedIn /\ holds THEN Asked ELSE dismissed
  /\ Leave
  /\ UNCHANGED <<holds, inDemo, live, made, disturbed, revoked>>

\* A call fails: a safe one leaves an empty list, another ends the operation.
Failed(k) ==
  /\ Asked # "logout" /\ Revokes(k)
  /\ \E status \in Statuses(k) \ {200} : ~IsAuthenticationError(status) /\ Judged(status)
  /\ IF Head(todo).safe
     THEN /\ listed' = IF Asked = "listApiKeys" THEN {} ELSE listed
          /\ workflow' = IF Asked = "listWorkflows" THEN "none" ELSE workflow
          /\ UNCHANGED key
          /\ GoOn
     ELSE todo' = <<>> /\ key' = latest /\ UNCHANGED <<listed, workflow, latest>>
  /\ UNCHANGED <<signedIn, holds, inDemo, live, made, disturbed, revoked, dismissed>>

CallEnds ==
  /\ todo # <<>>
  /\ \/ SignedIn \/ SignedOut \/ KeyCreated \/ Answered
     \/ \E k \in Keys : KeyRevoked(k) \/ Refused(k) \/ Failed(k)

\* The access token expires, or the session is revoked.
SessionEnds ==
  /\ holds /\ holds' = FALSE
  /\ UNCHANGED <<signedIn, inDemo, live, made, listed, workflow, latest, key, todo, lacking,
                 misled, disturbed, revoked, dismissed>>

RevokedElsewhere(k) ==
  /\ k \in live /\ live' = live \ {k}
  /\ disturbed' = TRUE
  /\ UNCHANGED <<signedIn, holds, inDemo, made, listed, workflow, latest, key, todo, lacking,
                 misled, revoked, dismissed>>

ResetElsewhere ==
  /\ inDemo /\ workflow = "there" /\ workflow' = "gone"
  /\ disturbed' = TRUE
  /\ UNCHANGED <<signedIn, holds, inDemo, live, made, listed, latest, key, todo, lacking, misled,
                 revoked, dismissed>>

Next ==
  \/ Begin \/ Reload \/ CallEnds
  \/ SessionEnds \/ ResetElsewhere \/ \E k \in Keys : RevokedElsewhere(k)

Spec == Init /\ [][Next]_vars

---------------------------------------------------------------------------
\* Every call the console makes, at whatever point, is one the API has exactly one route for
\* and has the fields the API wants; and what the console reads is in the answer. The
\* exceptions: which workspace is a demo is known from the login alone, and three meters of
\* the usage page have names that the API never sends.
AnswersUnderstood ==
  /\ ~misled
  /\ lacking \subseteq
       {<<"workspace", "isDemo">>} \cup Of("limits", UnsentMeters) \cup Of("used", UnsentMeters)

\* As long as nobody else changes what it works with, the console gives a session up that the
\* API honours only for the reset of a workspace that is no demo, or after it revoked a key
\* itself: it goes on with the token of that key, and may revoke it twice.
SessionsEndForCause ==
  \/ dismissed = None \/ disturbed
  \/ dismissed = "resetDemo" /\ ~inDemo
  \/ dismissed \in KeyGuarded \cup {"revokeApiKey"} /\ revoked
=============================================================================
