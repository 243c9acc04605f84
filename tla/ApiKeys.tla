------------------------------ MODULE ApiKeys ------------------------------
(***************************************************************************)
(* API keys: created and revoked by a workspace's owners, resolved to a    *)
(* workspace by the guard in front of the automation routes.  Resolving    *)
(* reads the key, verifies its hash and marks it as used, and no           *)
(* transaction holds the steps together.  A token is its prefix with a     *)
(* secret.  The demo's key is configured: a refresh of the demo writes it  *)
(* whatever its row holds.                                                 *)
(***************************************************************************)
EXTENDS Integers, FiniteSets

CONSTANTS
  Workspaces,
  Prefixes,
  Secrets,
  DemoWorkspace,
  DemoPrefix,
  Requests,    \* requests that present a key
  MaxAttempts, \* MAX_API_KEY_GENERATION_ATTEMPTS, 5
  MaxIds,      \* bound: rows ever inserted
  None

Tokens == Prefixes \X Secrets
Ids == 1..MaxIds

VARIABLES
  keys,      \* api_keys rows by id
  creation,  \* the key an owner is creating
  request,   \* where each request with a key stands
  granted,   \* history: the workspace each token was handed out for, by id of its row
  inserted   \* rows ever inserted

vars == <<keys, creation, request, granted, inserted>>

Idle == [pc |-> "idle"]
Row == [workspace : Workspaces, prefix : Prefixes, secret : Secrets, revoked : BOOLEAN]

ApiKeysAssumption ==
  /\ DemoWorkspace \in Workspaces /\ DemoPrefix \in Prefixes
  /\ MaxAttempts \in Nat \ {0} /\ MaxIds \in Nat
  /\ None \notin Row

\* Every variable keeps its type.
TypeOK ==
  /\ keys \in [Ids -> Row \cup {None}]
  /\ creation \in [attempt : 0..MaxAttempts, workspace : Workspaces]
  /\ request \in [Requests ->
       {Idle} \cup [pc : {"find"}, token : Tokens]
         \cup [pc : {"mark", "resolved"}, token : Tokens, id : Ids, workspace : Workspaces]]
  /\ granted \in [Ids -> SUBSET (Tokens \X Workspaces)]
  /\ inserted \in 0..MaxIds

Init ==
  /\ keys = [i \in Ids |-> None]
  /\ creation = [attempt |-> 0, workspace |-> DemoWorkspace]
  /\ request = [r \in Requests |-> Idle]
  /\ granted = [i \in Ids |-> {}]
  /\ inserted = 0

RowsWith(p) == {i \in Ids : keys[i] # None /\ keys[i].prefix = p}

Write(i, w, p, c) ==
  /\ keys' = [keys EXCEPT
       ![i] = [workspace |-> w, prefix |-> p, secret |-> c, revoked |-> FALSE]]
  /\ granted' = [granted EXCEPT ![i] = @ \cup {<<<<p, c>>, w>>}]

---------------------------------------------------------------------------

BeginCreate(w) ==
  /\ creation.attempt = 0
  /\ creation' = [attempt |-> 1, workspace |-> w]
  /\ UNCHANGED <<keys, request, granted, inserted>>

\* The prefix is unique: the row is inserted, or another token is generated, or the
\* last attempt fails.
Insert(p, c) ==
  /\ creation.attempt > 0
  /\ IF RowsWith(p) = {}
       THEN /\ inserted < MaxIds
            /\ inserted' = inserted + 1
            /\ Write(inserted + 1, creation.workspace, p, c)
            /\ creation' = [creation EXCEPT !.attempt = 0]
       ELSE /\ creation' = [creation EXCEPT !.attempt = IF @ < MaxAttempts THEN @ + 1 ELSE 0]
            /\ UNCHANGED <<keys, granted, inserted>>
  /\ UNCHANGED request

RevokeApiKey(i) ==
  /\ keys[i] # None /\ ~keys[i].revoked
  /\ keys' = [keys EXCEPT ![i].revoked = TRUE]
  /\ UNCHANGED <<creation, request, granted, inserted>>

\* A workspace's keys go with it.
DeleteWorkspace(w) ==
  /\ w # DemoWorkspace
  /\ \E i \in Ids : keys[i] # None /\ keys[i].workspace = w
  /\ keys' = [i \in Ids |-> IF keys[i] # None /\ keys[i].workspace = w THEN None ELSE keys[i]]
  /\ UNCHANGED <<creation, request, granted, inserted>>

\* upsertDemoApiKey: the row with the configured prefix is taken over and is valid again.
UpsertDemoApiKey(c) ==
  /\ IF RowsWith(DemoPrefix) = {}
       THEN /\ inserted < MaxIds
            /\ inserted' = inserted + 1
            /\ Write(inserted + 1, DemoWorkspace, DemoPrefix, c)
       ELSE /\ \E i \in RowsWith(DemoPrefix) : Write(i, DemoWorkspace, DemoPrefix, c)
            /\ UNCHANGED inserted
  /\ UNCHANGED <<creation, request>>

---------------------------------------------------------------------------

PresentKey(r, t) ==
  /\ request[r] = Idle
  /\ request' = [request EXCEPT ![r] = [pc |-> "find", token |-> t]]
  /\ UNCHANGED <<keys, creation, granted, inserted>>

Matches(i, t) ==
  /\ keys[i] # None /\ ~keys[i].revoked
  /\ keys[i].prefix = t[1] /\ keys[i].secret = t[2]

\* findValidCredentialsByPrefix and the comparison of the hash.
FindApiKey(r) ==
  /\ request[r].pc = "find"
  /\ LET t == request[r].token  found == {i \in Ids : Matches(i, t)} IN
     IF found = {}
       THEN request' = [request EXCEPT ![r] = Idle]
       ELSE \E i \in found :
              request' = [request EXCEPT
                ![r] = [pc |-> "mark", token |-> t, id |-> i, workspace |-> keys[i].workspace]]
  /\ UNCHANGED <<keys, creation, granted, inserted>>

\* Seeded regression: the update does not ask for a valid key.
MarkableIfRevoked(q) == keys[q.id] # None /\ keys[q.id].workspace = q.workspace
Markable(q) == keys[q.id] # None /\ ~keys[q.id].revoked /\ keys[q.id].workspace = q.workspace

\* markLastUsed: a key that was revoked, moved or deleted meanwhile resolves to nothing.
MarkLastUsed(r) ==
  /\ request[r].pc = "mark"
  /\ request' = [request EXCEPT
       ![r] = IF Markable(request[r]) THEN [request[r] EXCEPT !.pc = "resolved"] ELSE Idle]
  /\ UNCHANGED <<keys, creation, granted, inserted>>

RequestEnds(r) ==
  /\ request[r].pc = "resolved"
  /\ request' = [request EXCEPT ![r] = Idle]
  /\ UNCHANGED <<keys, creation, granted, inserted>>

Next ==
  \/ \E w \in Workspaces : BeginCreate(w) \/ DeleteWorkspace(w)
  \/ \E p \in Prefixes, c \in Secrets : Insert(p, c)
  \/ \E i \in Ids : RevokeApiKey(i)
  \/ \E c \in Secrets : UpsertDemoApiKey(c)
  \/ \E r \in Requests :
       \/ \E t \in Tokens : PresentKey(r, t)
       \/ FindApiKey(r) \/ MarkLastUsed(r) \/ RequestEnds(r)

Spec == Init /\ [][Next]_vars

---------------------------------------------------------------------------

\* A key that is revoked, or gone with its workspace, admits no request from then on,
\* not even one that had found it valid before; and a token opens only a workspace it was
\* handed out for, also while refreshes of the demo rewrite rows under the requests that
\* present their keys (resolve-api-key, markLastUsed).
RevokedKeyRefused ==
  [][\A r \in Requests :
       request[r].pc = "mark" /\ request'[r].pc = "resolved" =>
         /\ keys[request[r].id] # None
         /\ ~keys[request[r].id].revoked
         /\ <<request[r].token, request[r].workspace>> \in granted[request[r].id]]_vars
=============================================================================
