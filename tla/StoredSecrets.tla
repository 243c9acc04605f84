--------------------------- MODULE StoredSecrets ---------------------------
(***************************************************************************)
(* The secrets and connector credentials of a workflow: stored encrypted   *)
(* for one workspace, workflow, name and, for a credential, type; deleted; *)
(* copied with the demo workspace; and decrypted by the runs.  A request   *)
(* reads and then writes in one READ COMMITTED transaction.  The demo's    *)
(* seed workspace and the copy of one session have one workflow each.      *)
(***************************************************************************)
EXTENDS Integers, Functions, FiniteSets

CONSTANTS
  Names,          \* keys of secrets, names of credentials
  CredentialTypes,
  Values,
  SecretRequests,
  MaxWorkflows,   \* bound: workflows there ever are
  None

StoredSecretsAssumption ==
  /\ MaxWorkflows \in Nat
  /\ None \notin CredentialTypes \cup Values
  /\ IsFiniteSet(SecretRequests)

Owners == {"seed", "copy"}
Tables == {"workflow_secrets", "connector_credentials"}

VARIABLES
  workflowOf, \* the workflow of each workspace, 0 if there is none
  workflows,  \* how many workflows there ever were
  rows,       \* by <<table, workspace, workflow, name>>: the type and the ciphertext
  request,    \* where each request stands
  stored      \* history: the value last stored in each row, None in one the demo copied

vars == <<workflowOf, workflows, rows, request, stored>>

NoRows == [k \in {} |-> None]
\* The rows of f, and those of g where f has none.
Over(f, g) == [k \in DOMAIN f \cup DOMAIN g |-> IF k \in DOMAIN f THEN f[k] ELSE g[k]]

Init ==
  /\ workflowOf = [o \in Owners |-> IF o = "seed" THEN 1 ELSE 0]
  /\ workflows = 1
  /\ rows = NoRows
  /\ request = [q \in SecretRequests |-> [op |-> "idle"]]
  /\ stored = NoRows

TypesIn(table) == IF table = "workflow_secrets" THEN {None} ELSE CredentialTypes

\* buildWorkflowSecretAssociatedData, buildConnectorCredentialAssociatedData
AssociatedData(k, type) == <<k, type>>
Encrypt(value, data) == [value |-> value, data |-> data]
\* A ciphertext opens only with the data it was made with.
Decrypt(cipher, data) == IF cipher.data = data THEN cipher.value ELSE None

Idle(q) == request' = [request EXCEPT ![q] = [op |-> "idle"]]

\* ensureWorkflowExistsForSecretAccess, and the encryption of the value.
BeginStore(q, o, table, name, type, value) ==
  LET k == <<table, o, workflowOf[o], name>> IN
  /\ request[q].op = "idle"
  /\ workflowOf[o] # 0 /\ type \in TypesIn(table)
  /\ request' = [request EXCEPT ![q] =
       [op |-> "store", row |-> k, type |-> type,
        cipher |-> Encrypt(value, AssociatedData(k, type))]]
  /\ UNCHANGED <<workflowOf, workflows, rows, stored>>

WorkflowGone(q) == request[q].row[3] # workflowOf[request[q].row[2]]

\* Seeded regression: an update leaves the type column as it is.
KeepType(k, type) == IF k \in DOMAIN rows THEN rows[k].type ELSE type
\* The update clause writes the type with the ciphertext.
WrittenType(k, type) == type

\* The upsert and the commit; the row's foreign key needs the workflow.
Store(q) ==
  LET k == request[q].row
      written == [type |-> WrittenType(k, request[q].type), cipher |-> request[q].cipher] IN
  /\ request[q].op = "store"
  /\ IF WorkflowGone(q) THEN UNCHANGED <<rows, stored>>
     ELSE /\ rows' = Over([key \in {k} |-> written], rows)
          /\ stored' = Over([key \in {k} |-> request[q].cipher.value], stored)
  /\ Idle(q)
  /\ UNCHANGED <<workflowOf, workflows>>

\* deleteByKey, deleteByName: the row is looked up before it is deleted.
BeginDelete(q, k) ==
  /\ request[q].op = "idle"
  /\ k \in DOMAIN rows
  /\ request' = [request EXCEPT ![q] = [op |-> "delete", row |-> k]]
  /\ UNCHANGED <<workflowOf, workflows, rows, stored>>

\* A row that is gone by now fails the request.
Delete(q) ==
  LET left == DOMAIN rows \ {request[q].row} IN
  /\ request[q].op = "delete"
  /\ rows' = Restrict(rows, left)
  /\ stored' = Restrict(stored, left)
  /\ Idle(q)
  /\ UNCHANGED <<workflowOf, workflows>>

RowsOutside(o) == {k \in DOMAIN rows : k[2] # o}

\* resetSeedWorkspace: the rows go, and the workflow with them; a new one takes its place.
ResetSeed ==
  /\ workflows < MaxWorkflows
  /\ workflows' = workflows + 1
  /\ workflowOf' = [workflowOf EXCEPT !["seed"] = workflows']
  /\ rows' = Restrict(rows, RowsOutside("seed"))
  /\ stored' = Restrict(stored, RowsOutside("seed"))
  /\ UNCHANGED request

\* copySeedStateToWorkspace: a new workflow, and the seed's rows under it, as they are.
CopiedTo(id) ==
  [k \in {<<c[1], "copy", id, c[4]>> :
            c \in {r \in DOMAIN rows : r[2] = "seed" /\ r[3] = workflowOf["seed"]}} |->
     rows[<<k[1], "seed", workflowOf["seed"], k[4]>>]]

\* A session's workspace is made, or reset: what it had goes and the seed's state comes.
CopySeed ==
  /\ workflows < MaxWorkflows
  /\ workflows' = workflows + 1
  /\ workflowOf' = [workflowOf EXCEPT !["copy"] = workflows']
  /\ rows' = Over(CopiedTo(workflows'), Restrict(rows, RowsOutside("copy")))
  /\ stored' = Over([k \in DOMAIN CopiedTo(workflows') |-> None],
                    Restrict(stored, RowsOutside("copy")))
  /\ UNCHANGED request

Next ==
  \/ \E q \in SecretRequests :
       \/ \E o \in Owners, table \in Tables, name \in Names,
             type \in CredentialTypes \cup {None}, value \in Values :
            BeginStore(q, o, table, name, type, value)
       \/ Store(q)
       \/ \E k \in DOMAIN rows : BeginDelete(q, k)
       \/ Delete(q)
  \/ ResetSeed
  \/ CopySeed

Spec == Init /\ [][Next]_vars

---------------------------------------------------------------------------
\* What a run reads: resolveWorkflowSecretReferences, resolveCredential. It decrypts with
\* the workspace and the workflow of the execution and the type in the row.
ReadBy(k) == Decrypt(rows[k].cipher, AssociatedData(k, rows[k].type))

\* Whatever requests and resets overlap, a run reads the value last stored under a name, with
\* the type it was stored with. The exception are the rows a session's workspace got with the
\* copy of the seed's: they are encrypted for the seed's workflow, and no run of the copy can
\* read them until they are stored again.
SecretsReadBack ==
  \A k \in DOMAIN rows : k[3] = workflowOf[k[2]] /\ ReadBy(k) = stored[k]
=============================================================================
