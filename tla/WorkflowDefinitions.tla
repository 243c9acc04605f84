------------------------ MODULE WorkflowDefinitions ------------------------
(***************************************************************************)
(* Workflow records: created as drafts within the plan's limit, updated    *)
(* while they are drafts, published once.  An update and a publish each    *)
(* read the record and then write it in one READ COMMITTED transaction,    *)
(* and the write repeats none of the conditions that were read.  Of a      *)
(* definition, its trigger type and a body are told apart; every           *)
(* definition here is one the API accepts.                                 *)
(***************************************************************************)
EXTENDS Integers, FiniteSets

CONSTANTS
  Ids,        \* workflows there may ever be
  Triggers,   \* trigger types
  Bodies,     \* the rest of a definition
  Requests,
  Limit,      \* the plan's number of workflows
  MaxVersion, \* bound: updates of one workflow
  None

VARIABLES
  workflow, \* workflows rows
  request,  \* where each request stands
  overlap   \* history: updates that had found a draft before it was published

vars == <<workflow, request, overlap>>

Definition == [trigger : Triggers, body : Bodies]
Row == [status : {"draft", "published"}, version : 1..MaxVersion, trigger : Triggers,
        definition : Definition]
Idle == [op |-> "idle"]
\* What is written: None is a column the update leaves alone.
Change == [trigger : Triggers \cup {None}, definition : Definition \cup {None}]

WorkflowDefinitionsAssumption ==
  /\ Limit \in Nat /\ MaxVersion \in Nat \ {0}
  /\ IsFiniteSet(Ids) /\ IsFiniteSet(Requests)
  /\ None \notin Triggers /\ None \notin Definition /\ None \notin Row

\* Every variable keeps its type.
TypeOK ==
  /\ workflow \in [Ids -> Row \cup {None}]
  /\ request \in [Requests ->
       {Idle} \cup [op : {"create"}, id : Ids, definition : Definition]
         \cup [op : {"update"}, id : Ids, change : Change]
         \cup [op : {"publish"}, id : Ids]]
  /\ overlap \subseteq Requests

Init ==
  /\ workflow = [w \in Ids |-> None]
  /\ request = [r \in Requests |-> Idle]
  /\ overlap = {}

Existing == {w \in Ids : workflow[w] # None}
Done(r) == request' = [request EXCEPT ![r] = Idle] /\ overlap' = overlap \ {r}

SlotLeft(n) == n < Limit

\* The workflows are counted before the transaction that inserts.
BeginCreate(r, w, d) ==
  /\ request[r] = Idle
  /\ workflow[w] = None
  /\ SlotLeft(Cardinality(Existing))
  /\ request' = [request EXCEPT ![r] = [op |-> "create", id |-> w, definition |-> d]]
  /\ UNCHANGED <<workflow, overlap>>

Create(r) ==
  LET q == request[r] IN
  /\ q.op = "create"
  /\ workflow[q.id] = None
  /\ workflow' = [workflow EXCEPT
       ![q.id] = [status |-> "draft", version |-> 1, trigger |-> q.definition.trigger,
                  definition |-> q.definition]]
  /\ Done(r)

\* Seeded regression: a new trigger type is written without the definition.
TriggerAlone(d, t) == [trigger |-> t, definition |-> None]
\* retargetWorkflowDefinitionTriggerType, of the definition that was read.
Retargeted(d, t) == [trigger |-> t, definition |-> [d EXCEPT !.trigger = t]]

\* buildWorkflowUpdateInput: the name alone, a definition, or a trigger type alone.
ChangesOf(w) ==
  {[trigger |-> None, definition |-> None]}
    \cup {[trigger |-> d.trigger, definition |-> d] : d \in Definition}
    \cup {Retargeted(workflow[w].definition, t) : t \in Triggers}

\* Seeded regression: published workflows are not refused.
AnyStatus(status) == TRUE
CanBeUpdated(status) == status = "draft"

BeginUpdate(r, w) ==
  /\ request[r] = Idle
  /\ w \in Existing
  /\ CanBeUpdated(workflow[w].status)
  /\ \E c \in ChangesOf(w) :
       request' = [request EXCEPT ![r] = [op |-> "update", id |-> w, change |-> c]]
  /\ UNCHANGED <<workflow, overlap>>

\* updateForWorkspace: by id, whatever the status is by now.
Update(r) ==
  LET q == request[r]
      row == workflow[q.id]
      new(column, old) == IF column = None THEN old ELSE column IN
  /\ q.op = "update"
  /\ row.version < MaxVersion
  /\ workflow' = [workflow EXCEPT
       ![q.id] = [status |-> row.status, version |-> row.version + 1,
                  trigger |-> new(q.change.trigger, row.trigger),
                  definition |-> new(q.change.definition, row.definition)]]
  /\ Done(r)

\* A workflow that is published already is answered as it is.
BeginPublish(r, w) ==
  /\ request[r] = Idle
  /\ w \in Existing
  /\ workflow[w].definition.trigger = workflow[w].trigger
  /\ workflow[w].status = "draft"
  /\ request' = [request EXCEPT ![r] = [op |-> "publish", id |-> w]]
  /\ UNCHANGED <<workflow, overlap>>

Publish(r) ==
  LET q == request[r] IN
  /\ q.op = "publish"
  /\ workflow' = [workflow EXCEPT ![q.id].status = "published"]
  /\ request' = [request EXCEPT ![r] = Idle]
  /\ overlap' = (overlap \cup {p \in Requests : request[p].op = "update" /\ request[p].id = q.id})
                  \ {r}

\* The transaction fails, or the process dies: nothing is written.
Abort(r) ==
  /\ request[r] # Idle
  /\ Done(r)
  /\ UNCHANGED workflow

Next ==
  \E r \in Requests :
    \/ \E w \in Ids :
         \/ \E d \in Definition : BeginCreate(r, w, d)
         \/ BeginUpdate(r, w)
         \/ BeginPublish(r, w)
    \/ Create(r) \/ Update(r) \/ Publish(r) \/ Abort(r)

Spec == Init /\ [][Next]_vars

---------------------------------------------------------------------------

\* The trigger a workflow is found by is the one its definition was written for, however
\* updates overlap: an update that changes one of the two columns writes both.
TriggersAgree ==
  \A w \in Existing : workflow[w].trigger = workflow[w].definition.trigger

\* A published workflow keeps its definition for ever, except for the writes of updates
\* that had found the draft before it was published (ensureWorkflowCanBeUpdated is not
\* repeated by updateForWorkspace).
PublishedIsFrozen ==
  [][\A w \in Existing :
       workflow[w].status = "published" /\ workflow'[w] # workflow[w]
         => \E r \in overlap : request[r].id = w /\ request'[r] = Idle]_vars
=============================================================================
