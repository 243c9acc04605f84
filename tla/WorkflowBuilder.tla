-------------------------- MODULE WorkflowBuilder --------------------------
(***************************************************************************)
(* The console's builder: edits of a draft in the browser, which the API   *)
(* checks when it is saved.  The builder is to offer only edits that end   *)
(* in a definition the API accepts.  A generated key is the step's type    *)
(* with a number.                                                          *)
(***************************************************************************)
EXTENDS DefinitionRules, FiniteSets

CONSTANTS
  Routes,   \* "onSuccess", "onFailure" and the names of branches
  Types,    \* types of steps
  MaxSteps, \* bound: steps of a draft
  MaxEdits  \* bound: edits

WorkflowBuilderAssumption ==
  /\ "onSuccess" \in Routes
  /\ {"condition", "notification"} \subseteq Types
  /\ {StepLimit, MaxSteps, MaxEdits} \subseteq Nat

Branches == Routes \ {"onSuccess", "onFailure"}
Numbers == 0..(2 * MaxSteps)
Keys == (Types \cup {"qualify_lead", "notify_team"}) \X Numbers
Step == [key : Keys, type : Types, routes : [Routes -> Keys \cup {None}]]

VARIABLES
  steps,    \* definition.steps
  entry,    \* definition.entryStepKey
  edits,    \* how many edits there were
  keyTaken  \* history: a step was appended under a key another step had

vars == <<steps, entry, edits, keyTaken>>

\* Every variable keeps its type.
TypeOK ==
  /\ steps \in Seq(Step) /\ Len(steps) <= MaxSteps
  /\ entry \in Keys
  /\ edits \in 0..MaxEdits
  /\ keyTaken \in BOOLEAN

NoRoutes == [x \in Routes |-> None]

\* defaultDefinition, which createWorkflow gives a new workflow. updateDraftWorkflow makes a new
\* draft of a published workflow with that workflow's edited definition: one that edits led to
\* from here, too, and edits go on from it. Workflows made without the console start elsewhere.
Init ==
  /\ entry = <<"qualify_lead", 0>>
  /\ steps = <<[key |-> entry, type |-> "condition",
                routes |-> [NoRoutes EXCEPT !["onSuccess"] = <<"notify_team", 0>>]],
               [key |-> <<"notify_team", 0>>, type |-> "notification", routes |-> NoRoutes]>>
  /\ edits = 0
  /\ keyTaken = FALSE

Edit == edits < MaxEdits /\ edits' = edits + 1

\* onUpdate: every step with the key is replaced.
Replaced(key, s) == [i \in DOMAIN steps |-> IF steps[i].key = key THEN s ELSE steps[i]]

NewStep(t, n) == [key |-> <<t, n>>, type |-> t, routes |-> NoRoutes]

\* The last step leads to the new one, whose key is numbered by the steps there are.
AppendStep(t) ==
  LET s == NewStep(t, Len(steps) + 1)
      last == steps[Len(steps)]
      linked == IF steps = <<>> THEN <<>>
                ELSE [i \in DOMAIN steps |->
                        IF steps[i].key = last.key
                        THEN [steps[i] EXCEPT !.routes["onSuccess"] = s.key] ELSE steps[i]] IN
  /\ Edit
  /\ Len(steps) < MaxSteps
  /\ steps' = Append(linked, s)
  /\ keyTaken' = (keyTaken \/ s.key \in KeysOf(steps))
  /\ UNCHANGED entry

\* Seeded regression: routes to the removed step are kept.
KeptRoutes(routes, key) == routes
\* sanitizeTransitions
SanitizedRoutes(routes, key) == [x \in Routes |-> IF routes[x] = key THEN None ELSE routes[x]]

\* The numbers of S, smallest first.
InOrder(S) == CHOOSE f \in [1..Cardinality(S) -> S] :
                \A i, j \in 1..Cardinality(S) : i < j => f[i] < f[j]

\* The steps that have another key, in their order.
Without(key) ==
  LET kept == InOrder({i \in DOMAIN steps : steps[i].key # key}) IN
  [i \in DOMAIN kept |-> steps[kept[i]]]

DeleteStep(key) ==
  /\ Edit
  /\ Len(steps) > 1
  /\ LET kept == Without(key)
         cleaned == [i \in DOMAIN kept |->
                       [kept[i] EXCEPT !.routes = SanitizedRoutes(kept[i].routes, key)]] IN
     /\ steps' = cleaned
     /\ entry' = IF entry = key /\ cleaned # <<>> THEN cleaned[1].key ELSE entry
  /\ UNCHANGED keyTaken

\* uniqueStepKey: the first free number above that of the steps there are.
DuplicateStep(i) ==
  LET free == {n \in (Len(steps) + 1)..(2 * MaxSteps) : <<steps[i].type, n>> \notin KeysOf(steps)} IN
  /\ Edit
  /\ Len(steps) < MaxSteps
  /\ \E n \in free :
       /\ \A k \in free : n <= k
       /\ steps' = Append(steps, NewStep(steps[i].type, n))
  /\ UNCHANGED <<entry, keyTaken>>

ChangeType(i, t) ==
  /\ Edit
  /\ steps' = Replaced(steps[i].key, [steps[i] EXCEPT !.type = t])
  /\ UNCHANGED <<entry, keyTaken>>

\* The targets offered are the other steps, or none.
SetTarget(i, x, target) ==
  /\ Edit
  /\ target \in (KeysOf(steps) \ {steps[i].key}) \cup {None}
  /\ steps' = Replaced(steps[i].key, [steps[i] EXCEPT !.routes[x] = target])
  /\ UNCHANGED <<entry, keyTaken>>

\* A branch that is renamed takes the place of the one that had the name.
RenameBranch(i, x, y) ==
  /\ Edit
  /\ x # y /\ steps[i].routes[x] # None
  /\ steps' = Replaced(steps[i].key,
       [steps[i] EXCEPT !.routes[y] = steps[i].routes[x], !.routes[x] = None])
  /\ UNCHANGED <<entry, keyTaken>>

Next ==
  \/ \E t \in Types : AppendStep(t)
  \/ \E key \in KeysOf(steps) : DeleteStep(key)
  \/ \E i \in DOMAIN steps :
       \/ DuplicateStep(i)
       \/ \E t \in Types : ChangeType(i, t)
       \/ \E x \in Routes, target \in KeysOf(steps) \cup {None} : SetTarget(i, x, target)
       \/ \E x, y \in Branches : RenameBranch(i, x, y)

Spec == Init /\ [][Next]_vars

---------------------------------------------------------------------------

\* Whatever the order of edits, the API accepts the draft that results: no route and no
\* entry leads to a step that is gone, and no key is used twice. Two things the builder
\* does not prevent: a step appended after a deletion may take a key that is in use, for
\* it is numbered by the steps that are left, and nothing stops at the API's step limit.
EditsStayAcceptable ==
  keyTaken \/ Len(steps) > StepLimit \/ Acceptable(steps, entry)
=============================================================================
