-------------------------- MODULE StripeSyncProofs --------------------------
(***************************************************************************)
(* Proofs about StripeSync, for any events in any order, any number of     *)
(* handlers and checkouts, and any number of faults.                       *)
(***************************************************************************)
EXTENDS StripeSync, FiniteSetTheorems, TLAPS

\* The ids in a workspace's row, and the workspace a handler or a checkout has in hand, are those
\* of customers created for that workspace.
OwnershipInv ==
  /\ \A w \in Workspaces : workspace[w].customer # None => owner[workspace[w].customer] = w
  /\ \A w \in Workspaces, e \in Events :
       workspace[w].subscription # None /\ EventData[e].subscription = workspace[w].subscription
         => Owned(e, w)
  /\ \A k \in Checkouts : checkout[k].pc = "store" =>
       owner[checkout[k].customer] = checkout[k].workspace
  /\ \A h \in Handlers : handler[h].pc \in {"apply", "settle"} =>
       Owned(handler[h].event, handler[h].workspace)

\* What a handler knows of its event where it stands.
HandlerInv ==
  \A h \in Handlers :
    /\ handler[h].pc \in {"by_subscription", "by_customer", "apply"} =>
         handler[h].event \notin Ignorable
    /\ handler[h].pc = "by_subscription" => Data(h).subscription # None
    /\ handler[h].pc \in Working \ {"create"} => billing[handler[h].event].status # "none"
    /\ handler[h].pc = "settle" => applied[handler[h].event] > 0

\* The handlers that may still apply an event.
Taking(e) ==
  {h \in Handlers : /\ handler[h].event = e
                    /\ handler[h].pc \in {"ignore", "by_subscription", "by_customer", "apply"}}

\* Each application, done or to come, is charged to the event's row or to a retry.
ApplicationInv ==
  \A e \in Events :
    applied[e] + Cardinality(Taking(e))
      <= (IF billing[e].status = "none" THEN 0 ELSE 1) + retried[e]

SyncInv ==
  /\ TypeOK /\ OwnershipInv /\ HandlerInv /\ PaidByOwnCustomer /\ ProcessedWasApplied

USE SyncAssumption

---------------------------------------------------------------------------
LEMMA DataFacts ==
  ASSUME NEW e \in Events
  PROVE  /\ EventData[e].customer \in Customers
         /\ EventData[e].subscription \in Subscriptions \cup {None}
         /\ EventData[e].plan \in Plans \cup {None}
BY DEF DataShape

LEMMA FirstStepFacts ==
  ASSUME NEW e \in Events
  PROVE  /\ FirstStep(e) \in {"ignore", "by_subscription", "by_customer"}
         /\ FirstStep(e) \in {"by_subscription", "by_customer"} => e \notin Ignorable
         /\ FirstStep(e) = "by_subscription" => EventData[e].subscription # None
BY DEF FirstStep

\* What TypeOK says of the handlers.
HandlersTyped ==
  /\ handler \in [Handlers -> HandlerState]
  /\ \A h \in Handlers : handler[h].pc # "idle" => handler[h].event \in Events
  /\ \A h \in Handlers : handler[h].pc \in {"apply", "settle"} => handler[h].workspace # None

LEMMA HandlerMoves ==
  ASSUME HandlersTyped, NEW h \in Handlers, NEW x \in HandlerState,
         x.pc # "idle" => x.event \in Events, x.pc \in {"apply", "settle"} => x.workspace # None,
         handler' = [handler EXCEPT ![h] = x]
  PROVE  /\ HandlersTyped'
         /\ handler'[h] = x
         /\ \A j \in Handlers : j # h => handler'[j] = handler[j]
BY DEF HandlersTyped

LEMMA HandlerGoes ==
  ASSUME HandlersTyped, NEW h \in Handlers, NEW pc \in Working,
         handler[h].event \in Events, pc \in {"apply", "settle"} => handler[h].workspace # None,
         handler' = [handler EXCEPT ![h].pc = pc]
  PROVE  /\ HandlersTyped'
         /\ handler'[h].pc = pc
         /\ handler'[h].event = handler[h].event
         /\ handler'[h].workspace = handler[h].workspace
         /\ \A j \in Handlers : j # h => handler'[j] = handler[j]
BY DEF HandlersTyped, HandlerState

LEMMA OnlyHandlersMoved ==
  ASSUME TypeOK, HandlersTyped',
         billing' \in [Events -> EventRow], retried' \in [Events -> Nat],
         answered' \subseteq Events, deliveries' \in 0..MaxDeliveries, faults' \in 0..MaxFaults,
         UNCHANGED <<workspace, checkout, owner, sessions, applied>>
  PROVE  TypeOK'
BY DEF TypeOK, HandlersTyped

LEMMA RowWritten ==
  ASSUME billing \in [Events -> EventRow], NEW e \in Events, NEW row \in EventRow,
         billing' = [billing EXCEPT ![e] = row]
  PROVE  /\ billing' \in [Events -> EventRow] /\ billing'[e] = row
         /\ \A f \in Events : f # e => billing'[f] = billing[f]
OBVIOUS

LEMMA NothingAtFirst == Init => SyncInv
BY DEF Init, SyncInv, TypeOK, OwnershipInv, HandlerInv, PaidByOwnCustomer, ProcessedWasApplied,
       Working, Owned, Data, WorkspaceRow, EventRow, HandlerState, CheckoutState

\* Checkouts: a new customer is nobody else's, and is stored for the workspace it was created for.
LEMMA CheckoutPreserves ==
  ASSUME SyncInv, NEW k \in Checkouts, CheckoutStep(k) \/ CheckoutDies(k)
  PROVE  SyncInv'
<1>. USE DEF SyncInv, TypeOK, Working
<1>1. CASE FindCheckoutWorkspace(k)
  BY <1>1 DEF CheckoutState, WorkspaceRow, FindCheckoutWorkspace, OwnershipInv, HandlerInv, PaidByOwnCustomer,
              ProcessedWasApplied, Owned, Data
<1>2. CASE CreateCustomer(k)
  <2>1. PICK c \in Customers :
          /\ owner[c] = None
          /\ owner' = [owner EXCEPT ![c] = checkout[k].workspace]
          /\ checkout' = [checkout EXCEPT
               ![k] = [pc |-> "store", workspace |-> checkout[k].workspace, customer |-> c]]
    BY <1>2 DEF CreateCustomer
  <2>2. checkout[k].pc = "create" /\ checkout[k].workspace \in Workspaces
    BY <1>2 DEF CreateCustomer, CheckoutState
  <2>3. UNCHANGED <<workspace, billing, handler, sessions, answered, deliveries, retried,
                    applied, faults>>
    BY <1>2 DEF CreateCustomer
  <2>4. \A w \in Workspaces : \A d \in Customers : owner[d] = w => owner'[d] = w
    BY <2>1
  <2>5. \A w \in Workspaces : \A e \in Events : Owned(e, w) => Owned(e, w)'
    BY <2>4, DataFacts DEF Owned
  <2>6. TypeOK'
    <3>1. owner' \in [Customers -> Workspaces \cup {None}] BY <2>1, <2>2
    <3>2. /\ checkout'[k].pc = "store" /\ checkout'[k].customer = c
          /\ checkout'[k].workspace = checkout[k].workspace
          /\ \A j \in Checkouts : j # k => checkout'[j] = checkout[j]
      BY <2>1 DEF CheckoutState
    <3>3. checkout' \in [Checkouts -> CheckoutState]
      BY <2>1, <2>2 DEF CheckoutState
    <3>. QED BY <2>2, <2>3, <3>1, <3>2, <3>3
  <2>7. OwnershipInv'
    <3>1. \A w \in Workspaces : workspace[w].customer # None => owner'[workspace[w].customer] = w
      BY <2>4 DEF OwnershipInv, WorkspaceRow
    <3>2. \A w \in Workspaces, e \in Events :
            workspace[w].subscription # None /\ EventData[e].subscription = workspace[w].subscription
              => Owned(e, w)'
      BY <2>5 DEF OwnershipInv
    <3>3. ASSUME NEW j \in Checkouts, checkout'[j].pc = "store"
          PROVE  owner'[checkout'[j].customer] = checkout'[j].workspace
      <4>1. CASE j = k BY <2>1, <2>2, <4>1
      <4>2. CASE j # k
        <5>1. /\ checkout'[j] = checkout[j] /\ checkout[j].customer \in Customers
              /\ checkout[j].workspace \in Workspaces
              /\ owner[checkout[j].customer] = checkout[j].workspace
          BY <2>1, <3>3, <4>2 DEF OwnershipInv, CheckoutState
        <5>. QED BY <2>4, <5>1
      <4>. QED BY <4>1, <4>2
    <3>4. \A h \in Handlers : handler[h].pc \in {"apply", "settle"} =>
            Owned(handler[h].event, handler[h].workspace)'
      <4>. SUFFICES ASSUME NEW h \in Handlers, handler[h].pc \in {"apply", "settle"}
                    PROVE  Owned(handler[h].event, handler[h].workspace)'
        OBVIOUS
      <4>1. Owned(handler[h].event, handler[h].workspace) /\ handler[h].event \in Events
        BY DEF OwnershipInv
      <4>2. handler[h].workspace \in Workspaces BY <4>1 DEF Owned
      <4>3. owner'[EventData[handler[h].event].customer] = handler[h].workspace
        BY <4>1, <4>2, <2>4, DataFacts DEF Owned
      <4>. QED BY <4>2, <4>3, <2>3 DEF Owned
    <3>. QED BY <2>3, <3>1, <3>2, <3>3, <3>4 DEF OwnershipInv
  <2>8. HandlerInv' BY <2>3 DEF HandlerInv, Data
  <2>9. PaidByOwnCustomer' BY <2>3, <2>5 DEF PaidByOwnCustomer
  <2>10. ProcessedWasApplied'
    <3>1. \A e \in Events : billing[e].status = "processed" => billing[e].workspace \in Workspaces
      BY DEF ProcessedWasApplied, Owned
    <3>. QED BY <2>3, <2>5, <3>1 DEF ProcessedWasApplied
  <2>. QED BY <2>6, <2>7, <2>8, <2>9, <2>10
<1>3. CASE StoreCustomer(k)
  <2>1. /\ checkout[k].pc = "store"
        /\ workspace' = [workspace EXCEPT ![checkout[k].workspace].customer = checkout[k].customer]
        /\ checkout' = [checkout EXCEPT ![k].pc = "session"]
        /\ UNCHANGED <<billing, handler, owner, sessions, answered, deliveries, retried,
                       applied, faults>>
    BY <1>3 DEF StoreCustomer
  <2>2. checkout[k].workspace \in Workspaces /\ checkout[k].customer \in Customers
    BY <2>1 DEF CheckoutState
  <2>3. /\ workspace' \in [Workspaces -> WorkspaceRow]
        /\ workspace'[checkout[k].workspace].customer = checkout[k].customer
        /\ \A w \in Workspaces :
             /\ w # checkout[k].workspace => workspace'[w].customer = workspace[w].customer
             /\ workspace'[w].subscription = workspace[w].subscription
             /\ workspace'[w].plan = workspace[w].plan
    BY <2>1, <2>2 DEF WorkspaceRow
  <2>4. TypeOK'
    <3>1. /\ checkout'[k].pc = "session" /\ checkout'[k].customer = checkout[k].customer
          /\ checkout'[k].workspace = checkout[k].workspace
          /\ \A j \in Checkouts : j # k => checkout'[j] = checkout[j]
          /\ checkout' \in [Checkouts -> CheckoutState]
      BY <2>1 DEF CheckoutState
    <3>. QED BY <2>1, <2>2, <2>3, <3>1
  <2>5. OwnershipInv' BY <2>1, <2>2, <2>3 DEF OwnershipInv, Owned
  <2>6. HandlerInv' BY <2>1 DEF HandlerInv, Data
  <2>7. PaidByOwnCustomer' BY <2>1, <2>3 DEF PaidByOwnCustomer, Owned
  <2>8. ProcessedWasApplied' BY <2>1 DEF ProcessedWasApplied, Owned
  <2>. QED BY <2>4, <2>5, <2>6, <2>7, <2>8
<1>4. CASE CreateSession(k)
  BY <1>4 DEF CheckoutState, CreateSession, OwnershipInv, HandlerInv, PaidByOwnCustomer,
              ProcessedWasApplied, Owned, Data
<1>5. CASE CheckoutDies(k)
  BY <1>5 DEF CheckoutState, CheckoutDies, OwnershipInv, HandlerInv, PaidByOwnCustomer,
              ProcessedWasApplied, Owned, Data
<1>. QED BY <1>1, <1>2, <1>3, <1>4, <1>5 DEF CheckoutStep

\* A handler step that writes no workspace row.
LEMMA HandlerPreserves ==
  ASSUME SyncInv, NEW h \in Handlers,
         \/ CreateEvent(h) \/ IgnoreEvent(h) \/ FindBySubscription(h) \/ FindByCustomer(h)
         \/ FailEvent(h) \/ SettleEvent(h) \/ HandlerDies(h)
         \/ \E e \in Events : Deliver(h, e)
  PROVE  SyncInv'
<1>. USE DEF SyncInv
<1>0. HandlersTyped /\ billing \in [Events -> EventRow] /\ retried \in [Events -> Nat]
      /\ answered \subseteq Events /\ deliveries \in 0..MaxDeliveries /\ faults \in 0..MaxFaults
  BY DEF TypeOK, HandlersTyped
<1>i. Idle \in HandlerState /\ Idle.pc = "idle" BY DEF Idle, HandlerState
<1>b. handler[h].pc \in Working => handler[h].event \in Events
  BY <1>0 DEF HandlersTyped, Working
<1>1. ASSUME NEW e \in Events, Deliver(h, e) PROVE SyncInv'
  <2>2. /\ UNCHANGED <<workspace, billing, checkout, owner, sessions, applied, faults>>
        /\ deliveries' \in 0..MaxDeliveries
    BY <1>0, <1>1 DEF Deliver
  <2>3. CASE IsDuplicate(billing[e].status)
    <3>1. answered' = answered \cup {e} /\ UNCHANGED <<handler, retried>>
      BY <1>1, <2>3 DEF Deliver
    <3>2. HandlersTyped' BY <1>0, <3>1 DEF HandlersTyped
    <3>3. TypeOK' BY <1>0, <2>2, <3>1, <3>2, OnlyHandlersMoved
    <3>. QED BY <2>2, <3>1, <3>3 DEF OwnershipInv, HandlerInv, PaidByOwnCustomer,
                ProcessedWasApplied, Owned, Data
  <2>4. CASE ~IsDuplicate(billing[e].status)
    <3>. DEFINE pc == IF billing[e].status = "none" THEN "create" ELSE FirstStep(e)
                x == [pc |-> pc, event |-> e, workspace |-> None]
    <3>1. handler' = [handler EXCEPT ![h] = x] /\ retried' \in [Events -> Nat]
          /\ UNCHANGED answered
      BY <1>0, <1>1, <2>4 DEF Deliver
    <3>2. /\ pc \in {"create", "ignore", "by_subscription", "by_customer"}
          /\ pc \in {"by_subscription", "by_customer"} => e \notin Ignorable
          /\ pc = "by_subscription" => EventData[e].subscription # None
          /\ pc # "create" => billing[e].status # "none"
      BY FirstStepFacts
    <3>. HIDE DEF pc
    <3>3. x \in HandlerState /\ x.pc = pc /\ x.event = e
      BY <3>2 DEF HandlerState, Working
    <3>. HIDE DEF x
    <3>4. /\ HandlersTyped' /\ handler'[h] = x
          /\ \A j \in Handlers : j # h => handler'[j] = handler[j]
      BY <1>0, <3>1, <3>2, <3>3, HandlerMoves
    <3>5. TypeOK' BY <1>0, <2>2, <3>1, <3>4, OnlyHandlersMoved
    <3>6. OwnershipInv' BY <2>2, <3>2, <3>3, <3>4 DEF OwnershipInv, Owned
    <3>7. HandlerInv' BY <2>2, <3>2, <3>3, <3>4 DEF HandlerInv, Data
    <3>8. PaidByOwnCustomer' /\ ProcessedWasApplied'
      BY <2>2 DEF PaidByOwnCustomer, ProcessedWasApplied, Owned
    <3>. QED BY <3>5, <3>6, <3>7, <3>8
  <2>. QED BY <2>3, <2>4
<1>r. ASSUME NEW row \in EventRow, Release(h), handler[h].event \in Events,
             \/ UNCHANGED billing
             \/ /\ billing' = [billing EXCEPT ![handler[h].event] = row]
                /\ row.status # "none"
                /\ row.status = "processed" => /\ applied[handler[h].event] > 0
                                               /\ Owned(handler[h].event, row.workspace),
             answered' \subseteq Events, faults' \in 0..MaxFaults,
             UNCHANGED <<workspace, checkout, owner, sessions, deliveries, retried, applied>>
      PROVE  SyncInv'
  <2>1. /\ HandlersTyped' /\ handler'[h] = Idle
        /\ \A j \in Handlers : j # h => handler'[j] = handler[j]
    BY <1>0, <1>i, <1>r, HandlerMoves DEF Release
  <2>2. /\ billing' \in [Events -> EventRow]
        /\ \A f \in Events : \/ billing'[f] = billing[f]
                             \/ /\ f = handler[h].event
                                /\ billing'[f] = row /\ row.status # "none"
                                /\ row.status = "processed" =>
                                     applied[f] > 0 /\ Owned(f, row.workspace)
    BY <1>0, <1>r, RowWritten
  <2>3. TypeOK' BY <1>0, <1>r, <2>1, <2>2, OnlyHandlersMoved
  <2>4. OwnershipInv' BY <1>r, <1>i, <2>1 DEF OwnershipInv, Owned
  <2>5. HandlerInv'
    <3>1. \A j \in Handlers : handler[j].pc \in Working => handler[j].event \in Events
      BY <1>0 DEF HandlersTyped, Working
    <3>. QED BY <1>r, <1>i, <2>1, <2>2, <3>1 DEF HandlerInv, Data, Working
  <2>6. PaidByOwnCustomer' BY <1>r DEF PaidByOwnCustomer, Owned
  <2>7. ProcessedWasApplied' BY <1>r, <2>2 DEF ProcessedWasApplied, Owned
  <2>. QED BY <2>3, <2>4, <2>5, <2>6, <2>7
<1>2. CASE CreateEvent(h)
  <2>1. PICK e \in Events : e = handler[h].event /\ handler[h].pc = "create"
    BY <1>2, <1>b DEF CreateEvent, Working
  <2>2. UNCHANGED <<workspace, checkout, owner, sessions, answered, deliveries, retried,
                    applied, faults>>
    BY <1>2 DEF CreateEvent
  <2>3. CASE billing[e].status # "none"
    <3>1. Release(h) /\ UNCHANGED billing BY <1>2, <2>1, <2>3 DEF CreateEvent
    <3>2. [status |-> "received", workspace |-> None] \in EventRow BY DEF EventRow
    <3>. QED BY <1>0, <1>r, <2>1, <2>2, <3>1, <3>2
  <2>4. CASE billing[e].status = "none"
    <3>. DEFINE row == [status |-> "received", workspace |-> None]
    <3>1. /\ billing' = [billing EXCEPT ![e] = row]
          /\ handler' = [handler EXCEPT ![h].pc = FirstStep(e)]
      BY <1>2, <2>1, <2>4 DEF CreateEvent, Goto
    <3>2. row \in EventRow /\ row.status = "received" BY DEF EventRow
    <3>. HIDE DEF row
    <3>3. FirstStep(e) \in {"ignore", "by_subscription", "by_customer"} /\ FirstStep(e) \in Working
      BY FirstStepFacts DEF Working
    <3>4. /\ HandlersTyped' /\ handler'[h].pc = FirstStep(e) /\ handler'[h].event = e
          /\ \A j \in Handlers : j # h => handler'[j] = handler[j]
      BY <1>0, <2>1, <3>1, <3>3, HandlerGoes
    <3>5. /\ billing' \in [Events -> EventRow] /\ billing'[e].status = "received"
          /\ \A f \in Events : f # e => billing'[f] = billing[f]
      BY <1>0, <3>1, <3>2, RowWritten
    <3>6. TypeOK' BY <1>0, <2>2, <3>4, <3>5, OnlyHandlersMoved
    <3>7. OwnershipInv' BY <2>2, <3>3, <3>4 DEF OwnershipInv, Owned
    <3>8. HandlerInv'
      <4>1. \A j \in Handlers : handler[j].pc \in Working => handler[j].event \in Events
        BY <1>0 DEF HandlersTyped, Working
      <4>2. \A f \in Events : billing[f].status # "none" => billing'[f].status # "none"
        BY <3>5
      <4>. QED BY <2>1, <2>2, <3>3, <3>4, <3>5, <4>1, <4>2, FirstStepFacts
            DEF HandlerInv, Data, Working
    <3>9. PaidByOwnCustomer' BY <2>2 DEF PaidByOwnCustomer, Owned
    <3>10. ProcessedWasApplied' BY <2>2, <3>5 DEF ProcessedWasApplied, Owned
    <3>. QED BY <3>6, <3>7, <3>8, <3>9, <3>10
  <2>. QED BY <2>3, <2>4
<1>3. CASE IgnoreEvent(h)
  <2>1. [status |-> "ignored", workspace |-> None] \in EventRow BY DEF EventRow
  <2>. QED BY <1>0, <1>3, <1>b, <1>r, <2>1 DEF IgnoreEvent, Answer, Working
<1>4. CASE FindBySubscription(h)
  <2>1. /\ handler[h].pc = "by_subscription" /\ handler[h].event \in Events
        /\ UNCHANGED <<workspace, billing, checkout, owner, sessions, answered, deliveries,
                       retried, applied, faults>>
    BY <1>4, <1>b DEF FindBySubscription, Working
  <2>2. \/ handler' = [handler EXCEPT ![h].pc = "by_customer"]
        \/ \E w \in Workspaces :
             /\ workspace[w].subscription = Data(h).subscription
             /\ handler' = [handler EXCEPT
                  ![h] = [pc |-> "apply", event |-> handler[h].event, workspace |-> w]]
    BY <1>4 DEF FindBySubscription, Resolve, Goto
  <2>3. CASE handler' = [handler EXCEPT ![h].pc = "by_customer"]
    <3>1. /\ HandlersTyped' /\ handler'[h].pc = "by_customer" /\ handler'[h].event = handler[h].event
          /\ \A j \in Handlers : j # h => handler'[j] = handler[j]
      BY <1>0, <2>1, <2>3, HandlerGoes DEF Working
    <3>2. TypeOK' BY <1>0, <2>1, <3>1, OnlyHandlersMoved
    <3>3. OwnershipInv' BY <2>1, <3>1 DEF OwnershipInv, Owned
    <3>4. HandlerInv' BY <2>1, <3>1 DEF HandlerInv, Data, Working
    <3>5. PaidByOwnCustomer' /\ ProcessedWasApplied'
      BY <2>1 DEF PaidByOwnCustomer, ProcessedWasApplied, Owned
    <3>. QED BY <3>2, <3>3, <3>4, <3>5
  <2>4. ASSUME NEW w \in Workspaces, workspace[w].subscription = Data(h).subscription,
               handler' = [handler EXCEPT
                 ![h] = [pc |-> "apply", event |-> handler[h].event, workspace |-> w]]
        PROVE  SyncInv'
    <3>1. Owned(handler[h].event, w)
      BY <2>1, <2>4 DEF OwnershipInv, HandlerInv, Data, Owned
    <3>. DEFINE x == [pc |-> "apply", event |-> handler[h].event, workspace |-> w]
    <3>2. x \in HandlerState /\ x.pc = "apply" /\ x.event = handler[h].event
          /\ x.workspace = w /\ w # None
      BY <2>1 DEF HandlerState, Working
    <3>3. handler' = [handler EXCEPT ![h] = x] BY <2>4
    <3>. HIDE DEF x
    <3>4. /\ HandlersTyped' /\ handler'[h] = x
          /\ \A j \in Handlers : j # h => handler'[j] = handler[j]
      BY <1>0, <2>1, <3>2, <3>3, HandlerMoves
    <3>5. TypeOK' BY <1>0, <2>1, <3>4, OnlyHandlersMoved
    <3>6. OwnershipInv' BY <2>1, <3>1, <3>2, <3>4 DEF OwnershipInv, Owned
    <3>7. HandlerInv' BY <2>1, <3>2, <3>4 DEF HandlerInv, Data, Working
    <3>8. PaidByOwnCustomer' /\ ProcessedWasApplied'
      BY <2>1 DEF PaidByOwnCustomer, ProcessedWasApplied, Owned
    <3>. QED BY <3>5, <3>6, <3>7, <3>8
  <2>. QED BY <2>2, <2>3, <2>4
<1>5. CASE FindByCustomer(h)
  <2>1. /\ handler[h].pc = "by_customer" /\ handler[h].event \in Events
        /\ UNCHANGED <<workspace, billing, checkout, owner, sessions, answered, deliveries,
                       retried, applied, faults>>
    BY <1>5, <1>b DEF FindByCustomer, Working
  <2>2. \/ handler' = [handler EXCEPT ![h].pc = "fail"]
        \/ \E w \in Workspaces :
             /\ workspace[w].customer = Data(h).customer
             /\ handler' = [handler EXCEPT
                  ![h] = [pc |-> "apply", event |-> handler[h].event, workspace |-> w]]
    BY <1>5 DEF FindByCustomer, Resolve, Goto
  <2>3. CASE handler' = [handler EXCEPT ![h].pc = "fail"]
    <3>1. /\ HandlersTyped' /\ handler'[h].pc = "fail" /\ handler'[h].event = handler[h].event
          /\ \A j \in Handlers : j # h => handler'[j] = handler[j]
      BY <1>0, <2>1, <2>3, HandlerGoes DEF Working
    <3>2. TypeOK' BY <1>0, <2>1, <3>1, OnlyHandlersMoved
    <3>3. OwnershipInv' BY <2>1, <3>1 DEF OwnershipInv, Owned
    <3>4. HandlerInv' BY <2>1, <3>1 DEF HandlerInv, Data, Working
    <3>5. PaidByOwnCustomer' /\ ProcessedWasApplied'
      BY <2>1 DEF PaidByOwnCustomer, ProcessedWasApplied, Owned
    <3>. QED BY <3>2, <3>3, <3>4, <3>5
  <2>4. ASSUME NEW w \in Workspaces, workspace[w].customer = Data(h).customer,
               handler' = [handler EXCEPT
                 ![h] = [pc |-> "apply", event |-> handler[h].event, workspace |-> w]]
        PROVE  SyncInv'
    <3>1. Owned(handler[h].event, w)
      BY <2>1, <2>4, DataFacts DEF OwnershipInv, HandlerInv, Data, Owned
    <3>. DEFINE x == [pc |-> "apply", event |-> handler[h].event, workspace |-> w]
    <3>2. x \in HandlerState /\ x.pc = "apply" /\ x.event = handler[h].event
          /\ x.workspace = w /\ w # None
      BY <2>1 DEF HandlerState, Working
    <3>3. handler' = [handler EXCEPT ![h] = x] BY <2>4
    <3>. HIDE DEF x
    <3>4. /\ HandlersTyped' /\ handler'[h] = x
          /\ \A j \in Handlers : j # h => handler'[j] = handler[j]
      BY <1>0, <2>1, <3>2, <3>3, HandlerMoves
    <3>5. TypeOK' BY <1>0, <2>1, <3>4, OnlyHandlersMoved
    <3>6. OwnershipInv' BY <2>1, <3>1, <3>2, <3>4 DEF OwnershipInv, Owned
    <3>7. HandlerInv' BY <2>1, <3>2, <3>4 DEF HandlerInv, Data, Working
    <3>8. PaidByOwnCustomer' /\ ProcessedWasApplied'
      BY <2>1 DEF PaidByOwnCustomer, ProcessedWasApplied, Owned
    <3>. QED BY <3>5, <3>6, <3>7, <3>8
  <2>. QED BY <2>2, <2>3, <2>4
<1>6. CASE FailEvent(h)
  <2>1. [status |-> "failed", workspace |-> None] \in EventRow BY DEF EventRow
  <2>. QED BY <1>0, <1>6, <1>b, <1>r, <2>1 DEF FailEvent, Working
<1>7. CASE SettleEvent(h)
  <2>1. handler[h].pc = "settle" /\ handler[h].event \in Events
    BY <1>7, <1>b DEF SettleEvent, Working
  <2>2. /\ Owned(handler[h].event, handler[h].workspace)
        /\ applied[handler[h].event] > 0
    BY <2>1 DEF OwnershipInv, HandlerInv
  <2>3. [status |-> "processed", workspace |-> handler[h].workspace] \in EventRow
    BY <2>2 DEF EventRow, Owned
  <2>. QED BY <1>0, <1>7, <1>r, <2>1, <2>2, <2>3 DEF SettleEvent, Answer
<1>8. CASE HandlerDies(h)
  <2>1. handler[h].event \in Events /\ faults' \in 0..MaxFaults
    BY <1>0, <1>8 DEF HandlerDies, HandlersTyped
  <2>2. [status |-> "received", workspace |-> None] \in EventRow BY DEF EventRow
  <2>. QED BY <1>0, <1>8, <1>r, <2>1, <2>2 DEF HandlerDies
<1>. QED BY <1>1, <1>2, <1>3, <1>4, <1>5, <1>6, <1>7, <1>8

\* The only step that writes a workspace's plan and subscription: it writes what its own customer
\* paid for, and counts.
LEMMA UpdatePreserves ==
  ASSUME SyncInv, NEW h \in Handlers, UpdateSubscriptionState(h)
  PROVE  SyncInv'
<1>. USE DEF SyncInv
<1>1. PICK e \in Events, w \in Workspaces :
        /\ handler[h].pc = "apply" /\ handler[h].event = e /\ handler[h].workspace = w
        /\ Owned(e, w) /\ e \notin Ignorable
  BY DEF UpdateSubscriptionState, TypeOK, OwnershipInv, HandlerInv, Owned
<1>. DEFINE row == [customer |-> EventData[e].customer, subscription |-> EventData[e].subscription,
                    plan |-> IF EventData[e].plan = None THEN workspace[w].plan
                             ELSE EventData[e].plan]
<1>2. /\ workspace' = [workspace EXCEPT ![w] = row]
      /\ applied' = [applied EXCEPT ![e] = @ + 1]
      /\ handler' = [handler EXCEPT ![h].pc = "settle"]
      /\ UNCHANGED <<billing, checkout, owner, sessions, answered, deliveries, retried, faults>>
  BY <1>1 DEF UpdateSubscriptionState, Goto
<1>3. HandlersTyped /\ workspace \in [Workspaces -> WorkspaceRow] /\ applied \in [Events -> Nat]
  BY DEF TypeOK, HandlersTyped
<1>4. /\ row \in WorkspaceRow /\ row.customer = EventData[e].customer
      /\ row.subscription = EventData[e].subscription
      /\ row.plan = workspace[w].plan \/ (row.plan = EventData[e].plan /\ EventData[e].plan # None)
  BY <1>3, DataFacts DEF WorkspaceRow
<1>. HIDE DEF row
<1>5. /\ workspace' \in [Workspaces -> WorkspaceRow] /\ workspace'[w] = row
      /\ \A v \in Workspaces : v # w => workspace'[v] = workspace[v]
  BY <1>2, <1>3, <1>4
<1>6. /\ applied' \in [Events -> Nat] /\ applied'[e] > 0
      /\ \A f \in Events : applied[f] > 0 => applied'[f] > 0
  BY <1>2, <1>3
<1>7. /\ HandlersTyped' /\ handler'[h].pc = "settle" /\ handler'[h].event = e
      /\ handler'[h].workspace = w
      /\ \A j \in Handlers : j # h => handler'[j] = handler[j]
  <2>1. w # None OBVIOUS
  <2>. QED BY <1>1, <1>2, <1>3, <2>1, HandlerGoes DEF Working
<1>8. TypeOK' BY <1>2, <1>5, <1>6, <1>7 DEF TypeOK, HandlersTyped
<1>9. OwnershipInv'
  <2>1. \A v \in Workspaces : workspace'[v].customer # None =>
          owner'[workspace'[v].customer] = v
    BY <1>1, <1>2, <1>4, <1>5 DEF OwnershipInv, Owned
  <2>2. ASSUME NEW v \in Workspaces, NEW f \in Events, workspace'[v].subscription # None,
               EventData[f].subscription = workspace'[v].subscription
        PROVE  Owned(f, v)'
    <3>1. CASE v = w
      <4>1. EventData[f].customer = EventData[e].customer BY <1>4, <1>5, <2>2, <3>1
      <4>. QED BY <1>1, <1>2, <3>1, <4>1 DEF Owned
    <3>2. CASE v # w BY <1>2, <1>5, <2>2, <3>2 DEF OwnershipInv, Owned
    <3>. QED BY <3>1, <3>2
  <2>3. \A j \in Handlers : handler'[j].pc \in {"apply", "settle"} =>
          Owned(handler[j].event, handler[j].workspace)'
    BY <1>1, <1>2, <1>7 DEF OwnershipInv, Owned
  <2>. QED BY <1>2, <2>1, <2>2, <2>3 DEF OwnershipInv
<1>10. HandlerInv'
  <2>1. \A j \in Handlers : handler[j].pc \in Working => handler[j].event \in Events
    BY <1>3 DEF HandlersTyped, Working
  <2>. QED BY <1>1, <1>2, <1>6, <1>7, <2>1 DEF HandlerInv, Data, Working
<1>11. PaidByOwnCustomer'
  <2>. SUFFICES ASSUME NEW v \in Workspaces, workspace'[v].plan # FreePlan
                PROVE  \E f \in Events \ Ignorable :
                         /\ Owned(f, v) /\ EventData[f].plan = workspace'[v].plan
                         /\ applied'[f] > 0
    BY <1>2 DEF PaidByOwnCustomer, Owned
  <2>1. CASE workspace'[v].plan = workspace[v].plan
    BY <1>6, <2>1 DEF PaidByOwnCustomer
  <2>2. CASE v = w /\ workspace'[v].plan = EventData[e].plan
    BY <1>1, <1>6, <2>2
  <2>. QED BY <1>4, <1>5, <2>1, <2>2
<1>12. ProcessedWasApplied' BY <1>2, <1>6 DEF ProcessedWasApplied, Owned
<1>. QED BY <1>8, <1>9, <1>10, <1>11, <1>12

\* The invariant behind the properties: ids in rows lead to their own workspace.
THEOREM SyncInvariant == Spec => []SyncInv
<1>1. SyncInv /\ [Next]_vars => SyncInv'
  <2>. SUFFICES ASSUME SyncInv, [Next]_vars PROVE SyncInv' OBVIOUS
  <2>1. CASE UNCHANGED vars
    BY <2>1 DEF vars, SyncInv, TypeOK, OwnershipInv, HandlerInv, PaidByOwnCustomer,
          ProcessedWasApplied, Owned, Data
  <2>. QED BY <2>1, CheckoutPreserves, HandlerPreserves, UpdatePreserves DEF Next, HandlerStep
<1>. QED BY <1>1, NothingAtFirst, PTL DEF Spec

\* Every variable of the billing module keeps its type.
THEOREM SyncTypeCorrect == Spec => []TypeOK
BY SyncInvariant, PTL DEF SyncInv

\* A plan is never given to a workspace by the events of another workspace's customer, for any
\* events, in any order of delivery and with any overwriting of ids by concurrent checkouts.
THEOREM PlansArePaidFor == Spec => []PaidByOwnCustomer
BY SyncInvariant, PTL DEF SyncInv

\* A row says processed only after its event was applied to the workspace it belongs to.
THEOREM ProcessedMeansApplied == Spec => []ProcessedWasApplied
BY SyncInvariant, PTL DEF SyncInv

---------------------------------------------------------------------------
(***************************************************************************)
(* How often an event is applied.                                          *)
(***************************************************************************)

\* What a step of one handler does to the number of handlers that may still apply an event.
LEMMA TakingCount ==
  ASSUME NEW h \in Handlers, NEW e \in Events,
         \A j \in Handlers : j # h => handler'[j] = handler[j]
  PROVE  /\ Cardinality(Taking(e)) \in Nat /\ Cardinality(Taking(e))' \in Nat
         /\ h \notin Taking(e) /\ h \in Taking(e)' =>
              Cardinality(Taking(e))' = Cardinality(Taking(e)) + 1
         /\ h \in Taking(e) /\ h \notin Taking(e)' =>
              Cardinality(Taking(e))' = Cardinality(Taking(e)) - 1
         /\ (h \in Taking(e) <=> h \in Taking(e)') =>
              Cardinality(Taking(e))' = Cardinality(Taking(e))
<1>1. IsFiniteSet(Taking(e)) /\ IsFiniteSet(Taking(e)')
  <2>1. Taking(e) \subseteq Handlers /\ Taking(e)' \subseteq Handlers BY DEF Taking
  <2>. QED BY <2>1, FS_Subset
<1>2. Taking(e) \ {h} = Taking(e)' \ {h} BY DEF Taking
<1>3. Cardinality(Taking(e)) \in Nat /\ Cardinality(Taking(e)') \in Nat
  BY <1>1, FS_CardinalityType
<1>4. ASSUME h \notin Taking(e), h \in Taking(e)'
      PROVE  Cardinality(Taking(e)') = Cardinality(Taking(e)) + 1
  <2>1. Taking(e)' = Taking(e) \cup {h} BY <1>2, <1>4
  <2>. QED BY <1>1, <1>4, <2>1, FS_AddElement
<1>5. ASSUME h \in Taking(e), h \notin Taking(e)'
      PROVE  Cardinality(Taking(e)') = Cardinality(Taking(e)) - 1
  <2>1. Taking(e)' = Taking(e) \ {h} BY <1>2, <1>5
  <2>. QED BY <1>1, <1>5, <2>1, FS_RemoveElement
<1>6. ASSUME h \in Taking(e) <=> h \in Taking(e)'
      PROVE  Cardinality(Taking(e)') = Cardinality(Taking(e))
  <2>1. CASE h \in Taking(e)
    <3>1. Taking(e) = (Taking(e) \ {h}) \cup {h} /\ Taking(e)' = (Taking(e)' \ {h}) \cup {h}
      BY <1>6, <2>1
    <3>. QED BY <1>2, <3>1
  <2>2. CASE h \notin Taking(e)
    <3>1. Taking(e) = Taking(e) \ {h} /\ Taking(e)' = Taking(e)' \ {h} BY <1>6, <2>2
    <3>. QED BY <1>2, <3>1
  <2>. QED BY <2>1, <2>2
<1>. QED BY <1>3, <1>4, <1>5, <1>6

\* A step of one handler, as seen by one event: it may take the event up when the row appears or
\* on a retry, apply it, or drop it.
LEMMA ApplicationPreserves ==
  ASSUME SyncInv, SyncInv', ApplicationInv, NEW h \in Handlers,
         \/ HandlerStep(h) \/ HandlerDies(h) \/ \E e \in Events : Deliver(h, e)
  PROVE  ApplicationInv'
<1>. SUFFICES ASSUME NEW e \in Events
              PROVE  applied'[e] + Cardinality(Taking(e))'
                       <= (IF billing'[e].status = "none" THEN 0 ELSE 1) + retried'[e]
  BY DEF ApplicationInv
<1>0. /\ applied[e] + Cardinality(Taking(e))
           <= (IF billing[e].status = "none" THEN 0 ELSE 1) + retried[e]
      /\ applied[e] \in Nat /\ retried[e] \in Nat
      /\ applied \in [Events -> Nat] /\ retried \in [Events -> Nat]
      /\ billing \in [Events -> EventRow] /\ handler \in [Handlers -> HandlerState]
  BY DEF ApplicationInv, SyncInv, TypeOK
<1>1. \A j \in Handlers : j # h => handler'[j] = handler[j]
  BY <1>0 DEF HandlerStep, HandlerDies, Deliver, CreateEvent, IgnoreEvent, FindBySubscription,
        FindByCustomer, FailEvent, UpdateSubscriptionState, SettleEvent, Goto, Release, Answer,
        Resolve
<1>2. /\ Cardinality(Taking(e)) \in Nat /\ Cardinality(Taking(e))' \in Nat
      /\ h \notin Taking(e) /\ h \in Taking(e)' =>
           Cardinality(Taking(e))' = Cardinality(Taking(e)) + 1
      /\ h \in Taking(e) /\ h \notin Taking(e)' =>
           Cardinality(Taking(e))' = Cardinality(Taking(e)) - 1
      /\ (h \in Taking(e) <=> h \in Taking(e)') =>
           Cardinality(Taking(e))' = Cardinality(Taking(e))
  BY <1>1, TakingCount
\* A step that applies nothing, gives nobody the event, and erases no row.
<1>3. ASSUME applied'[e] = applied[e], retried'[e] = retried[e],
             h \in Taking(e)' => h \in Taking(e),
             billing[e].status # "none" => billing'[e].status # "none"
      PROVE  applied'[e] + Cardinality(Taking(e))'
               <= (IF billing'[e].status = "none" THEN 0 ELSE 1) + retried'[e]
  <2>1. Cardinality(Taking(e))' <= Cardinality(Taking(e)) BY <1>2, <1>3
  <2>. QED BY <1>0, <1>2, <1>3, <2>1
<1>4. ASSUME NEW f \in Events, Deliver(h, f)
      PROVE  applied'[e] + Cardinality(Taking(e))'
               <= (IF billing'[e].status = "none" THEN 0 ELSE 1) + retried'[e]
  <2>1. UNCHANGED <<billing, applied>> /\ h \notin Taking(e) BY <1>4 DEF Deliver, Taking
  <2>2. CASE UNCHANGED <<handler, retried>>
    <3>1. h \notin Taking(e)' BY <2>1, <2>2 DEF Taking
    <3>. QED BY <1>3, <2>1, <2>2, <3>1
  <2>3. CASE /\ ~IsDuplicate(billing[f].status)
             /\ handler' = [handler EXCEPT
                  ![h] = [pc |-> IF billing[f].status = "none" THEN "create" ELSE FirstStep(f),
                          event |-> f, workspace |-> None]]
             /\ retried' = [retried EXCEPT
                  ![f] = IF billing[f].status = "failed" THEN @ + 1 ELSE @]
    <3>1. billing[f].status \in {"none", "failed"} BY <2>3 DEF IsDuplicate
    <3>2. CASE f = e /\ billing[f].status = "failed"
      <4>1. retried'[e] = retried[e] + 1 BY <1>0, <2>3, <3>2
      <4>2. Cardinality(Taking(e))' <= Cardinality(Taking(e)) + 1 BY <1>2, <2>1
      <4>. QED BY <1>0, <1>2, <2>1, <4>1, <4>2
    <3>3. CASE f # e \/ billing[f].status = "none"
      <4>1. retried'[e] = retried[e] BY <1>0, <2>3, <3>3
      <4>2. h \notin Taking(e)' BY <1>0, <2>3, <3>3 DEF Taking
      <4>. QED BY <1>3, <2>1, <4>1, <4>2
    <3>. QED BY <3>1, <3>2, <3>3
  <2>. QED BY <1>4, <2>2, <2>3 DEF Deliver
<1>5. CASE CreateEvent(h)
  <2>1. UNCHANGED <<applied, retried>> /\ h \notin Taking(e)
    BY <1>5 DEF CreateEvent, Taking
  <2>2. CASE Release(h) /\ UNCHANGED billing
    <3>1. h \notin Taking(e)' BY <1>0, <2>2 DEF Release, Idle, Taking
    <3>. QED BY <1>3, <2>1, <2>2, <3>1
  <2>3. CASE /\ billing[handler[h].event].status = "none"
             /\ billing' = [billing EXCEPT
                  ![handler[h].event] = [status |-> "received", workspace |-> None]]
             /\ Goto(h, FirstStep(handler[h].event))
    <3>1. CASE handler[h].event = e
      <4>1. billing[e].status = "none" /\ billing'[e].status = "received" BY <1>0, <2>3, <3>1
      <4>2. Cardinality(Taking(e))' <= Cardinality(Taking(e)) + 1 BY <1>2, <2>1
      <4>. QED BY <1>0, <1>2, <2>1, <4>1, <4>2
    <3>2. CASE handler[h].event # e
      <4>1. h \notin Taking(e)' BY <1>0, <2>3, <3>2 DEF Goto, Taking, HandlerState
      <4>2. billing'[e] = billing[e] BY <1>0, <2>3, <3>2
      <4>. QED BY <1>3, <2>1, <4>1, <4>2
    <3>. QED BY <3>1, <3>2
  <2>. QED BY <1>5, <2>2, <2>3 DEF CreateEvent
<1>6. CASE IgnoreEvent(h) \/ FailEvent(h) \/ SettleEvent(h) \/ HandlerDies(h)
  <2>1. UNCHANGED <<applied, retried>> /\ Release(h)
    BY <1>6 DEF IgnoreEvent, FailEvent, SettleEvent, HandlerDies, Answer
  <2>2. h \notin Taking(e)' BY <1>0, <2>1 DEF Release, Idle, Taking
  <2>3. billing[e].status # "none" => billing'[e].status # "none"
    BY <1>0, <1>6 DEF IgnoreEvent, FailEvent, SettleEvent, HandlerDies
  <2>. QED BY <1>3, <2>1, <2>2, <2>3
<1>7. CASE FindBySubscription(h) \/ FindByCustomer(h)
  <2>1. UNCHANGED <<applied, retried, billing>>
        /\ handler[h].pc \in {"by_subscription", "by_customer"}
    BY <1>7 DEF FindBySubscription, FindByCustomer
  <2>2. handler'[h].event = handler[h].event
    BY <1>0, <1>7 DEF FindBySubscription, FindByCustomer, Resolve, Goto, HandlerState
  <2>3. h \in Taking(e)' => h \in Taking(e) BY <2>1, <2>2 DEF Taking
  <2>. QED BY <1>3, <2>1, <2>3
<1>8. CASE UpdateSubscriptionState(h)
  <2>1. /\ UNCHANGED <<billing, retried>> /\ handler[h].pc = "apply"
        /\ applied' = [applied EXCEPT ![handler[h].event] = @ + 1]
        /\ handler' = [handler EXCEPT ![h].pc = "settle"]
    BY <1>8 DEF UpdateSubscriptionState, Goto
  <2>2. h \notin Taking(e)' BY <1>0, <2>1 DEF Taking, HandlerState
  <2>3. CASE handler[h].event = e
    <3>1. h \in Taking(e) BY <2>1, <2>3 DEF Taking
    <3>2. applied'[e] = applied[e] + 1 BY <1>0, <2>1, <2>3
    <3>3. Cardinality(Taking(e))' = Cardinality(Taking(e)) - 1 BY <1>2, <2>2, <3>1
    <3>. QED BY <1>0, <1>2, <2>1, <3>2, <3>3
  <2>4. CASE handler[h].event # e
    <3>1. applied'[e] = applied[e] BY <1>0, <2>1, <2>4
    <3>. QED BY <1>3, <2>1, <2>2, <3>1
  <2>. QED BY <2>3, <2>4
<1>. QED BY <1>4, <1>5, <1>6, <1>7, <1>8 DEF HandlerStep

\* Deliveries of one event, however many at once, apply it once, and once more for each of them
\* that found it failed.
THEOREM RetriesAreCharged == Spec => []ReappliedOnlyAfterFailure
<1>1. Init => ApplicationInv
  <2>. SUFFICES ASSUME Init, NEW e \in Events
                PROVE  applied[e] + Cardinality(Taking(e))
                         <= (IF billing[e].status = "none" THEN 0 ELSE 1) + retried[e]
    BY DEF ApplicationInv
  <2>1. Taking(e) = {} BY DEF Init, Taking
  <2>2. applied[e] = 0 /\ retried[e] = 0 /\ billing[e].status = "none" BY DEF Init
  <2>3. Cardinality(Taking(e)) = 0 BY <2>1, FS_EmptySet
  <2>. QED BY <2>2, <2>3
<1>2. SyncInv /\ SyncInv' /\ ApplicationInv /\ [Next]_vars => ApplicationInv'
  <2>. SUFFICES ASSUME SyncInv, SyncInv', ApplicationInv, [Next]_vars PROVE ApplicationInv'
    OBVIOUS
  <2>1. CASE UNCHANGED <<applied, handler, billing, retried>>
    BY <2>1 DEF ApplicationInv, Taking
  <2>2. ASSUME NEW k \in Checkouts, CheckoutStep(k) \/ CheckoutDies(k)
        PROVE  UNCHANGED <<applied, handler, billing, retried>>
    BY <2>2 DEF CheckoutStep, CheckoutDies, FindCheckoutWorkspace, CreateCustomer, StoreCustomer,
          CreateSession
  <2>. QED BY <2>1, <2>2, ApplicationPreserves DEF Next, vars
<1>3. SyncInv /\ ApplicationInv => ReappliedOnlyAfterFailure
  <2>. SUFFICES ASSUME SyncInv, ApplicationInv, NEW e \in Events
                PROVE  applied[e] <= 1 + retried[e]
    BY DEF ReappliedOnlyAfterFailure
  <2>1. Cardinality(Taking(e)) \in Nat
    <3>1. IsFiniteSet(Taking(e))
      <4>1. Taking(e) \subseteq Handlers BY DEF Taking
      <4>. QED BY <4>1, FS_Subset
    <3>. QED BY <3>1, FS_CardinalityType
  <2>2. applied[e] \in Nat /\ retried[e] \in Nat BY DEF SyncInv, TypeOK
  <2>3. applied[e] + Cardinality(Taking(e))
          <= (IF billing[e].status = "none" THEN 0 ELSE 1) + retried[e]
    BY DEF ApplicationInv
  <2>. QED BY <2>1, <2>2, <2>3
<1>. QED BY <1>1, <1>2, <1>3, SyncInvariant, PTL DEF Spec
=============================================================================
