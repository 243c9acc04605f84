----------------------------- MODULE StripeSync -----------------------------
(***************************************************************************)
(* Billing: how Stripe's events become a workspace's plan.  A checkout     *)
(* gives a workspace a Stripe customer; the events of that customer's      *)
(* subscriptions are delivered to process-stripe-webhook.use-case.ts, at   *)
(* least once, in any order and several at a time.  Neither use case runs  *)
(* in a transaction: every repository call below commits by itself.        *)
(***************************************************************************)
EXTENDS Integers, FiniteSets

CONSTANTS
  Workspaces, Customers, Subscriptions, Plans,
  FreePlan,       \* the plan of a new workspace
  Events,         \* provider event ids
  EventData,      \* what an event carries: see DataShape
  Ignorable,      \* events of another type, or without subscription state
  None,
  Handlers,       \* webhook requests the API processes serve at once
  Checkouts,      \* checkout requests
  MaxDeliveries,  \* bound: deliveries, Stripe's retries and duplicates included
  MaxFaults       \* bound: repository calls that throw and processes that die

\* An invoice has no plan, and a one-off invoice no subscription either.
DataShape ==
  [customer : Customers, subscription : Subscriptions \cup {None}, plan : Plans \cup {None}]

\* A subscription belongs to one customer.
ASSUME SyncAssumption ==
  /\ EventData \in [Events -> DataShape]
  /\ Ignorable \subseteq Events
  /\ None \notin Workspaces \cup Customers \cup Subscriptions \cup Plans \cup Events
  /\ FreePlan \in Plans
  /\ IsFiniteSet(Handlers)
  /\ MaxDeliveries \in Nat
  /\ MaxFaults \in Nat
  /\ \A e, f \in Events :
       EventData[e].subscription = EventData[f].subscription /\ EventData[e].subscription # None
         => EventData[e].customer = EventData[f].customer

VARIABLES
  workspace,   \* workspaces rows: customer and subscription ids, plan
  billing,     \* billing_events rows by provider event id: status and workspace
  handler,     \* where each webhook handler stands
  checkout,    \* where each checkout request stands
  owner,       \* Stripe's customers: the workspace each was created for
  sessions,    \* Stripe's customers that were sent to a checkout page
  answered,    \* events of which some delivery was answered 2xx
  deliveries,  \* how many deliveries there have been
  retried,     \* history: how often a handler took an event up again after a failure
  applied,     \* history: how often each event was applied to a workspace
  faults       \* how many faults there have been

vars == <<workspace, billing, handler, checkout, owner, sessions, answered, deliveries,
          retried, applied, faults>>

Working == {"create", "ignore", "by_subscription", "by_customer", "apply", "fail", "settle"}
WorkspaceRow ==
  [customer : Customers \cup {None}, subscription : Subscriptions \cup {None}, plan : Plans]
EventRow ==
  [status : {"none", "received", "processed", "ignored", "failed"},
   workspace : Workspaces \cup {None}]
HandlerState ==
  [pc : {"idle"} \cup Working, event : Events \cup {None}, workspace : Workspaces \cup {None}]
CheckoutState ==
  [pc : {"new", "create", "store", "session", "done"},
   workspace : Workspaces \cup {None}, customer : Customers \cup {None}]

\* Every variable keeps its type, and a handler that is about to apply knows its workspace.
TypeOK ==
  /\ workspace \in [Workspaces -> WorkspaceRow]
  /\ billing \in [Events -> EventRow]
  /\ handler \in [Handlers -> HandlerState]
  /\ \A h \in Handlers : handler[h].pc # "idle" => handler[h].event \in Events
  /\ \A h \in Handlers : handler[h].pc \in {"apply", "settle"} => handler[h].workspace # None
  /\ checkout \in [Checkouts -> CheckoutState]
  /\ \A k \in Checkouts : checkout[k].pc \in {"create", "store", "session"} =>
       checkout[k].workspace # None
  /\ \A k \in Checkouts : checkout[k].pc \in {"store", "session"} => checkout[k].customer # None
  /\ owner \in [Customers -> Workspaces \cup {None}]
  /\ sessions \subseteq Customers
  /\ answered \subseteq Events
  /\ deliveries \in 0..MaxDeliveries
  /\ retried \in [Events -> Nat]
  /\ applied \in [Events -> Nat]
  /\ faults \in 0..MaxFaults

Init ==
  /\ workspace = [w \in Workspaces |->
                    [customer |-> None, subscription |-> None, plan |-> FreePlan]]
  /\ billing = [e \in Events |-> [status |-> "none", workspace |-> None]]
  /\ handler = [h \in Handlers |-> [pc |-> "idle", event |-> None, workspace |-> None]]
  /\ checkout = [k \in Checkouts |-> [pc |-> "new", workspace |-> None, customer |-> None]]
  /\ owner = [c \in Customers |-> None]
  /\ sessions = {}
  /\ answered = {}
  /\ deliveries = 0
  /\ retried = [e \in Events |-> 0]
  /\ applied = [e \in Events |-> 0]
  /\ faults = 0

Data(h) == EventData[handler[h].event]
Goto(h, pc) == handler' = [handler EXCEPT ![h].pc = pc]

---------------------------------------------------------------------------
(***************************************************************************)
(* Checkout.                                                               *)
(***************************************************************************)

FindCheckoutWorkspace(k) ==
  /\ checkout[k].pc = "new"
  /\ \E w \in Workspaces :
       checkout' = [checkout EXCEPT
         ![k] = [pc |-> IF workspace[w].customer = None THEN "create" ELSE "session",
                 workspace |-> w, customer |-> workspace[w].customer]]
  /\ UNCHANGED <<workspace, billing, handler, owner, sessions, answered, deliveries,
                 retried, applied, faults>>

\* Stripe gives every request a new customer: none carries an idempotency key.
CreateCustomer(k) ==
  /\ checkout[k].pc = "create"
  /\ \E c \in Customers :
       /\ owner[c] = None
       /\ owner' = [owner EXCEPT ![c] = checkout[k].workspace]
       /\ checkout' = [checkout EXCEPT
            ![k] = [pc |-> "store", workspace |-> checkout[k].workspace, customer |-> c]]
  /\ UNCHANGED <<workspace, billing, handler, sessions, answered, deliveries,
                 retried, applied, faults>>

StoreCustomer(k) ==
  /\ checkout[k].pc = "store"
  /\ workspace' = [workspace EXCEPT ![checkout[k].workspace].customer = checkout[k].customer]
  /\ checkout' = [checkout EXCEPT ![k].pc = "session"]
  /\ UNCHANGED <<billing, handler, owner, sessions, answered, deliveries, retried,
                 applied, faults>>

CreateSession(k) ==
  /\ checkout[k].pc = "session"
  /\ sessions' = sessions \cup {checkout[k].customer}
  /\ checkout' = [checkout EXCEPT ![k].pc = "done"]
  /\ UNCHANGED <<workspace, billing, handler, owner, answered, deliveries, retried,
                 applied, faults>>

---------------------------------------------------------------------------
(***************************************************************************)
(* The webhook.                                                            *)
(***************************************************************************)

Idle == [pc |-> "idle", event |-> None, workspace |-> None]
Release(h) == handler' = [handler EXCEPT ![h] = Idle]
Answer(h) ==
  /\ Release(h)
  /\ answered' = answered \cup {handler[h].event}

\* Seeded regression: a missing subscription id is looked up like any other.
FirstStepUnchecked(e) == IF e \in Ignorable THEN "ignore" ELSE "by_subscription"

\* What follows once the event has a row.
FirstStep(e) ==
  IF e \in Ignorable THEN "ignore"
  ELSE IF EventData[e].subscription # None THEN "by_subscription"
  ELSE "by_customer"

\* Seeded regression: only a finished event is a duplicate.
IsDuplicateIfSettled(status) == status \in {"processed", "ignored"}
IsDuplicate(status) == status \notin {"none", "failed"}

\* Stripe sends events of a subscription once its customer has been to a checkout page.  The
\* handler verifies the event and looks for its row.
Deliver(h, e) ==
  /\ handler[h].pc = "idle"
  /\ EventData[e].customer \in sessions
  /\ deliveries < MaxDeliveries
  /\ deliveries' = deliveries + 1
  /\ IF IsDuplicate(billing[e].status)
     THEN /\ answered' = answered \cup {e}
          /\ UNCHANGED <<handler, retried>>
     ELSE /\ handler' = [handler EXCEPT
               ![h] = [pc |-> IF billing[e].status = "none" THEN "create" ELSE FirstStep(e),
                       event |-> e, workspace |-> None]]
          /\ retried' = [retried EXCEPT ![e] = IF billing[e].status = "failed" THEN @ + 1 ELSE @]
          /\ UNCHANGED answered
  /\ UNCHANGED <<workspace, billing, checkout, owner, sessions, applied, faults>>

\* The insert violates the unique key, and throws, if another delivery was first.
CreateEvent(h) ==
  LET e == handler[h].event IN
  /\ handler[h].pc = "create"
  /\ IF billing[e].status = "none"
     THEN /\ billing' = [billing EXCEPT ![e] = [status |-> "received", workspace |-> None]]
          /\ Goto(h, FirstStep(e))
     ELSE /\ Release(h)
          /\ UNCHANGED billing
  /\ UNCHANGED <<workspace, checkout, owner, sessions, answered, deliveries, retried,
                 applied, faults>>

IgnoreEvent(h) ==
  /\ handler[h].pc = "ignore"
  /\ billing' = [billing EXCEPT ![handler[h].event] = [status |-> "ignored", workspace |-> None]]
  /\ Answer(h)
  /\ UNCHANGED <<workspace, checkout, owner, sessions, deliveries, retried, applied, faults>>

\* findFirst: some row with the value, or none.
Resolve(h, matching, otherwise) ==
  IF matching = {} THEN Goto(h, otherwise)
  ELSE \E w \in matching :
         handler' = [handler EXCEPT
           ![h] = [pc |-> "apply", event |-> handler[h].event, workspace |-> w]]

FindBySubscription(h) ==
  /\ handler[h].pc = "by_subscription"
  /\ Resolve(h, {w \in Workspaces : workspace[w].subscription = Data(h).subscription},
             "by_customer")
  /\ UNCHANGED <<workspace, billing, checkout, owner, sessions, answered, deliveries,
                 retried, applied, faults>>

\* Seeded regression: the customer is not looked up.
FindByCustomerNever(h) ==
  /\ handler[h].pc = "by_customer"
  /\ Goto(h, "fail")
  /\ UNCHANGED <<workspace, billing, checkout, owner, sessions, answered, deliveries,
                 retried, applied, faults>>

FindByCustomer(h) ==
  /\ handler[h].pc = "by_customer"
  /\ Resolve(h, {w \in Workspaces : workspace[w].customer = Data(h).customer}, "fail")
  /\ UNCHANGED <<workspace, billing, checkout, owner, sessions, answered, deliveries,
                 retried, applied, faults>>

\* Workspace not found: the row says so and the request is answered with an error.
FailEvent(h) ==
  /\ handler[h].pc = "fail"
  /\ billing' = [billing EXCEPT ![handler[h].event] = [status |-> "failed", workspace |-> None]]
  /\ Release(h)
  /\ UNCHANGED <<workspace, checkout, owner, sessions, answered, deliveries, retried,
                 applied, faults>>

\* updateBillingSubscriptionState: an event without a plan leaves the plan alone, one without a
\* subscription erases the subscription.
UpdateSubscriptionState(h) ==
  LET e == handler[h].event
      w == handler[h].workspace IN
  /\ handler[h].pc = "apply"
  /\ workspace' = [workspace EXCEPT
       ![w] = [customer |-> EventData[e].customer, subscription |-> EventData[e].subscription,
               plan |-> IF EventData[e].plan = None THEN @.plan ELSE EventData[e].plan]]
  /\ applied' = [applied EXCEPT ![e] = @ + 1]
  /\ Goto(h, "settle")
  /\ UNCHANGED <<billing, checkout, owner, sessions, answered, deliveries, retried, faults>>

SettleEvent(h) ==
  /\ handler[h].pc = "settle"
  /\ billing' = [billing EXCEPT
       ![handler[h].event] = [status |-> "processed", workspace |-> handler[h].workspace]]
  /\ Answer(h)
  /\ UNCHANGED <<workspace, checkout, owner, sessions, deliveries, retried, applied, faults>>

---------------------------------------------------------------------------
(***************************************************************************)
(* Faults: a repository call throws, or the process dies, between two      *)
(* steps.  Stripe gets no 2xx, and nothing is undone.                      *)
(***************************************************************************)

HandlerDies(h) ==
  /\ handler[h].pc # "idle"
  /\ faults < MaxFaults
  /\ faults' = faults + 1
  /\ Release(h)
  /\ UNCHANGED <<workspace, billing, checkout, owner, sessions, answered, deliveries,
                 retried, applied>>

CheckoutDies(k) ==
  /\ checkout[k].pc \in {"create", "store", "session"}
  /\ faults < MaxFaults
  /\ faults' = faults + 1
  /\ checkout' = [checkout EXCEPT ![k].pc = "done"]
  /\ UNCHANGED <<workspace, billing, handler, owner, sessions, answered, deliveries,
                 retried, applied>>

HandlerStep(h) ==
  \/ CreateEvent(h) \/ IgnoreEvent(h) \/ FindBySubscription(h) \/ FindByCustomer(h)
  \/ FailEvent(h) \/ UpdateSubscriptionState(h) \/ SettleEvent(h)

CheckoutStep(k) ==
  FindCheckoutWorkspace(k) \/ CreateCustomer(k) \/ StoreCustomer(k) \/ CreateSession(k)

Next ==
  \/ \E h \in Handlers, e \in Events : Deliver(h, e)
  \/ \E h \in Handlers : HandlerStep(h) \/ HandlerDies(h)
  \/ \E k \in Checkouts : CheckoutStep(k) \/ CheckoutDies(k)

\* A handler that was called runs on.  Nothing is assumed of Stripe's retries or of checkouts.
Fairness == \A h \in Handlers : WF_vars(HandlerStep(h))

Spec == Init /\ [][Next]_vars /\ Fairness

---------------------------------------------------------------------------
(***************************************************************************)
(* What must hold.                                                         *)
(***************************************************************************)

Owned(e, w) == w \in Workspaces /\ owner[EventData[e].customer] = w

\* A workspace has a plan other than the free one only if that plan was paid for by a customer
\* created for this workspace, however its ids were overwritten and whichever lookup found it.
PaidByOwnCustomer ==
  \A w \in Workspaces : workspace[w].plan # FreePlan =>
    \E e \in Events \ Ignorable :
      Owned(e, w) /\ EventData[e].plan = workspace[w].plan /\ applied[e] > 0

\* An event is applied once, and once more for every delivery that found it failed: neither a
\* concurrent delivery of a new event nor a crash applies it again.
ReappliedOnlyAfterFailure ==
  \A e \in Events : applied[e] <= 1 + retried[e]

\* An event whose row says processed was applied, and to the workspace its customer was created
\* for, whatever handlers died on the way.
ProcessedWasApplied ==
  \A e \in Events : billing[e].status = "processed" =>
    applied[e] > 0 /\ Owned(e, billing[e].workspace)

Settled(e) == billing[e].status \in {"processed", "ignored"}

\* Two checkouts made two customers for one workspace, which has room for the ids of one.
Contested(e) ==
  \E c \in Customers \ {EventData[e].customer} : \E w \in Workspaces :
    Owned(e, w) /\ owner[c] = w

\* An event of a checked-out customer ends processed or ignored, unless a fault hits or a
\* concurrent checkout gave the workspace a second customer.  The two exceptions are real: no
\* delivery takes up an event left received, nor finds the workspace of a replaced customer.
EveryEventSettles ==
  \A e \in Events :
    (\E h \in Handlers : handler[h].event = e) ~> Settled(e) \/ faults > 0 \/ Contested(e)

\* docs/cases/stripe-webhook-sync.md:52 speaks of "reliable billing ingestion": an event that was
\* answered 2xx, which Stripe will not send again, is settled or still being worked on.
AnsweredIsSettled ==
  \A e \in answered : Settled(e) \/ \E h \in Handlers : handler[h].event = e
=============================================================================
