---------------------------- MODULE MCStripeSync ----------------------------
(***************************************************************************)
(* Two workspaces and two customers, so that either each workspace has one *)
(* customer or two checkouts of one workspace race.  Of the first customer *)
(* come a subscription's start and an invoice without a subscription; of   *)
(* the second, its subscription and an event of a type nobody handles.     *)
(***************************************************************************)
EXTENDS StripeSync, TLC

CONSTANTS c1, c2, s1, s2, started, billed, other, unhandled

Data1 ==
  (started :> [customer |-> c1, subscription |-> s1, plan |-> "pro"]) @@
  (billed :> [customer |-> c1, subscription |-> None, plan |-> None]) @@
  (other :> [customer |-> c2, subscription |-> s2, plan |-> "starter"]) @@
  (unhandled :> [customer |-> c2, subscription |-> None, plan |-> None])

ExampleData == [e \in Events |-> Data1[e]]
=============================================================================
