------------------------ MODULE MCSupplierFulfilment ------------------------
(***************************************************************************)
(* Instances of SupplierFulfilment for TLC.  Three plans are enough for two *)
(* callers whose changes fit each on its own and not together: one brings   *)
(* the shipment forward, the other one puts the readiness off.              *)
(***************************************************************************)
EXTENDS SupplierFulfilment

CONSTANTS o1, o2   \* supplier orders
CONSTANTS j1, j2   \* runs of the cron job

Plan(ready, shipment, arrival) ==
  [ordered |-> 0, ready |-> ready, shipment |-> shipment, arrival |-> arrival]

TodayPlan == {Plan(0, NoDay, NoDay)}
DatePlans == {Plan(0, 1, NoDay), Plan(0, 0, NoDay), Plan(1, 1, NoDay), Plan(2, NoDay, 2)}

AllPlans == TodayPlan \cup DatePlans

\* Two orders through all handlers of users on one day; one order whose dates
\* are changed while the cron job runs on three days.
Fulfilment ==
  [handlers |-> {"client", "create", "ready", "status", "deliver"}, orders |-> SupplierOrders,
   plans |-> TodayPlan, lastDay |-> 0, installations |-> {"null", "no", "yes"}]
Reminding ==
  [handlers |-> {"create", "dates", "ready", "remind"}, orders |-> {o1},
   plans |-> DatePlans, lastDay |-> 2, installations |-> {"no"}]
BothScenarios == {Fulfilment, Reminding}

AllMoves == {<<"OPEN", "WON">>, <<"OPEN", "LOST">>, <<"WON", "OPEN">>}
=============================================================================
