--------------------------- MODULE DealCompletion ---------------------------
(***************************************************************************)
(* The rules of deal-completion.rules.ts: pure functions of a snapshot of   *)
(* one deal, its client order, its supplier orders and its installation     *)
(* job.  They decide when DealCompletionService.tryFinalize may close an    *)
(* installation and a deal.                                                 *)
(*                                                                          *)
(* installationRequired is a nullable boolean in the schema: "null", "no"   *)
(* and "yes" here.  The supplier orders of a deal enter as the set of their *)
(* statuses: the rules only ask whether there is one that is not cancelled  *)
(* and whether all of those are delivered.                                  *)
(***************************************************************************)

clientRequiredSupplierStatuses(statuses) == statuses \ {"CANCELLED"}

areAllClientSupplierOrdersDelivered(statuses) ==
  clientRequiredSupplierStatuses(statuses) = {"DELIVERED"}

areMaterialsDelivered(snap) ==
  \/ /\ snap.fulfillmentSource = "SUPPLIER_ORDER"
     /\ areAllClientSupplierOrdersDelivered(snap.supplierOrderStatuses)
  \/ /\ snap.fulfillmentSource = "WAREHOUSE_STOCK"
     /\ snap.orderStatus \in {"SHIPPED", "COMPLETED"}

canCompleteInstallation(snap) ==
  /\ snap.installationRequired = "yes"
  /\ ~ snap.installationCompleted
  /\ snap.supervisorConfirmed

\* Faulty variant: a required installation is not waited for.
canCompleteUninstalled(snap) ==
  /\ ~ snap.completed
  /\ snap.stage = "WON"
  /\ snap.paymentStatus = "PAID"
  /\ areMaterialsDelivered(snap)
  /\ snap.installationRequired # "null"

canCompleteDeal(snap) ==
  /\ ~ snap.completed
  /\ snap.stage = "WON"
  /\ snap.paymentStatus = "PAID"
  /\ areMaterialsDelivered(snap)
  /\ \/ snap.installationRequired = "no"
     \/ /\ snap.installationRequired = "yes"
        /\ canCompleteInstallation(snap)
=============================================================================
