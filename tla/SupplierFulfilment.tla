------------------------- MODULE SupplierFulfilment -------------------------
(***************************************************************************)
(* One deal that is fulfilled by supplier orders: SupplierOrdersService,    *)
(* the reminders of its cron job, and the completion of the deal.           *)
(*                                                                          *)
(* A handler reads the supplier order, decides, and then runs a transaction *)
(* that may find the order changed.  The first half is a Start action that  *)
(* puts the call, with what it has seen, into calls; the second half takes  *)
(* it out again.  Transactions are atomic: those that decide about the deal *)
(* lock it, the others write one supplier order under a condition.          *)
(*                                                                          *)
(* Dates are days, counted from the first one.  The client order of the     *)
(* deal has its lines from the start, so a delivery of the warehouse finds  *)
(* nothing reserved for it; one without lines only finalizes the deal.      *)
(***************************************************************************)
EXTENDS Integers, FiniteSets, DealCompletion

CONSTANTS
  SupplierOrders,   \* supplier orders the deal may get
  Plans,            \* planned dates: records of days, or NoDay
  NoDay,
  LastDay,          \* bound: days are 0..LastDay
  Jobs,             \* runs of the cron job that may overlap
  MaxCalls,         \* bound: calls of users that are under way
  StageMoves,       \* stage changes that users make, as pairs
  Scenarios         \* bound: what is explored together; the handlers users call,
                    \* the orders created, their plans, the days, and
                    \* installationRequiredSnapshot: a subset of {"null", "no", "yes"}

Days == 0..LastDay

ASSUME PlansAssumption ==
  /\ LastDay \in Nat
  /\ NoDay \notin Int
  /\ Plans \subseteq [ordered : Days, ready : Days,
                      shipment : Days \cup {NoDay}, arrival : Days \cup {NoDay}]
ASSUME BoundsAssumption ==
  /\ MaxCalls \in Nat
  /\ \A s \in Scenarios : /\ s.orders \subseteq SupplierOrders
                           /\ s.plans \subseteq Plans
                           /\ s.lastDay \in Days
                           /\ s.installations \subseteq {"null", "no", "yes"}

VARIABLES
  deal,            \* the deal with its installation
  order,           \* its client order
  supplierOrders,  \* supplierOrders[o]: the row of o
  calls,           \* calls between their read and their transaction
  day,             \* today
  jobs,            \* jobs[j]: the orders a run of the cron job has still to look at
  reminders,       \* reminders[c]: notifications sent under claim c
  scenario         \* the bounds of this behaviour

vars == <<deal, order, supplierOrders, calls, day, jobs, reminders, scenario>>

-----------------------------------------------------------------------------
\* SUPPLIER_ORDER_STATUS_TRANSITIONS.
Transitions ==
  [DRAFT              |-> {"SENT_TO_PRODUCTION", "IN_PRODUCTION", "READY_FOR_SHIPMENT",
                           "CANCELLED"},
   SENT_TO_PRODUCTION |-> {"IN_PRODUCTION", "READY_FOR_SHIPMENT", "CANCELLED"},
   IN_PRODUCTION      |-> {"READY_FOR_SHIPMENT", "CANCELLED"},
   READY_FOR_SHIPMENT |-> {"SHIPPED", "CANCELLED"},
   SHIPPED            |-> {"DELIVERED"},
   DELIVERED          |-> {},
   CANCELLED          |-> {}]

Statuses == DOMAIN Transitions

ReadyConfirmable == {"DRAFT", "SENT_TO_PRODUCTION", "IN_PRODUCTION", "READY_FOR_SHIPMENT"}
ReminderStops == {"READY_FOR_SHIPMENT", "SHIPPED", "DELIVERED", "CANCELLED"}

\* supplierOrderId, kind and reminderDate of a claim are unique together.
Kinds == {"SOFT", "DUE", "OVERDUE"}
Claims == SupplierOrders \X Kinds \X Days

NoPlan == [ordered |-> 0, ready |-> 0, shipment |-> NoDay, arrival |-> NoDay]
NoSupplierOrder == [status |-> "NONE", plan |-> NoPlan, readyConfirmed |-> FALSE]

Exists(o) == supplierOrders[o].status # "NONE"

\* assertTimelineDates.
Timely(plan) ==
  /\ plan.ordered <= plan.ready
  /\ plan.shipment # NoDay => plan.ready <= plan.shipment
  /\ plan.arrival # NoDay =>
       IF plan.shipment # NoDay THEN plan.shipment <= plan.arrival ELSE plan.ready <= plan.arrival

-----------------------------------------------------------------------------
\* DealCompletionService.tryFinalize, for a deal and an order as the
\* transaction leaves them, with supplier orders rows.
CompletionSnapshot(d, ord, rows) ==
  [stage                 |-> d.stage,
   completed             |-> d.completed,
   paymentStatus         |-> ord.paymentStatus,
   fulfillmentSource     |-> "SUPPLIER_ORDER",
   orderStatus           |-> ord.status,
   supplierOrderStatuses |-> {rows[o].status : o \in {q \in SupplierOrders :
                                                        rows[q].status # "NONE"}},
   installationRequired  |-> d.installationRequired,
   supervisorConfirmed   |-> d.supervisorConfirmed,
   installationCompleted |-> d.installationCompleted]

TryFinalize(d, ord, rows) ==
  LET snap == CompletionSnapshot(d, ord, rows)
  IN  /\ deal' = [d EXCEPT !.installationCompleted = @ \/ canCompleteInstallation(snap),
                           !.completed             = @ \/ canCompleteDeal(snap)]
      /\ order' = IF canCompleteDeal(snap) /\ ord.status \notin {"CANCELLED", "COMPLETED"}
                  THEN [ord EXCEPT !.status = "COMPLETED"]
                  ELSE ord

-----------------------------------------------------------------------------
\* A won deal whose source is SUPPLIER_ORDER, with a quote the client accepted.
Init ==
  /\ scenario \in Scenarios
  /\ \E required \in scenario.installations :
       deal = [stage |-> "WON", completed |-> FALSE, installationRequired |-> required,
               installation |-> FALSE, supervisorConfirmed |-> FALSE,
               installationCompleted |-> FALSE]
  /\ order = [status |-> "NONE", paymentStatus |-> "UNPAID"]
  /\ supplierOrders = [o \in SupplierOrders |-> NoSupplierOrder]
  /\ calls = {}
  /\ day = 0
  /\ jobs = [j \in Jobs |-> [running |-> FALSE, today |-> 0, listed |-> {}]]
  /\ reminders = [c \in Claims |-> 0]

Start(call) ==
  /\ Cardinality(calls) < MaxCalls
  /\ call.handler \in scenario.handlers
  /\ calls' = calls \cup {call}
  /\ UNCHANGED <<deal, order, supplierOrders, day, jobs, reminders, scenario>>

\* The transaction of a call; one that finds nothing to do ends with it.
End(call) ==
  /\ calls' = calls \ {call}
  /\ UNCHANGED <<day, jobs, reminders, scenario>>

-----------------------------------------------------------------------------
\* createForDeal asks for the source and the accepted quote only, so it also
\* adds to a deal that is lost or completed.
CreateForDeal(o) ==
  /\ "create" \in scenario.handlers
  /\ o \in scenario.orders
  /\ ~ Exists(o)
  /\ \E plan \in {p \in scenario.plans : Timely(p)} :
       supplierOrders' = [supplierOrders EXCEPT
         ![o] = [status |-> "SENT_TO_PRODUCTION", plan |-> plan, readyConfirmed |-> FALSE]]
  /\ UNCHANGED <<deal, order, calls, day, jobs, reminders, scenario>>

\* Planned dates: what a caller leaves out keeps the value that was read, all of
\* them when only the comment changes.
StartUpdateDates(o, plan) ==
  LET row == supplierOrders[o]
  IN  /\ Exists(o)
      /\ row.status \notin {"DELIVERED", "CANCELLED"}
      /\ plan.ordered = row.plan.ordered
      /\ row.plan.shipment # NoDay => plan.shipment # NoDay
      /\ row.plan.arrival # NoDay => plan.arrival # NoDay
      /\ Timely(plan)
      /\ Start([handler |-> "dates", id |-> o, seen |-> row.plan, plan |-> plan])

\* Faulty variant: only the dates that change are written.
ChangedDates(row, call) ==
  [row EXCEPT !.plan = [f \in DOMAIN @ |->
     IF call.plan[f] = call.seen[f] THEN row.plan[f] ELSE call.plan[f]]]

\* All three dates are written, by id.
PlannedDates(row, call) == [row EXCEPT !.plan = call.plan]

UpdateDates(call) ==
  /\ call.handler = "dates"
  /\ supplierOrders' = [supplierOrders EXCEPT ![call.id] = PlannedDates(@, call)]
  /\ UNCHANGED <<deal, order>>
  /\ End(call)

StartConfirmReady(o) ==
  /\ supplierOrders[o].status \in ReadyConfirmable
  /\ ~ supplierOrders[o].readyConfirmed
  /\ Start([handler |-> "ready", id |-> o])

\* The UPDATE looks again; whoever comes second gets the row or a conflict.
ConfirmReady(call) ==
  LET row == supplierOrders[call.id]
  IN  /\ call.handler = "ready"
      /\ supplierOrders' = IF row.status \in ReadyConfirmable /\ ~ row.readyConfirmed
           THEN [supplierOrders EXCEPT ![call.id].status = "READY_FOR_SHIPMENT",
                                       ![call.id].readyConfirmed = TRUE]
           ELSE supplierOrders
      /\ UNCHANGED <<deal, order>>
      /\ End(call)

\* updateStatus, except to DELIVERED.
StartUpdateStatus(o, status) ==
  /\ Exists(o)
  /\ status \in Transitions[supplierOrders[o].status] \ {"DELIVERED"}
  /\ Start([handler |-> "status", id |-> o, seen |-> supplierOrders[o].status,
            status |-> status])

\* assertPaidForClientShipment, inside the transaction.
PaidForShipment == order.status # "NONE" /\ order.paymentStatus = "PAID"

\* Faulty variant: the UPDATE has no condition on the status.
AnyStatus(row, call) == TRUE

\* The WHERE clause of the UPDATE.
StillSeen(row, call) == row.status = call.seen

\* Faulty variant: goods leave the supplier whether they are paid or not.
ShippableUnpaid(call) == TRUE

Shippable(call) == call.status = "SHIPPED" => PaidForShipment

UpdateStatus(call) ==
  /\ call.handler = "status"
  /\ supplierOrders' =
       IF Shippable(call) /\ StillSeen(supplierOrders[call.id], call)
       THEN [supplierOrders EXCEPT ![call.id].status = call.status]
       ELSE supplierOrders
  /\ UNCHANGED <<deal, order>>
  /\ End(call)

\* confirmClientDelivery, also reached through updateStatus.
StartConfirmDelivery(o) ==
  /\ supplierOrders[o].status = "SHIPPED"
  /\ Start([handler |-> "deliver", id |-> o])

ConfirmDelivery(call) ==
  LET rows == [supplierOrders EXCEPT ![call.id].status = "DELIVERED"]
  IN  /\ call.handler = "deliver"
      /\ \/ /\ PaidForShipment
            /\ supplierOrders[call.id].status \in {"SHIPPED", "DELIVERED"}
            /\ supplierOrders' = rows
            /\ TryFinalize(deal, order, rows)
         \/ /\ ~PaidForShipment \/ supplierOrders[call.id].status \notin {"SHIPPED", "DELIVERED"}
            /\ UNCHANGED <<deal, order, supplierOrders>>
      /\ End(call)

\* Confirming a delivered order again finalizes the deal.
ConfirmDeliveryAgain(o) ==
  /\ "deliver" \in scenario.handlers
  /\ supplierOrders[o].status = "DELIVERED"
  /\ TryFinalize(deal, order, supplierOrders)
  /\ UNCHANGED <<supplierOrders, calls, day, jobs, reminders, scenario>>

-----------------------------------------------------------------------------
\* The client order: OrdersService for a deal of this source.
DealStep == UNCHANGED <<supplierOrders, calls, day, jobs, reminders, scenario>>

CreateFromDeal ==
  /\ deal.stage = "WON"
  /\ order.status = "NONE"
  /\ order' = [order EXCEPT !.status = "PENDING_SUPPLIER"]
  /\ UNCHANGED deal
  /\ DealStep

CancelOrder ==
  /\ order.status = "PENDING_SUPPLIER"
  /\ order' = [order EXCEPT !.status = "CANCELLED"]
  /\ UNCHANGED deal
  /\ DealStep

\* A payment is confirmed or rejected: the amount due may be reached by it or
\* have been reached before; the paid amount never falls.
ConfirmPayment(paymentStatus) ==
  /\ order.status \notin {"NONE", "CANCELLED"}
  /\ order.paymentStatus = "PAID" => paymentStatus = "PAID"
  /\ LET paid == [order EXCEPT !.paymentStatus = paymentStatus]
     IN  IF paymentStatus = "PAID"
         THEN TryFinalize(deal, paid, supplierOrders)
         ELSE order' = paid /\ UNCHANGED deal
  /\ DealStep

\* createDelivery without lines.
CreateEmptyDelivery ==
  /\ order.status = "PENDING_SUPPLIER"
  /\ order.paymentStatus = "PAID"
  /\ TryFinalize(deal, order, supplierOrders)
  /\ DealStep

ChangeStage(stage) ==
  /\ <<deal.stage, stage>> \in StageMoves
  /\ deal' = [deal EXCEPT !.stage = stage]
  /\ UNCHANGED order
  /\ DealStep

\* DealInstallationService: schedule creates the installation of a deal that
\* needs one, confirmSupervisor closes it.
Schedule ==
  /\ deal.installationRequired = "yes"
  /\ ~ deal.installationCompleted
  /\ deal' = [deal EXCEPT !.installation = TRUE]
  /\ UNCHANGED order
  /\ DealStep

ConfirmSupervisor ==
  /\ deal.installation
  /\ TryFinalize([deal EXCEPT !.supervisorConfirmed = TRUE], order, supplierOrders)
  /\ DealStep

-----------------------------------------------------------------------------
\* processReadinessReminders lists the orders and fixes the day ...
ReminderStep == UNCHANGED <<deal, order, supplierOrders, calls, day, scenario>>

StartReminders(j) ==
  LET due == {o \in SupplierOrders : /\ Exists(o)
                                     /\ ~ supplierOrders[o].readyConfirmed
                                     /\ supplierOrders[o].status \notin ReminderStops}
  IN  /\ "remind" \in scenario.handlers
      /\ ~ jobs[j].running
      /\ due # {}
      /\ jobs' = [jobs EXCEPT ![j] =
           [running |-> TRUE, today |-> day,
            listed |-> {[id |-> o, ready |-> supplierOrders[o].plan.ready] : o \in due}]]
      /\ UNCHANGED reminders
      /\ ReminderStep

\* ... and claims the reminder of the day for one order after the other.
KindOn(today, ready) ==
  CASE today = ready - 2 -> {"SOFT"}
    [] today = ready     -> {"DUE"}
    [] today > ready     -> {"OVERDUE"}
    [] OTHER             -> {}

\* Faulty variants: nobody looks for the claim; one claim serves all days.
NeverClaimed(o, kind, today) == FALSE
ClaimedOnce(o, kind, today) == \E t \in Days : reminders[<<o, kind, t>>] > 0

Claimed(o, kind, today) == reminders[<<o, kind, today>>] > 0

\* The claim and its notifications are one transaction.
Remind(j, entry) ==
  LET today == jobs[j].today
      new == {<<entry.id, kind, today>> : kind \in {k \in KindOn(today, entry.ready) :
                                                      ~ Claimed(entry.id, k, today)}}
  IN  /\ entry \in jobs[j].listed
      /\ reminders' = [c \in Claims |-> reminders[c] + IF c \in new THEN 1 ELSE 0]
      /\ jobs' = [jobs EXCEPT ![j].listed = @ \ {entry}]
      /\ ReminderStep

EndReminders(j) ==
  /\ jobs[j].running
  /\ jobs[j].listed = {}
  /\ jobs' = [jobs EXCEPT ![j].running = FALSE]
  /\ UNCHANGED reminders
  /\ ReminderStep

Tick ==
  /\ day < scenario.lastDay
  /\ day' = day + 1
  /\ UNCHANGED <<deal, order, supplierOrders, calls, jobs, reminders, scenario>>

-----------------------------------------------------------------------------
StartCall(o) ==
  \/ \E plan \in scenario.plans : StartUpdateDates(o, plan)
  \/ StartConfirmReady(o)
  \/ \E status \in Statuses : StartUpdateStatus(o, status)
  \/ StartConfirmDelivery(o)

Transaction(call) ==
  \/ UpdateDates(call)
  \/ ConfirmReady(call)
  \/ UpdateStatus(call)
  \/ ConfirmDelivery(call)

OrderStep ==
  /\ "client" \in scenario.handlers
  /\ \/ CreateFromDeal
     \/ CancelOrder
     \/ \E paymentStatus \in {"UNPAID", "PAID"} : ConfirmPayment(paymentStatus)
     \/ CreateEmptyDelivery
     \/ \E stage \in {"OPEN", "WON", "LOST"} : ChangeStage(stage)
     \/ Schedule
     \/ ConfirmSupervisor

JobStep(j) ==
  \/ StartReminders(j)
  \/ \E entry \in jobs[j].listed : Remind(j, entry)
  \/ EndReminders(j)

Next ==
  \/ \E o \in SupplierOrders : CreateForDeal(o) \/ StartCall(o) \/ ConfirmDeliveryAgain(o)
  \/ \E call \in calls : Transaction(call)
  \/ OrderStep
  \/ \E j \in Jobs : JobStep(j)
  \/ Tick

Spec == Init /\ [][Next]_vars

-----------------------------------------------------------------------------
\* Goods leave the supplier for the client only when the client has paid: at
\* every moment, however status changes, payments and cancellations interleave.
ShippedMeansPaid ==
  (\E o \in SupplierOrders : supplierOrders[o].status \in {"SHIPPED", "DELIVERED"})
    => order.paymentStatus = "PAID"

\* The deal is completed only with goods the supplier delivered and the client
\* paid, and an installation that needs it was confirmed; cancelling every
\* supplier order is no delivery.
CompletedMeansSupplied ==
  deal.completed =>
    /\ \E o \in SupplierOrders : supplierOrders[o].status = "DELIVERED"
    /\ order.paymentStatus = "PAID"
    /\ order.status \in {"COMPLETED", "CANCELLED"}
    /\ deal.installationRequired # "null"
    /\ deal.installationRequired = "yes" => deal.installationCompleted

\* Goods follow the money, up to the completion of the deal.
SuppliedWhenPaid == ShippedMeansPaid /\ CompletedMeansSupplied

\* Two calls that decided on the same old status cannot both win: every status
\* change is one the table of transitions has.
StatusFollowsTransitions ==
  [][\A o \in SupplierOrders :
       Exists(o) /\ supplierOrders'[o].status # supplierOrders[o].status =>
         supplierOrders'[o].status \in Transitions[supplierOrders[o].status]]_supplierOrders

\* The planned dates stay in order, although each caller checked them against
\* dates another one has replaced since.
DatesStayOrdered ==
  \A o \in SupplierOrders : Exists(o) => Timely(supplierOrders[o].plan)

\* Overlapping and repeated runs of the cron job send each reminder once a day.
RemindedOnce == \A c \in Claims : reminders[c] <= 1

\* The scheduler starts the job every ten minutes, and the job goes on.
Fairness ==
  /\ \A j \in Jobs : WF_vars(StartReminders(j)) /\ WF_vars(EndReminders(j))
  /\ \A j \in Jobs : WF_vars(\E entry \in jobs[j].listed : Remind(j, entry))
  /\ WF_vars(Tick)

LiveSpec == Spec /\ Fairness

\* An order that is overdue and nobody has confirmed is pointed out on that
\* day, also when it was pointed out on the days before.
Overdue(o) ==
  /\ Exists(o)
  /\ ~ supplierOrders[o].readyConfirmed
  /\ supplierOrders[o].status \notin ReminderStops
  /\ supplierOrders[o].plan.ready < day

OverdueIsNoticed ==
  \A o \in SupplierOrders : []<>(Overdue(o) => reminders[<<o, "OVERDUE", day>>] > 0)
=============================================================================
