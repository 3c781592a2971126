-------------------------- MODULE SupplierTheorems --------------------------
(***************************************************************************)
(* Theorems about a deal that supplier orders fulfil, for any number of      *)
(* supplier orders, plans, days, overlapping calls and runs of the cron job: *)
(* goods follow the money, statuses the table of transitions, planned dates  *)
(* stay in order and a reminder is sent once a day.                          *)
(***************************************************************************)
EXTENDS SupplierFulfilment, TLAPS

-----------------------------------------------------------------------------
\* The domains of the variables.
PlanRow ==
  [ordered : Days, ready : Days, shipment : Days \cup {NoDay}, arrival : Days \cup {NoDay}]

SupplierRow == [status : Statuses \cup {"NONE"}, plan : PlanRow, readyConfirmed : BOOLEAN]

DealRow ==
  [stage : {"OPEN", "WON", "LOST"}, completed : BOOLEAN,
   installationRequired : {"null", "no", "yes"}, installation : BOOLEAN,
   supervisorConfirmed : BOOLEAN, installationCompleted : BOOLEAN]

ClientOrder ==
  [status : {"NONE", "PENDING_SUPPLIER", "CANCELLED", "COMPLETED"},
   paymentStatus : {"UNPAID", "PAID"}]

DatesCall == [handler : {"dates"}, id : SupplierOrders, seen : PlanRow, plan : PlanRow]
ReadyCall == [handler : {"ready"}, id : SupplierOrders]
StatusCall == [handler : {"status"}, id : SupplierOrders, seen : Statuses, status : Statuses]
DeliverCall == [handler : {"deliver"}, id : SupplierOrders]
Call == DatesCall \cup ReadyCall \cup StatusCall \cup DeliverCall

Entry == [id : SupplierOrders, ready : Days]
JobRow == [running : BOOLEAN, today : Days, listed : SUBSET Entry]

Typed ==
  /\ deal \in DealRow
  /\ order \in ClientOrder
  /\ supplierOrders \in [SupplierOrders -> SupplierRow]
  /\ calls \subseteq Call
  /\ day \in Days
  /\ jobs \in [Jobs -> JobRow]
  /\ reminders \in [Claims -> Nat]
  /\ scenario \in Scenarios

\* What the calls under way have checked: dates that are in order, a change of
\* status that the table has, other than a delivery.
CallTrue(call) ==
  /\ call.handler = "dates" => Timely(call.plan)
  /\ call.handler = "status" => call.status \in Transitions[call.seen] \ {"DELIVERED"}

CallsTrue == \A call \in calls : CallTrue(call)

SupplyTrue ==
  /\ Typed
  /\ CallsTrue
  /\ SuppliedWhenPaid
  /\ DatesStayOrdered
  /\ RemindedOnce

-----------------------------------------------------------------------------
LEMMA TransitionFacts ==
  /\ Statuses = {"DRAFT", "SENT_TO_PRODUCTION", "IN_PRODUCTION", "READY_FOR_SHIPMENT", "SHIPPED",
                 "DELIVERED", "CANCELLED"}
  /\ \A status \in Statuses : Transitions[status] \subseteq Statuses
  /\ Transitions["DELIVERED"] = {}
  /\ "DELIVERED" \in Transitions["SHIPPED"]
  /\ \A status \in ReadyConfirmable \ {"READY_FOR_SHIPMENT"} :
       "READY_FOR_SHIPMENT" \in Transitions[status]
<1>1. Statuses = {"DRAFT", "SENT_TO_PRODUCTION", "IN_PRODUCTION", "READY_FOR_SHIPMENT", "SHIPPED",
                  "DELIVERED", "CANCELLED"}
  BY DEF Statuses, Transitions
<1>2. /\ Transitions["DRAFT"] =
           {"SENT_TO_PRODUCTION", "IN_PRODUCTION", "READY_FOR_SHIPMENT", "CANCELLED"}
      /\ Transitions["SENT_TO_PRODUCTION"] = {"IN_PRODUCTION", "READY_FOR_SHIPMENT", "CANCELLED"}
      /\ Transitions["IN_PRODUCTION"] = {"READY_FOR_SHIPMENT", "CANCELLED"}
      /\ Transitions["READY_FOR_SHIPMENT"] = {"SHIPPED", "CANCELLED"}
      /\ Transitions["SHIPPED"] = {"DELIVERED"}
      /\ Transitions["DELIVERED"] = {}
      /\ Transitions["CANCELLED"] = {}
  BY DEF Transitions
<1>3. \A status \in Statuses : Transitions[status] \subseteq Statuses
  BY <1>1, <1>2
<1>4. \A status \in ReadyConfirmable \ {"READY_FOR_SHIPMENT"} :
        "READY_FOR_SHIPMENT" \in Transitions[status]
  BY <1>2 DEF ReadyConfirmable
<1> QED
  BY <1>1, <1>2, <1>3, <1>4

\* The completion of a deal asks for goods delivered, money paid and an
\* installation confirmed where one is required.
LEMMA FinalizeTrue ==
  ASSUME NEW d \in DealRow, NEW ord \in ClientOrder, NEW rows \in [SupplierOrders -> SupplierRow],
         TryFinalize(d, ord, rows)
  PROVE  /\ deal' \in DealRow /\ order' \in ClientOrder
         /\ order'.paymentStatus = ord.paymentStatus
         /\ ord.status \in {"CANCELLED", "COMPLETED"} => order'.status = ord.status
         /\ deal'.installationRequired = d.installationRequired
         /\ d.installationCompleted => deal'.installationCompleted
         /\ d.completed => deal'.completed
         /\ deal'.completed /\ ~ d.completed =>
              /\ \E o \in SupplierOrders : rows[o].status = "DELIVERED"
              /\ ord.paymentStatus = "PAID"
              /\ order'.status \in {"CANCELLED", "COMPLETED"}
              /\ d.installationRequired # "null"
              /\ d.installationRequired = "yes" => deal'.installationCompleted
<1> DEFINE snap == CompletionSnapshot(d, ord, rows)
           installed == d.installationCompleted \/ canCompleteInstallation(snap)
           completed == d.completed \/ canCompleteDeal(snap)
<1>1. deal' = [[d EXCEPT !.installationCompleted = installed] EXCEPT !.completed = completed]
  BY DEF TryFinalize, DealRow
<1>2. order' = IF canCompleteDeal(snap) /\ ord.status \notin {"CANCELLED", "COMPLETED"}
               THEN [ord EXCEPT !.status = "COMPLETED"] ELSE ord
  BY DEF TryFinalize
<1>3. installed \in BOOLEAN /\ completed \in BOOLEAN
  BY DEF DealRow
<1>4. canCompleteDeal(snap) =>
        /\ \E o \in SupplierOrders : rows[o].status = "DELIVERED"
        /\ ord.paymentStatus = "PAID"
        /\ d.installationRequired # "null"
        /\ d.installationRequired = "yes" => canCompleteInstallation(snap)
  BY DEF canCompleteDeal, areMaterialsDelivered, areAllClientSupplierOrdersDelivered,
         clientRequiredSupplierStatuses, CompletionSnapshot
<1> HIDE DEF snap
<1>5. installed <=> d.installationCompleted \/ canCompleteInstallation(snap)
  OBVIOUS
<1>6. completed <=> d.completed \/ canCompleteDeal(snap)
  OBVIOUS
<1> HIDE DEF installed, completed
<1>7. /\ deal' \in DealRow
      /\ deal'.installationRequired = d.installationRequired
      /\ deal'.installationCompleted = installed /\ deal'.completed = completed
  BY <1>1, <1>3 DEF DealRow
<1>8. /\ order' \in ClientOrder /\ order'.paymentStatus = ord.paymentStatus
      /\ ord.status \in {"CANCELLED", "COMPLETED"} => order'.status = ord.status
      /\ canCompleteDeal(snap) => order'.status \in {"CANCELLED", "COMPLETED"}
  BY <1>2 DEF ClientOrder
<1> QED
  BY <1>4, <1>5, <1>6, <1>7, <1>8

-----------------------------------------------------------------------------
\* How a step may change the supplier orders, and the deal with its order.
RowMoves(old, new) ==
  /\ new.status # old.status =>
       \/ old.status = "NONE" /\ new.status = "SENT_TO_PRODUCTION" /\ Timely(new.plan)
       \/ old.status # "NONE" /\ new.status \in Transitions[old.status]
  /\ new.status \in {"SHIPPED", "DELIVERED"} /\ new.status # old.status => order.paymentStatus = "PAID"
  /\ old.status # "NONE" /\ Timely(old.plan) => Timely(new.plan)

RowsMove ==
  /\ supplierOrders' \in [SupplierOrders -> SupplierRow]
  /\ \A o \in SupplierOrders : RowMoves(supplierOrders[o], supplierOrders'[o])

DealMoves ==
  /\ deal' \in DealRow /\ order' \in ClientOrder
  /\ order.paymentStatus = "PAID" => order'.paymentStatus = "PAID"
  /\ order.status \in {"CANCELLED", "COMPLETED"} => order'.status \in {"CANCELLED", "COMPLETED"}
  /\ deal'.installationRequired = deal.installationRequired
  /\ deal.installationCompleted => deal'.installationCompleted
  /\ deal'.completed /\ ~ deal.completed =>
       /\ \E o \in SupplierOrders : supplierOrders'[o].status = "DELIVERED"
       /\ order'.paymentStatus = "PAID"
       /\ order'.status \in {"CANCELLED", "COMPLETED"}
       /\ deal'.installationRequired # "null"
       /\ deal'.installationRequired = "yes" => deal'.installationCompleted

LEMMA RowsStay ==
  ASSUME Typed, UNCHANGED supplierOrders
  PROVE  RowsMove
BY DEF RowsMove, RowMoves, Typed

LEMMA DealStays ==
  ASSUME Typed, UNCHANGED <<deal, order>>
  PROVE  DealMoves
BY DEF DealMoves, Typed

LEMMA OrderMoves ==
  ASSUME Typed, UNCHANGED deal, order' \in ClientOrder,
         order.paymentStatus = "PAID" => order'.paymentStatus = "PAID",
         order.status \in {"CANCELLED", "COMPLETED"} => order'.status \in {"CANCELLED", "COMPLETED"}
  PROVE  DealMoves
BY DEF DealMoves, Typed

LEMMA DealChanges ==
  ASSUME Typed, UNCHANGED order, deal' \in DealRow, deal'.completed = deal.completed,
         deal'.installationRequired = deal.installationRequired,
         deal'.installationCompleted = deal.installationCompleted
  PROVE  DealMoves
BY DEF DealMoves, Typed

LEMMA OneRowMoves ==
  ASSUME Typed, NEW o \in SupplierOrders, NEW row \in SupplierRow, RowMoves(supplierOrders[o], row),
         supplierOrders' = [supplierOrders EXCEPT ![o] = row]
  PROVE  RowsMove
<1>1. supplierOrders'[o] = row /\ \A q \in SupplierOrders : q # o => supplierOrders'[q] = supplierOrders[q]
  BY DEF Typed
<1>2. \A q \in SupplierOrders : RowMoves(supplierOrders[q], supplierOrders[q])
  BY DEF RowMoves
<1>3. supplierOrders' \in [SupplierOrders -> SupplierRow]
  BY DEF Typed
<1> QED
  BY <1>1, <1>2, <1>3 DEF RowsMove

LEMMA FinalizeMoves ==
  ASSUME Typed, NEW d \in DealRow, NEW ord \in ClientOrder, TryFinalize(d, ord, supplierOrders'),
         supplierOrders' \in [SupplierOrders -> SupplierRow],
         d.completed = deal.completed, d.installationRequired = deal.installationRequired,
         d.installationCompleted = deal.installationCompleted,
         order.paymentStatus = "PAID" => ord.paymentStatus = "PAID", ord.status = order.status
  PROVE  DealMoves
BY FinalizeTrue DEF DealMoves

-----------------------------------------------------------------------------
\* A call is known by its handler.
LEMMA CallKinds ==
  ASSUME Typed, NEW call \in calls
  PROVE  /\ call.handler = "dates" => call \in DatesCall
         /\ call.handler = "ready" => call \in ReadyCall
         /\ call.handler = "status" => call \in StatusCall
         /\ call.handler = "deliver" => call \in DeliverCall
BY DEF Typed, Call, DatesCall, ReadyCall, StatusCall, DeliverCall

LEMMA CreateMoves ==
  ASSUME Typed, NEW o \in SupplierOrders, CreateForDeal(o)
  PROVE  RowsMove /\ DealMoves
<1>1. PICK plan \in scenario.plans :
        /\ Timely(plan)
        /\ supplierOrders' = [supplierOrders EXCEPT
             ![o] = [status |-> "SENT_TO_PRODUCTION", plan |-> plan, readyConfirmed |-> FALSE]]
  BY DEF CreateForDeal
<1> DEFINE row == [status |-> "SENT_TO_PRODUCTION", plan |-> plan, readyConfirmed |-> FALSE]
<1>2. plan \in PlanRow
  BY PlansAssumption, BoundsAssumption DEF Typed, PlanRow
<1>3. row \in SupplierRow
  BY <1>2, TransitionFacts DEF SupplierRow
<1>4. supplierOrders[o].status = "NONE"
  BY DEF CreateForDeal, Exists
<1>5. RowMoves(supplierOrders[o], row)
  BY <1>1, <1>4 DEF RowMoves
<1> HIDE DEF row
<1>6. RowsMove
  BY <1>1, <1>3, <1>5, OneRowMoves DEF row
<1>7. UNCHANGED <<deal, order>>
  BY DEF CreateForDeal
<1> QED
  BY <1>6, <1>7, DealStays

LEMMA DatesMove ==
  ASSUME Typed, CallsTrue, NEW call \in calls, UpdateDates(call)
  PROVE  RowsMove /\ DealMoves
<1> DEFINE o == call.id
           row == [supplierOrders[o] EXCEPT !.plan = call.plan]
<1>1. call.handler = "dates" /\ UNCHANGED <<deal, order>>
  BY DEF UpdateDates
<1>2. o \in SupplierOrders /\ call.plan \in PlanRow /\ Timely(call.plan)
  BY <1>1, CallKinds DEF DatesCall, CallsTrue, CallTrue
<1>3. supplierOrders[o] \in SupplierRow
  BY <1>2 DEF Typed
<1>4. supplierOrders' = [supplierOrders EXCEPT ![o] = row]
  BY <1>2 DEF UpdateDates, PlannedDates, Typed
<1>5. row \in SupplierRow /\ row.status = supplierOrders[o].status /\ row.plan = call.plan
  BY <1>2, <1>3 DEF SupplierRow
<1> HIDE DEF row
<1>6. RowMoves(supplierOrders[o], row)
  BY <1>2, <1>5 DEF RowMoves
<1> QED
  BY <1>1, <1>2, <1>4, <1>5, <1>6, OneRowMoves, DealStays

LEMMA ReadyMoves ==
  ASSUME Typed, NEW call \in calls, ConfirmReady(call)
  PROVE  RowsMove /\ DealMoves
<1> DEFINE o == call.id
           once == [supplierOrders EXCEPT ![o].status = "READY_FOR_SHIPMENT"]
           row == [[supplierOrders[o] EXCEPT !.status = "READY_FOR_SHIPMENT"] EXCEPT !.readyConfirmed = TRUE]
<1>1. call.handler = "ready" /\ UNCHANGED <<deal, order>>
  BY DEF ConfirmReady
<1>2. o \in SupplierOrders
  BY <1>1, CallKinds DEF ReadyCall
<1>3. supplierOrders[o] \in SupplierRow
  BY <1>2 DEF Typed
<1>4. CASE /\ supplierOrders[o].status \in ReadyConfirmable
           /\ supplierOrders' = [once EXCEPT ![o].readyConfirmed = TRUE]
  <2>1. once = [supplierOrders EXCEPT ![o] = [supplierOrders[o] EXCEPT !.status = "READY_FOR_SHIPMENT"]]
    BY <1>2 DEF Typed
  <2>2. supplierOrders' = [supplierOrders EXCEPT ![o] = row]
    BY <1>2, <1>4, <2>1 DEF Typed
  <2>3. "READY_FOR_SHIPMENT" \in Statuses
    BY TransitionFacts
  <2>4. /\ row \in SupplierRow /\ row.status = "READY_FOR_SHIPMENT" /\ row.plan = supplierOrders[o].plan
    <3> DEFINE old == supplierOrders[o]
               ready == [old EXCEPT !.status = "READY_FOR_SHIPMENT"]
    <3>1. row = [ready EXCEPT !.readyConfirmed = TRUE]
      OBVIOUS
    <3>2. old \in SupplierRow
      BY <1>3
    <3> HIDE DEF row, old
    <3>3. ready \in SupplierRow /\ ready.status = "READY_FOR_SHIPMENT" /\ ready.plan = old.plan
      BY <2>3, <3>2 DEF SupplierRow
    <3> HIDE DEF ready
    <3>4. row \in SupplierRow /\ row.status = "READY_FOR_SHIPMENT" /\ row.plan = old.plan
      BY <3>1, <3>3 DEF SupplierRow
    <3> QED
      BY <3>4 DEF old
  <2> HIDE DEF row
  <2>5. RowMoves(supplierOrders[o], row)
    BY <1>4, <2>4, TransitionFacts DEF RowMoves, ReadyConfirmable
  <2> QED
    BY <1>1, <1>2, <2>2, <2>4, <2>5, OneRowMoves, DealStays
<1>5. CASE UNCHANGED supplierOrders
  BY <1>1, <1>5, RowsStay, DealStays
<1> QED
  BY <1>4, <1>5 DEF ConfirmReady

LEMMA StatusMoves ==
  ASSUME Typed, CallsTrue, NEW call \in calls, UpdateStatus(call)
  PROVE  RowsMove /\ DealMoves
<1> DEFINE o == call.id
           row == [supplierOrders[o] EXCEPT !.status = call.status]
<1>1. call.handler = "status" /\ UNCHANGED <<deal, order>>
  BY DEF UpdateStatus
<1>2. o \in SupplierOrders /\ call.status \in Statuses /\ call.seen \in Statuses
  BY <1>1, CallKinds DEF StatusCall
<1>3. supplierOrders[o] \in SupplierRow
  BY <1>2 DEF Typed
<1>4. CASE /\ Shippable(call) /\ StillSeen(supplierOrders[o], call)
           /\ supplierOrders' = [supplierOrders EXCEPT ![o].status = call.status]
  <2>1. supplierOrders' = [supplierOrders EXCEPT ![o] = row]
    BY <1>2, <1>4 DEF Typed
  <2>2. row \in SupplierRow /\ row.status = call.status /\ row.plan = supplierOrders[o].plan
    BY <1>2, <1>3 DEF SupplierRow
  <2> HIDE DEF row
  <2>3. call.status \in Transitions[supplierOrders[o].status] /\ call.status # "DELIVERED"
    BY <1>1, <1>4 DEF StillSeen, CallsTrue, CallTrue
  <2>4. supplierOrders[o].status # "NONE"
    BY <1>2, <1>4, TransitionFacts DEF StillSeen
  <2>5. call.status = "SHIPPED" => order.paymentStatus = "PAID"
    BY <1>4 DEF Shippable, PaidForShipment
  <2>6. RowMoves(supplierOrders[o], row)
    BY <2>2, <2>3, <2>4, <2>5 DEF RowMoves
  <2> QED
    BY <1>1, <1>2, <2>1, <2>2, <2>6, OneRowMoves, DealStays
<1>5. CASE UNCHANGED supplierOrders
  BY <1>1, <1>5, RowsStay, DealStays
<1> QED
  BY <1>4, <1>5 DEF UpdateStatus

LEMMA DeliveryMoves ==
  ASSUME Typed, NEW call \in calls, ConfirmDelivery(call)
  PROVE  RowsMove /\ DealMoves
<1> DEFINE o == call.id
           row == [supplierOrders[o] EXCEPT !.status = "DELIVERED"]
           rows == [supplierOrders EXCEPT ![o].status = "DELIVERED"]
<1>1. o \in SupplierOrders
  BY CallKinds DEF ConfirmDelivery, DeliverCall
<1>2. supplierOrders[o] \in SupplierRow
  BY <1>1 DEF Typed
<1>3. CASE /\ PaidForShipment /\ supplierOrders[o].status \in {"SHIPPED", "DELIVERED"}
           /\ supplierOrders' = rows /\ TryFinalize(deal, order, rows)
  <2>1. supplierOrders' = [supplierOrders EXCEPT ![o] = row]
    BY <1>1, <1>3 DEF Typed
  <2>2. "DELIVERED" \in Statuses
    BY TransitionFacts
  <2>3. row \in SupplierRow /\ row.status = "DELIVERED" /\ row.plan = supplierOrders[o].plan
    BY <1>2, <2>2 DEF SupplierRow
  <2> HIDE DEF row, rows
  <2>4. RowMoves(supplierOrders[o], row)
    BY <1>3, <2>3, TransitionFacts DEF RowMoves, PaidForShipment
  <2>5. RowsMove
    BY <1>1, <2>1, <2>3, <2>4, OneRowMoves
  <2>6. supplierOrders' \in [SupplierOrders -> SupplierRow]
    BY <2>5 DEF RowsMove
  <2>7. deal \in DealRow /\ order \in ClientOrder
    BY DEF Typed
  <2>8. DealMoves
    BY <1>3, <2>6, <2>7, FinalizeMoves
  <2> QED
    BY <2>5, <2>8
<1>4. CASE UNCHANGED <<deal, order, supplierOrders>>
  BY <1>4, RowsStay, DealStays
<1> QED
  BY <1>3, <1>4 DEF ConfirmDelivery

LEMMA ClientMoves ==
  ASSUME Typed, OrderStep
  PROVE  RowsMove /\ DealMoves
<1>0. deal \in DealRow /\ order \in ClientOrder /\ supplierOrders \in [SupplierOrders -> SupplierRow]
  BY DEF Typed
<1>1. UNCHANGED supplierOrders
  BY DEF OrderStep, CreateFromDeal, CancelOrder, ConfirmPayment, CreateEmptyDelivery, ChangeStage, Schedule,
         ConfirmSupervisor, DealStep
<1>2. RowsMove
  BY <1>1, RowsStay
<1>3. CASE CreateFromDeal \/ CancelOrder
  <2>1. PICK status \in {"PENDING_SUPPLIER", "CANCELLED"} :
          /\ order' = [order EXCEPT !.status = status]
          /\ order.status \notin {"CANCELLED", "COMPLETED"}
          /\ UNCHANGED deal
    BY <1>3 DEF CreateFromDeal, CancelOrder
  <2>2. order' \in ClientOrder /\ order'.paymentStatus = order.paymentStatus
    BY <1>0, <2>1 DEF ClientOrder
  <2> QED
    BY <1>2, <2>1, <2>2, OrderMoves
<1>4. ASSUME NEW paymentStatus \in {"UNPAID", "PAID"}, ConfirmPayment(paymentStatus)
      PROVE  DealMoves
  <2> DEFINE paid == [order EXCEPT !.paymentStatus = paymentStatus]
  <2>1. /\ paid \in ClientOrder /\ paid.status = order.status
        /\ order.paymentStatus = "PAID" => paid.paymentStatus = "PAID"
    BY <1>0, <1>4 DEF ClientOrder, ConfirmPayment
  <2>2. \/ TryFinalize(deal, paid, supplierOrders')
        \/ order' = paid /\ UNCHANGED deal
    BY <1>1, <1>4 DEF ConfirmPayment
  <2> HIDE DEF paid
  <2>3. CASE order' = paid /\ UNCHANGED deal
    BY <1>0, <2>1, <2>3 DEF DealMoves
  <2> QED
    BY <1>0, <1>1, <2>1, <2>2, <2>3, FinalizeMoves
<1>5. CASE CreateEmptyDelivery
  <2>1. TryFinalize(deal, order, supplierOrders')
    BY <1>1, <1>5 DEF CreateEmptyDelivery
  <2>2. supplierOrders' \in [SupplierOrders -> SupplierRow]
    BY <1>0, <1>1
  <2> QED
    BY <1>0, <1>2, <2>1, <2>2, FinalizeMoves
<1>6. ASSUME NEW stage \in {"OPEN", "WON", "LOST"}, ChangeStage(stage)
      PROVE  DealMoves
  <2>1. /\ deal' \in DealRow /\ deal'.completed = deal.completed
        /\ deal'.installationRequired = deal.installationRequired
        /\ deal'.installationCompleted = deal.installationCompleted /\ UNCHANGED order
    BY <1>0, <1>6 DEF ChangeStage, DealRow
  <2> QED
    BY <2>1, DealChanges
<1>7. CASE Schedule
  <2>1. /\ deal' \in DealRow /\ deal'.completed = deal.completed
        /\ deal'.installationRequired = deal.installationRequired
        /\ deal'.installationCompleted = deal.installationCompleted /\ UNCHANGED order
    BY <1>0, <1>7 DEF Schedule, DealRow
  <2> QED
    BY <1>2, <2>1, DealChanges
<1>8. CASE ConfirmSupervisor
  <2> DEFINE d == [deal EXCEPT !.supervisorConfirmed = TRUE]
  <2>1. /\ d \in DealRow /\ d.completed = deal.completed
        /\ d.installationRequired = deal.installationRequired
        /\ d.installationCompleted = deal.installationCompleted
    BY <1>0 DEF DealRow
  <2>2. TryFinalize(d, order, supplierOrders')
    BY <1>1, <1>8 DEF ConfirmSupervisor
  <2>3. supplierOrders' \in [SupplierOrders -> SupplierRow]
    BY <1>0, <1>1
  <2> HIDE DEF d
  <2> QED
    BY <1>0, <1>2, <2>1, <2>2, <2>3, FinalizeMoves
<1> QED
  BY <1>2, <1>3, <1>4, <1>5, <1>6, <1>7, <1>8 DEF OrderStep

LEMMA StartChanges ==
  ASSUME NEW o, StartCall(o)
  PROVE  UNCHANGED <<deal, order, supplierOrders, day, jobs, reminders, scenario>>
BY DEF StartCall, StartUpdateDates, StartConfirmReady, StartUpdateStatus, StartConfirmDelivery, Start

LEMMA JobChanges ==
  ASSUME NEW j, JobStep(j)
  PROVE  UNCHANGED <<deal, order, supplierOrders, calls, day, scenario>>
BY DEF JobStep, StartReminders, Remind, EndReminders, ReminderStep

LEMMA MovesStep ==
  ASSUME Typed, CallsTrue, [Next]_vars
  PROVE  RowsMove /\ DealMoves
<1>1. CASE UNCHANGED <<deal, order, supplierOrders>>
  BY <1>1, RowsStay, DealStays
<1>2. ASSUME NEW o \in SupplierOrders, ConfirmDeliveryAgain(o)
      PROVE  RowsMove /\ DealMoves
  <2>1. /\ deal \in DealRow /\ order \in ClientOrder /\ UNCHANGED supplierOrders
        /\ supplierOrders \in [SupplierOrders -> SupplierRow]
        /\ TryFinalize(deal, order, supplierOrders)
    BY <1>2 DEF ConfirmDeliveryAgain, Typed
  <2> QED
    BY <2>1, RowsStay, FinalizeMoves
<1>3. ASSUME NEW call \in calls, Transaction(call)
      PROVE  RowsMove /\ DealMoves
  BY <1>3, DatesMove, ReadyMoves, StatusMoves, DeliveryMoves DEF Transaction
<1> QED
  BY <1>1, <1>2, <1>3, CreateMoves, ClientMoves, StartChanges, JobChanges DEF Next, Tick, vars

-----------------------------------------------------------------------------
\* A call that starts has checked what it will write.
LEMMA StartsTrue ==
  ASSUME Typed, NEW o \in SupplierOrders, StartCall(o)
  PROVE  \E call \in Call : CallTrue(call) /\ calls' = calls \cup {call}
<1>1. ASSUME NEW plan \in scenario.plans, StartUpdateDates(o, plan)
      PROVE  \E call \in Call : CallTrue(call) /\ calls' = calls \cup {call}
  <2> DEFINE new == [handler |-> "dates", id |-> o, seen |-> supplierOrders[o].plan, plan |-> plan]
  <2>1. Timely(plan) /\ calls' = calls \cup {new}
    BY <1>1 DEF StartUpdateDates, Start
  <2>2. plan \in PlanRow
    BY PlansAssumption, BoundsAssumption DEF Typed, PlanRow
  <2>3. supplierOrders[o].plan \in PlanRow
    BY DEF Typed, SupplierRow
  <2>4. new \in DatesCall
    BY <2>2, <2>3 DEF DatesCall
  <2>5. CallTrue(new)
    BY <2>1 DEF CallTrue
  <2> HIDE DEF new
  <2> QED
    BY <2>1, <2>4, <2>5 DEF Call
<1>2. ASSUME StartConfirmReady(o)
      PROVE  \E call \in Call : CallTrue(call) /\ calls' = calls \cup {call}
  <2> DEFINE new == [handler |-> "ready", id |-> o]
  <2>1. new \in ReadyCall /\ CallTrue(new) /\ calls' = calls \cup {new}
    BY <1>2 DEF StartConfirmReady, Start, ReadyCall, CallTrue
  <2> HIDE DEF new
  <2> QED
    BY <2>1 DEF Call
<1>3. ASSUME NEW status \in Statuses, StartUpdateStatus(o, status)
      PROVE  \E call \in Call : CallTrue(call) /\ calls' = calls \cup {call}
  <2> DEFINE new == [handler |-> "status", id |-> o, seen |-> supplierOrders[o].status, status |-> status]
  <2>1. /\ Exists(o) /\ calls' = calls \cup {new}
        /\ status \in Transitions[supplierOrders[o].status] \ {"DELIVERED"}
    BY <1>3 DEF StartUpdateStatus, Start
  <2>2. supplierOrders[o].status \in Statuses
    BY <2>1 DEF Exists, Typed, SupplierRow
  <2>3. new \in StatusCall
    BY <2>2 DEF StatusCall
  <2>4. CallTrue(new)
    BY <2>1 DEF CallTrue
  <2> HIDE DEF new
  <2> QED
    BY <2>1, <2>3, <2>4 DEF Call
<1>4. ASSUME StartConfirmDelivery(o)
      PROVE  \E call \in Call : CallTrue(call) /\ calls' = calls \cup {call}
  <2> DEFINE new == [handler |-> "deliver", id |-> o]
  <2>1. new \in DeliverCall /\ CallTrue(new) /\ calls' = calls \cup {new}
    BY <1>4 DEF StartConfirmDelivery, Start, DeliverCall, CallTrue
  <2> HIDE DEF new
  <2> QED
    BY <2>1 DEF Call
<1> QED
  BY <1>1, <1>2, <1>3, <1>4 DEF StartCall

LEMMA TransactionChanges ==
  ASSUME NEW call, Transaction(call)
  PROVE  calls' = calls \ {call} /\ UNCHANGED <<day, jobs, reminders, scenario>>
BY DEF Transaction, UpdateDates, ConfirmReady, UpdateStatus, ConfirmDelivery, End

LEMMA DeskChanges ==
  ASSUME NEW o, CreateForDeal(o) \/ ConfirmDeliveryAgain(o) \/ OrderStep
  PROVE  UNCHANGED <<calls, day, jobs, reminders, scenario>>
BY DEF CreateForDeal, ConfirmDeliveryAgain, OrderStep, CreateFromDeal, CancelOrder, ConfirmPayment,
       CreateEmptyDelivery, ChangeStage, Schedule, ConfirmSupervisor, DealStep

LEMMA CallsStep ==
  ASSUME Typed, CallsTrue, [Next]_vars
  PROVE  calls' \subseteq Call /\ CallsTrue'
<1>1. calls \subseteq Call
  BY DEF Typed
<1>2. CASE UNCHANGED calls
  BY <1>1, <1>2 DEF CallsTrue
<1>3. ASSUME NEW o \in SupplierOrders, StartCall(o)
      PROVE  calls' \subseteq Call /\ CallsTrue'
  <2>1. PICK call \in Call : CallTrue(call) /\ calls' = calls \cup {call}
    BY <1>3, StartsTrue
  <2>2. \A c \in calls' : CallTrue(c)
    BY <2>1 DEF CallsTrue
  <2> QED
    BY <1>1, <2>1, <2>2 DEF CallsTrue
<1>4. ASSUME NEW call \in calls, Transaction(call)
      PROVE  calls' \subseteq Call /\ CallsTrue'
  <2>1. calls' \subseteq calls
    BY <1>4, TransactionChanges
  <2> QED
    BY <1>1, <2>1 DEF CallsTrue
<1> QED
  BY <1>2, <1>3, <1>4, DeskChanges, JobChanges DEF Next, Tick, vars

-----------------------------------------------------------------------------
\* Runs of the cron job list days and claim what nobody has claimed.
LEMMA JobsStep ==
  ASSUME Typed, RemindedOnce, [Next]_vars
  PROVE  jobs' \in [Jobs -> JobRow] /\ reminders' \in [Claims -> Nat] /\ RemindedOnce'
<1>1. /\ jobs \in [Jobs -> JobRow] /\ reminders \in [Claims -> Nat] /\ day \in Days
      /\ supplierOrders \in [SupplierOrders -> SupplierRow]
  BY DEF Typed
<1>2. CASE UNCHANGED <<jobs, reminders>>
  BY <1>1, <1>2 DEF RemindedOnce
<1>3. ASSUME NEW j \in Jobs, StartReminders(j)
      PROVE  jobs' \in [Jobs -> JobRow] /\ reminders' \in [Claims -> Nat] /\ RemindedOnce'
  <2> DEFINE due == {o \in SupplierOrders : /\ Exists(o)
                                            /\ ~ supplierOrders[o].readyConfirmed
                                            /\ supplierOrders[o].status \notin ReminderStops}
             listed == {[id |-> o, ready |-> supplierOrders[o].plan.ready] : o \in due}
  <2>1. /\ jobs' = [jobs EXCEPT ![j] = [running |-> TRUE, today |-> day, listed |-> listed]]
        /\ UNCHANGED reminders
    BY <1>3 DEF StartReminders
  <2>2. listed \subseteq Entry
    <3>1. \A o \in SupplierOrders : supplierOrders[o].plan.ready \in Days
      BY <1>1 DEF SupplierRow, PlanRow
    <3>2. \A o \in SupplierOrders : [id |-> o, ready |-> supplierOrders[o].plan.ready] \in Entry
      BY <3>1 DEF Entry
    <3> QED
      BY <3>2
  <2> HIDE DEF listed
  <2>3. [running |-> TRUE, today |-> day, listed |-> listed] \in JobRow
    BY <1>1, <2>2 DEF JobRow
  <2> QED
    BY <1>1, <2>1, <2>3 DEF RemindedOnce
<1>4. ASSUME NEW j \in Jobs, NEW entry \in jobs[j].listed, Remind(j, entry)
      PROVE  jobs' \in [Jobs -> JobRow] /\ reminders' \in [Claims -> Nat] /\ RemindedOnce'
  <2> DEFINE today == jobs[j].today
             new == {<<entry.id, kind, today>> : kind \in {k \in KindOn(today, entry.ready) :
                                                             ~ Claimed(entry.id, k, today)}}
  <2>1. reminders' = [c \in Claims |-> reminders[c] + IF c \in new THEN 1 ELSE 0]
    BY <1>4 DEF Remind
  <2>2. jobs' = [jobs EXCEPT ![j].listed = @ \ {entry}]
    BY <1>4 DEF Remind
  <2>3. \A c \in Claims : c \in new => ~ reminders[c] > 0
    BY DEF Claimed
  <2> HIDE DEF new
  <2>4. \A c \in Claims : reminders'[c] \in Nat /\ reminders'[c] <= 1
    BY <1>1, <2>1, <2>3 DEF RemindedOnce
  <2>5. reminders' \in [Claims -> Nat]
    BY <2>1, <2>4
  <2>6. jobs' \in [Jobs -> JobRow]
    BY <1>1, <2>2 DEF JobRow
  <2> QED
    BY <2>4, <2>5, <2>6 DEF RemindedOnce
<1>5. ASSUME NEW j \in Jobs, EndReminders(j)
      PROVE  jobs' \in [Jobs -> JobRow] /\ reminders' \in [Claims -> Nat] /\ RemindedOnce'
  <2>1. jobs' = [jobs EXCEPT ![j].running = FALSE] /\ UNCHANGED reminders
    BY <1>5 DEF EndReminders
  <2>2. jobs' \in [Jobs -> JobRow]
    BY <1>1, <2>1 DEF JobRow
  <2> QED
    BY <1>1, <2>1, <2>2 DEF RemindedOnce
<1> QED
  BY <1>2, <1>3, <1>4, <1>5, DeskChanges, StartChanges, TransactionChanges DEF Next, JobStep, Tick, vars

LEMMA DaysStep ==
  ASSUME Typed, [Next]_vars
  PROVE  day' \in Days /\ scenario' = scenario
<1>1. CASE Tick
  <2>1. day < scenario.lastDay /\ scenario.lastDay \in Days /\ day \in Days
    BY <1>1, BoundsAssumption DEF Tick, Typed
  <2>2. day + 1 \in Days
    BY <2>1, PlansAssumption DEF Days
  <2> QED
    BY <1>1, <2>2 DEF Tick
<1>2. CASE UNCHANGED <<day, scenario>>
  BY <1>2 DEF Typed
<1> QED
  BY <1>1, <1>2, DeskChanges, StartChanges, TransactionChanges, JobChanges DEF Next, vars

-----------------------------------------------------------------------------
\* What moves this way keeps the goods behind the money and the dates in order.
LEMMA MoneyStep ==
  ASSUME Typed, SuppliedWhenPaid, RowsMove, DealMoves
  PROVE  SuppliedWhenPaid'
<1>1. ASSUME NEW o \in SupplierOrders, supplierOrders'[o].status \in {"SHIPPED", "DELIVERED"}
      PROVE  order'.paymentStatus = "PAID"
  <2>1. CASE supplierOrders'[o].status = supplierOrders[o].status
    BY <1>1, <2>1 DEF SuppliedWhenPaid, ShippedMeansPaid, DealMoves
  <2>2. CASE supplierOrders'[o].status # supplierOrders[o].status
    BY <1>1, <2>2 DEF RowsMove, RowMoves, DealMoves
  <2> QED
    BY <2>1, <2>2
<1>2. \A o \in SupplierOrders :
        supplierOrders[o].status = "DELIVERED" => supplierOrders'[o].status = "DELIVERED"
  BY TransitionFacts DEF RowsMove, RowMoves
<1>3. CompletedMeansSupplied'
  <2>1. CASE deal'.completed /\ ~ deal.completed
    BY <2>1 DEF DealMoves, CompletedMeansSupplied
  <2>2. CASE deal'.completed /\ deal.completed
    BY <1>2, <2>2 DEF SuppliedWhenPaid, DealMoves, CompletedMeansSupplied
  <2> QED
    BY <2>1, <2>2 DEF CompletedMeansSupplied
<1> QED
  BY <1>1, <1>3 DEF SuppliedWhenPaid, ShippedMeansPaid

LEMMA OrderedStep ==
  ASSUME Typed, DatesStayOrdered, RowsMove
  PROVE  DatesStayOrdered'
<1>1. ASSUME NEW o \in SupplierOrders, supplierOrders'[o].status # "NONE"
      PROVE  Timely(supplierOrders'[o].plan)
  <2>1. RowMoves(supplierOrders[o], supplierOrders'[o])
    BY DEF RowsMove
  <2>2. CASE supplierOrders[o].status = "NONE"
    BY <1>1, <2>1, <2>2 DEF RowMoves
  <2>3. CASE supplierOrders[o].status # "NONE"
    BY <2>1, <2>3 DEF RowMoves, DatesStayOrdered, Exists
  <2> QED
    BY <2>2, <2>3
<1> QED
  BY <1>1 DEF DatesStayOrdered, Exists, Timely

LEMMA SupplyStep ==
  ASSUME SupplyTrue, [Next]_vars
  PROVE  SupplyTrue'
<1>0. Typed /\ CallsTrue /\ SuppliedWhenPaid /\ DatesStayOrdered /\ RemindedOnce
  BY DEF SupplyTrue
<1>1. RowsMove /\ DealMoves
  BY <1>0, MovesStep
<1>2. calls' \subseteq Call /\ CallsTrue'
  BY <1>0, CallsStep
<1>3. jobs' \in [Jobs -> JobRow] /\ reminders' \in [Claims -> Nat] /\ RemindedOnce'
  BY <1>0, JobsStep
<1>4. day' \in Days /\ scenario' \in Scenarios
  BY <1>0, DaysStep DEF Typed
<1>5. Typed'
  BY <1>1, <1>2, <1>3, <1>4 DEF Typed, RowsMove, DealMoves
<1>6. SuppliedWhenPaid' /\ DatesStayOrdered'
  BY <1>0, <1>1, MoneyStep, OrderedStep
<1> QED
  BY <1>2, <1>3, <1>5, <1>6 DEF SupplyTrue

LEMMA SupplyInit ==
  ASSUME Init
  PROVE  SupplyTrue
<1>1. NoSupplierOrder \in SupplierRow
  <2>1. 0 \in Days
    BY PlansAssumption DEF Days
  <2>2. NoPlan \in PlanRow
    BY <2>1 DEF NoPlan, PlanRow
  <2> QED
    BY <2>2 DEF NoSupplierOrder, SupplierRow
<1>2. supplierOrders \in [SupplierOrders -> SupplierRow] /\ \A o \in SupplierOrders : ~ Exists(o)
  BY <1>1 DEF Init, Exists, NoSupplierOrder
<1>3. deal \in DealRow /\ ~ deal.completed
  BY BoundsAssumption DEF Init, DealRow
<1>4. order \in ClientOrder /\ scenario \in Scenarios /\ calls \subseteq Call
  BY DEF Init, ClientOrder
<1>5. day \in Days /\ jobs \in [Jobs -> JobRow]
  <2>1. 0 \in Days
    BY PlansAssumption DEF Days
  <2>2. [running |-> FALSE, today |-> 0, listed |-> {}] \in JobRow
    BY <2>1 DEF JobRow
  <2> QED
    BY <2>1, <2>2 DEF Init
<1>6. reminders \in [Claims -> Nat] /\ RemindedOnce
  BY DEF Init, RemindedOnce
<1>7. CallsTrue
  BY DEF Init, CallsTrue
<1>8. SuppliedWhenPaid /\ DatesStayOrdered
  BY <1>2, <1>3 DEF SuppliedWhenPaid, ShippedMeansPaid, CompletedMeansSupplied, DatesStayOrdered, Exists
<1> QED
  BY <1>2, <1>3, <1>4, <1>5, <1>6, <1>7, <1>8 DEF SupplyTrue, Typed

-----------------------------------------------------------------------------
\* The invariant of every behaviour: what the calls have checked is what they
\* may write, in whatever order their transactions come.
THEOREM SupplyInvariant == Spec => []SupplyTrue
<1>1. Init => SupplyTrue
  BY SupplyInit
<1>2. SupplyTrue /\ [Next]_vars => SupplyTrue'
  BY SupplyStep
<1> QED
  BY <1>1, <1>2, PTL DEF Spec

\* Goods leave the supplier for the client only when the client has paid, and
\* the deal is completed only with goods delivered, money paid and the
\* installation confirmed, for any number of calls that overlap.
THEOREM SupplyFollowsMoney == Spec => []SuppliedWhenPaid
<1>1. SupplyTrue => SuppliedWhenPaid
  BY DEF SupplyTrue
<1> QED
  BY <1>1, SupplyInvariant, PTL

\* The planned dates of every supplier order stay in order, whoever replaces
\* them meanwhile.
THEOREM DatesKeepTheirOrder == Spec => []DatesStayOrdered
<1>1. SupplyTrue => DatesStayOrdered
  BY DEF SupplyTrue
<1> QED
  BY <1>1, SupplyInvariant, PTL

\* However many runs of the cron job overlap, each reminder is sent once a day.
THEOREM RemindersOnceADay == Spec => []RemindedOnce
<1>1. SupplyTrue => RemindedOnce
  BY DEF SupplyTrue
<1> QED
  BY <1>1, SupplyInvariant, PTL

\* Every change of a status is one of the table of transitions, although calls
\* decide on statuses they read before.
THEOREM StatusesFollowTheTable == Spec => StatusFollowsTransitions
<1>1. SupplyTrue /\ [Next]_vars =>
        [\A o \in SupplierOrders :
           Exists(o) /\ supplierOrders'[o].status # supplierOrders[o].status =>
             supplierOrders'[o].status \in Transitions[supplierOrders[o].status]]_supplierOrders
  BY MovesStep DEF SupplyTrue, RowsMove, RowMoves, Exists
<1> QED
  BY <1>1, SupplyInvariant, PTL DEF Spec, StatusFollowsTransitions
=============================================================================
