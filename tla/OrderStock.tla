----------------------------- MODULE OrderStock -----------------------------
(***************************************************************************)
(* Warehouse orders: the stock ledger of InventoryService, the client       *)
(* orders, payments and deliveries of OrdersService, the warehouse          *)
(* purchases that bring goods in, and the two cron jobs that take goods     *)
(* back.  Every handler runs in one database transaction; here it is one    *)
(* atomic action, but for what a handler reads in one go and works off      *)
(* later: the expired reservations that a cron job has listed before its    *)
(* transactions, and the waiting orders that a receipt lists and then       *)
(* writes by their ids.  Anything may happen in between; the row locks a    *)
(* receipt holds by then are left out, so here more may happen than can.    *)
(* OrderStockTx opens the transactions up.                                  *)
(*                                                                          *)
(* A deal has at most one order (Order.dealId is unique), so an order goes  *)
(* by the number of its deal.  The lines of an order are copied from the    *)
(* deal when the order is created and never change after that; lines of    *)
(* the same product are one line here, because stock is kept per product.   *)
(* Quantities (Float) and money (Decimal) are natural numbers.              *)
(*                                                                          *)
(* Time: the order's createdAt and a reservation's expiresAt are only       *)
(* compared with now, so each is an age that Tick advances up to            *)
(* ReservationTtl, the three days both cron jobs use.                       *)
(***************************************************************************)
EXTENDS Sums, FiniteSets, DealCompletion

CONSTANTS
  Products,
  NumDeals,          \* deals, and so orders, are 1..NumDeals
  NumReceipts,       \* expected receipts (warehouse purchases) are 1..NumReceipts
  Baskets,           \* the lines a deal may have: functions Products -> Nat
  Totals,            \* the totalAmount a deal may have
  Stages,            \* the deal stages the first state may have
  Installations,     \* the values of installationRequiredSnapshot
  StageMoves,        \* the stage changes explored: pairs of stages
  InitialStock,      \* units of each product on hand at the start
  PurchaseBaskets,   \* the lines of a warehouse purchase
  ReceiptKeys,       \* client supplied idempotency keys of receipt events
  NoKey,             \* a receipt event sent without a key
  PaymentAmounts,
  MaxPayments,       \* bound: payments recorded per order
  Recorders,         \* users who may record a payment (HEAD, owner)
  Accountants,       \* users who may confirm one
  ReservationTtl,    \* ticks until a reservation expires
  BatchSize          \* waiting orders served by one receipt (take: 50)

Deals == 1..NumDeals
Receipts == 1..NumReceipts
Lines == [Products -> Nat]

ASSUME ConstantsAssumption ==
  /\ NumDeals \in Nat
  /\ NumReceipts \in Nat
  /\ ReservationTtl \in Nat
  /\ BatchSize \in Nat
  /\ Baskets \subseteq Lines
  /\ PurchaseBaskets \subseteq Lines
  /\ InitialStock \in Lines
  /\ Totals \subseteq Nat
  /\ PaymentAmounts \subseteq Nat \ {0}
  /\ Stages \subseteq {"OPEN", "WON", "LOST"}
  /\ StageMoves \subseteq {"OPEN", "WON", "LOST"} \X {"OPEN", "WON", "LOST"}

VARIABLES
  balance,       \* StockBalance row of each product
  reservations,  \* StockReservation rows of each order and product, oldest first
  orders,        \* Order rows with the quantities of their lines
  payments,      \* Payment rows of each order
  receipts,      \* ExpectedReceipt rows with their items and events
  deals,         \* the Deal rows, with installation job and completion
  expired,       \* what the release job has listed and not handled yet: of each
                 \* order and product, numbers of rows and their quantities then
  passes         \* of each purchase: the waiting orders its receipt has listed

vars == <<balance, reservations, orders, payments, receipts, deals, expired, passes>>

-----------------------------------------------------------------------------
\* Statuses.  DRAFT, CONFIRMED, PARTIALLY_PAID, PAID and READY_FOR_SHIPMENT
\* exist in the schema but no code assigns them; PENDING_SUPPLIER belongs to
\* supplier deals, which module SupplierFulfilment covers.
OrderStatuses == {"NONE", "WAITING_PAYMENT", "WAITING_STOCK",
                  "PARTIALLY_SHIPPED", "SHIPPED", "COMPLETED", "CANCELLED"}
ReservationStatuses == {"ACTIVE", "RELEASED", "FULFILLED"}
PaymentStatuses == {"UNPAID", "PARTIALLY_PAID", "PAID"}
ReceiptStatuses == {"NONE", "PENDING", "PARTIALLY_RECEIVED", "RECEIVED", "CANCELLED"}

\* OrderPolicyService: statuses in which no role may change an order.
FinalStatuses == {"SHIPPED", "CANCELLED", "COMPLETED"}
\* OrdersService.cancelOrder and releaseExpiredReservations: statuses left alone.
TerminalStatuses == FinalStatuses \cup {"PARTIALLY_SHIPPED"}

\* The rows of the tables.  late is history: a receipt set goods aside for the
\* order when it no longer waited for stock.
Balance == [onHand : Nat, reserved : Int, available : Nat]
Reservation == [quantity : Nat, age : 0..ReservationTtl, status : ReservationStatuses]
Order == [status : OrderStatuses, createdAt : Nat, age : 0..ReservationTtl,
          reservedQuantity : Lines, delivered : Lines,
          paidAmount : Nat, remainingAmount : Nat, paymentStatus : PaymentStatuses,
          closedBy : {"nobody", "user", "ttl"}, late : BOOLEAN]
Payment == [amount : PaymentAmounts, createdBy : Recorders,
            status : {"PENDING", "CONFIRMED", "REJECTED"}]
Receipt == [status : ReceiptStatuses, ordered : Lines, received : Lines,
            events : Seq([key : ReceiptKeys \cup {NoKey}, accepted : Lines])]
Deal == [items : Baskets, totalAmount : Totals, stage : {"OPEN", "WON", "LOST"},
         installationRequired : Installations, supervisorConfirmed : BOOLEAN,
         installationCompleted : BOOLEAN, completed : BOOLEAN]

Pass == [open : BOOLEAN, batch : SUBSET Deals]

NoLines == [p \in Products |-> 0]
NoPass == [open |-> FALSE, batch |-> {}]
Wanted(d) == {p \in Products : deals[d].items[p] > 0}

-----------------------------------------------------------------------------
\* The active quantity of a reservation row, of an order, of all orders.
ActiveQuantity(row) == IF row.status = "ACTIVE" THEN row.quantity ELSE 0

ActiveQuantities(rows) == [k \in DOMAIN rows |-> ActiveQuantity(rows[k])]

HeldOf(rows) == SumSeq(ActiveQuantities(rows))

Held(d, p) == HeldOf(reservations[d][p])

TotalHeld(p) == SumUpTo([d \in Deals |-> Held(d, p)], NumDeals)

\* Faulty variant: the conditional update without its condition.
ReserveUnchecked(d, available, taken) == taken = Wanted(d)

\* reserveStock asks, product after product, for the whole quantity of an
\* order; the database refuses a product whose available quantity is too
\* small and the call stops there.  What was reserved before that stays when
\* the caller catches the error inside its transaction.  The order in which
\* the lines are visited is not specified, so any of the products that fit
\* may come before the first one that does not.
ReserveStock(d, available, taken) ==
  LET fits == {p \in Wanted(d) : available[p] >= deals[d].items[p]}
  IN  IF fits = Wanted(d) THEN taken = fits ELSE taken \subseteq fits

\* Quantity of p reserved when every order d gets the products in taken[d].
TakenOf(taken, p) ==
  SumUpTo([d \in Deals |-> IF p \in taken[d] THEN deals[d].items[p] ELSE 0], NumDeals)

ReserveBalance(bal, taken) ==
  [p \in Products |-> [bal[p] EXCEPT !.reserved  = @ + TakenOf(taken, p),
                                     !.available = @ - TakenOf(taken, p)]]

ReserveRows(taken) ==
  [d \in Deals |-> [p \in Products |->
     IF p \in taken[d]
     THEN Append(reservations[d][p],
                 [quantity |-> deals[d].items[p], age |-> 0, status |-> "ACTIVE"])
     ELSE reservations[d][p]]]

\* releaseReservation: every ACTIVE row of the order goes back to stock.
ReleaseBalance(d) ==
  [p \in Products |-> [balance[p] EXCEPT !.reserved  = @ - Held(d, p),
                                         !.available = @ + Held(d, p)]]

\* Faulty variant: the balance is corrected and the rows stay ACTIVE.
ReleaseForgotten(rows) == rows

ReleaseRows(rows) ==
  [k \in DOMAIN rows |->
     IF rows[k].status = "ACTIVE" THEN [rows[k] EXCEPT !.status = "RELEASED"]
                                  ELSE rows[k]]

ReleaseReservation(d) ==
  /\ balance' = ReleaseBalance(d)
  /\ reservations' = [reservations EXCEPT ![d] =
                        [p \in Products |-> ReleaseRows(reservations[d][p])]]

\* commitReservation consumes the oldest ACTIVE rows first: row k gives what
\* the rows before it left open.
Consumed(rows, quantity, k) ==
  LET before == SumUpTo(ActiveQuantities(rows), k - 1)
  IN  IF before >= quantity THEN 0
      ELSE AtMost(ActiveQuantity(rows[k]), quantity - before)

ConsumeRows(rows, quantity) ==
  [k \in DOMAIN rows |->
     LET taken == Consumed(rows, quantity, k)
     IN  IF taken = 0 THEN rows[k]
         ELSE IF taken = rows[k].quantity
              THEN [rows[k] EXCEPT !.status = "FULFILLED"]
              ELSE [rows[k] EXCEPT !.quantity = @ - taken]]

CommitReservation(d, quantity) ==
  /\ \A p \in Products :
       quantity[p] > 0 => /\ Held(d, p) >= quantity[p]
                          /\ balance[p].onHand >= quantity[p]
                          /\ balance[p].reserved >= quantity[p]
  /\ balance' = [p \in Products |->
                   [balance[p] EXCEPT !.onHand   = @ - quantity[p],
                                      !.reserved = @ - quantity[p]]]
  /\ reservations' = [reservations EXCEPT ![d] =
                        [p \in Products |-> ConsumeRows(reservations[d][p], quantity[p])]]

-----------------------------------------------------------------------------
\* tryFinalize, on the deal and the order as this transaction has left them.
Snapshot(deal, order) ==
  [stage                   |-> deal.stage,
   completed               |-> deal.completed,
   paymentStatus           |-> order.paymentStatus,
   fulfillmentSource       |-> "WAREHOUSE_STOCK",
   orderStatus             |-> order.status,
   supplierOrderStatuses   |-> {},
   installationRequired    |-> deal.installationRequired,
   supervisorConfirmed     |-> deal.supervisorConfirmed,
   installationCompleted   |-> deal.installationCompleted]

FinalizedDeal(deal, order) ==
  LET snap == Snapshot(deal, order)
  IN  [deal EXCEPT !.installationCompleted = @ \/ canCompleteInstallation(snap),
                   !.completed             = @ \/ canCompleteDeal(snap)]

FinalizedOrder(deal, order) ==
  IF canCompleteDeal(Snapshot(deal, order)) /\ order.status \notin {"CANCELLED", "COMPLETED"}
  THEN [order EXCEPT !.status = "COMPLETED"]
  ELSE order

\* The transaction leaves deal d as deal and order d as order, then finalizes.
TryFinalize(d, deal, order) ==
  /\ deals' = [deals EXCEPT ![d] = FinalizedDeal(deal, order)]
  /\ orders' = [orders EXCEPT ![d] = FinalizedOrder(deal, order)]

-----------------------------------------------------------------------------
NoOrder == [status |-> "NONE", createdAt |-> 0, age |-> 0,
            reservedQuantity |-> NoLines, delivered |-> NoLines,
            paidAmount |-> 0, remainingAmount |-> 0,
            paymentStatus |-> "UNPAID", closedBy |-> "nobody", late |-> FALSE]

NoReceipt == [status |-> "NONE", ordered |-> NoLines, received |-> NoLines, events |-> <<>>]

Init ==
  /\ balance = [p \in Products |-> [onHand    |-> InitialStock[p],
                                    reserved  |-> 0,
                                    available |-> InitialStock[p]]]
  /\ reservations = [d \in Deals |-> [p \in Products |-> <<>>]]
  /\ orders = [d \in Deals |-> NoOrder]
  /\ payments = [d \in Deals |-> <<>>]
  /\ receipts = [r \in Receipts |-> NoReceipt]
  /\ deals \in [Deals -> [items : Baskets, totalAmount : Totals, stage : Stages,
                          installationRequired : Installations,
                          supervisorConfirmed : {FALSE},
                          installationCompleted : {FALSE}, completed : {FALSE}]]
  /\ expired = [d \in Deals |-> [p \in Products |-> {}]]
  /\ passes = [r \in Receipts |-> NoPass]

-----------------------------------------------------------------------------
\* Orders.

\* The new row of order d when taken was reserved for it.  createdAt is the
\* position of the order in the sequence of creations.
NewOrder(d, taken) ==
  [NoOrder EXCEPT
     !.status = IF taken = Wanted(d) THEN "WAITING_PAYMENT" ELSE "WAITING_STOCK",
     !.createdAt = 1 + Cardinality({e \in Deals : orders[e].status # "NONE"}),
     !.reservedQuantity = IF taken = Wanted(d) THEN deals[d].items ELSE NoLines,
     !.remainingAmount = deals[d].totalAmount]

OnlyFor(d, products) == [e \in Deals |-> IF e = d THEN products ELSE {}]

Available(bal) == [p \in Products |-> bal[p].available]

CreateOrder(d, taken) ==
  /\ balance' = ReserveBalance(balance, OnlyFor(d, taken))
  /\ reservations' = ReserveRows(OnlyFor(d, taken))
  /\ orders' = [orders EXCEPT ![d] = NewOrder(d, taken)]
  /\ UNCHANGED <<payments, receipts, deals, expired, passes>>

\* The order is kept in WAITING_STOCK when stock does not suffice.
CreateFromDeal(d) ==
  /\ orders[d].status = "NONE"
  /\ Wanted(d) # {}
  /\ deals[d].stage = "WON"
  /\ \E taken \in SUBSET Wanted(d) :
       /\ ReserveStock(d, Available(balance), taken)
       /\ CreateOrder(d, taken)

\* QuotesService.convertToDeal of a stock-only quote: the deal may be at any
\* stage, and a shortage aborts the whole transaction.
ConvertStockOnlyQuote(d) ==
  /\ orders[d].status = "NONE"
  /\ Wanted(d) # {}
  /\ ReserveStock(d, Available(balance), Wanted(d))
  /\ CreateOrder(d, Wanted(d))

\* Faulty variant: trusts that nothing is reserved in WAITING_STOCK.
CancelWithoutRelease(d) ==
  /\ orders[d].status \notin TerminalStatuses \cup {"NONE"}
  /\ IF orders[d].status = "WAITING_STOCK" THEN UNCHANGED <<balance, reservations>>
                                           ELSE ReleaseReservation(d)
  /\ orders' = [orders EXCEPT ![d].status = "CANCELLED", ![d].closedBy = "user"]
  /\ UNCHANGED <<payments, receipts, deals, expired, passes>>

CancelOrder(d) ==
  /\ orders[d].status \notin TerminalStatuses \cup {"NONE"}
  /\ ReleaseReservation(d)
  /\ orders' = [orders EXCEPT ![d].status = "CANCELLED", ![d].closedBy = "user"]
  /\ UNCHANGED <<payments, receipts, deals, expired, passes>>

\* ReserveTtlTask, hourly: an order still waiting for payment three days after it
\* was created is cancelled and its goods go back.
CancelExpiredWaitingPayment(d) ==
  /\ orders[d].status = "WAITING_PAYMENT"
  /\ orders[d].age = ReservationTtl
  /\ ReleaseReservation(d)
  /\ orders' = [orders EXCEPT ![d].status = "CANCELLED", ![d].closedBy = "ttl"]
  /\ UNCHANGED <<payments, receipts, deals, expired, passes>>

\* Faulty variants: the guard forgets the partially shipped orders, or all.
ExpiredUnlessFinal(order) ==
  IF order.status \in FinalStatuses THEN order ELSE [order EXCEPT !.status = "WAITING_STOCK"]
ExpiredAlways(order) == [order EXCEPT !.status = "WAITING_STOCK"]

\* An order whose last active reservation expired waits for stock again.
ExpiredOrder(order) ==
  IF order.status \in TerminalStatuses THEN order ELSE [order EXCEPT !.status = "WAITING_STOCK"]

\* Faulty variant: only rows of orders that still wait for payment are listed.
DueUnpaid(d, p) ==
  {k \in DOMAIN reservations[d][p] : /\ reservations[d][p][k].status = "ACTIVE"
                                     /\ reservations[d][p][k].age = ReservationTtl
                                     /\ orders[d].status = "WAITING_PAYMENT"}

\* The release job lists the active rows that are three days old ...
Due(d, p) ==
  {k \in DOMAIN reservations[d][p] : /\ reservations[d][p][k].status = "ACTIVE"
                                     /\ reservations[d][p][k].age = ReservationTtl}

ListExpired ==
  /\ expired' = [d \in Deals |-> [p \in Products |->
       expired[d][p] \cup {<<k, reservations[d][p][k].quantity>> : k \in Due(d, p)}]]
  /\ UNCHANGED <<balance, reservations, orders, payments, receipts, deals, passes>>

\* ... and gives each back in a transaction of its own: the quantity that was
\* listed, if the row is still active.  The order goes back to WAITING_STOCK
\* with its last active row.
ReleaseExpired(d, p, k, quantity) ==
  LET last == \A q \in Products : \A j \in DOMAIN reservations[d][q] :
                reservations[d][q][j].status = "ACTIVE" => <<q, j>> = <<p, k>>
  IN  /\ reservations[d][p][k].status = "ACTIVE"
      /\ balance' = [balance EXCEPT ![p].reserved  = @ - quantity,
                                    ![p].available = @ + quantity]
      /\ reservations' = [reservations EXCEPT ![d][p][k].status = "RELEASED"]
      /\ orders' = IF last THEN [orders EXCEPT ![d] = ExpiredOrder(@)] ELSE orders

HandleExpired(d, p) ==
  \E entry \in expired[d][p] :
    /\ expired' = [expired EXCEPT ![d][p] = @ \ {entry}]
    /\ \/ ReleaseExpired(d, p, entry[1], entry[2])
       \/ /\ reservations[d][p][entry[1]].status # "ACTIVE"
          /\ UNCHANGED <<balance, reservations, orders>>
    /\ UNCHANGED <<payments, receipts, deals, passes>>

-----------------------------------------------------------------------------
\* Payments.

AddPayment(d) ==
  /\ orders[d].status \notin FinalStatuses \cup {"NONE"}
  /\ Len(payments[d]) < MaxPayments
  /\ \E amount \in PaymentAmounts, u \in Recorders :
       payments' = [payments EXCEPT ![d] =
         Append(@, [amount |-> amount, createdBy |-> u, status |-> "PENDING"])]
  /\ UNCHANGED <<balance, reservations, orders, receipts, deals, expired, passes>>

ConfirmedTotal(rows) ==
  SumSeq([k \in DOMAIN rows |-> IF rows[k].status = "CONFIRMED" THEN rows[k].amount ELSE 0])

calculatePaymentStatus(paid, total) ==
  IF paid <= 0 THEN "UNPAID" ELSE IF paid >= total THEN "PAID" ELSE "PARTIALLY_PAID"

Paid(order, paid, total) ==
  [order EXCEPT !.paidAmount      = paid,
                !.remainingAmount = IF paid > total THEN 0 ELSE total - paid,
                !.paymentStatus   = calculatePaymentStatus(paid, total)]

\* Maker-checker: an accountant decides on a PENDING payment another user
\* recorded; what is paid is computed anew from the CONFIRMED rows.
ConfirmPayment(d, k, verdict) ==
  LET rows  == [payments[d] EXCEPT ![k].status = verdict]
      paid  == ConfirmedTotal(rows)
      total == deals[d].totalAmount
      order == Paid(orders[d], paid, total)
  IN  /\ payments[d][k].status = "PENDING"
      /\ \E u \in Accountants : u # payments[d][k].createdBy
      /\ orders[d].status # "CANCELLED"
      /\ verdict = "CONFIRMED" => paid <= total
      /\ payments' = [payments EXCEPT ![d] = rows]
      /\ IF order.paymentStatus = "PAID"
         THEN TryFinalize(d, deals[d], order)
         ELSE /\ orders' = [orders EXCEPT ![d] = order]
              /\ UNCHANGED deals
      /\ UNCHANGED <<balance, reservations, receipts, expired, passes>>

-----------------------------------------------------------------------------
\* Deliveries.

ShipmentStatus(order, items) ==
  IF \A p \in Products : order.delivered[p] >= items[p] THEN "SHIPPED"
  ELSE IF \E p \in Products : order.delivered[p] > 0 THEN "PARTIALLY_SHIPPED"
  ELSE order.status

\* quantity: what is delivered of each line now.  (A delivery without lines
\* changes nothing modelled here.)
CreateDelivery(d, quantity) ==
  LET delivered == [p \in Products |-> orders[d].delivered[p] + quantity[p]]
      moved     == [orders[d] EXCEPT !.delivered = delivered]
      shipped   == [moved EXCEPT !.status = ShipmentStatus(moved, deals[d].items)]
  IN  /\ orders[d].status \notin FinalStatuses \cup {"NONE"}
      /\ orders[d].paymentStatus = "PAID"
      /\ \E p \in Products : quantity[p] > 0
      /\ \A p \in Products : delivered[p] <= deals[d].items[p]
      /\ CommitReservation(d, quantity)
      /\ TryFinalize(d, deals[d], shipped)
      /\ UNCHANGED <<payments, receipts, expired, passes>>

-----------------------------------------------------------------------------
\* Warehouse purchases.

calculateReceiptStatus(ordered, received) ==
  LET items == {p \in Products : ordered[p] > 0}
  IN  IF \A p \in items : received[p] >= ordered[p] THEN "RECEIVED"
      ELSE IF \E p \in items : received[p] > 0 THEN "PARTIALLY_RECEIVED"
      ELSE "PENDING"

CreateExpectedReceipt(r) ==
  /\ receipts[r].status = "NONE"
  /\ \E ordered \in PurchaseBaskets :
       /\ ordered # NoLines
       /\ receipts' = [receipts EXCEPT ![r].status = "PENDING", ![r].ordered = ordered]
  /\ UNCHANGED <<balance, reservations, orders, payments, deals, expired, passes>>

\* Ordered quantities stay positive and at least what was received.
UpdateWarehousePurchase(r) ==
  /\ receipts[r].status \notin {"NONE", "CANCELLED"}
  /\ \E ordered \in PurchaseBaskets :
       /\ \A p \in Products : /\ ordered[p] >= receipts[r].received[p]
                              /\ (ordered[p] > 0) <=> (receipts[r].ordered[p] > 0)
       /\ receipts' = [receipts EXCEPT
            ![r].ordered = ordered,
            ![r].status = calculateReceiptStatus(ordered, receipts[r].received)]
  /\ UNCHANGED <<balance, reservations, orders, payments, deals, expired, passes>>

CancelWarehousePurchase(r) ==
  /\ receipts[r].status \notin {"NONE", "CANCELLED"}
  /\ \A p \in Products : receipts[r].received[p] = 0
  /\ receipts' = [receipts EXCEPT ![r].status = "CANCELLED"]
  /\ UNCHANGED <<balance, reservations, orders, payments, deals, expired, passes>>

\* applyReceiptQuantity: accepted goods become available.
ReceiveBalance(accepted) ==
  [p \in Products |-> [balance[p] EXCEPT !.onHand    = @ + accepted[p],
                                         !.available = @ + accepted[p]]]

\* processWaitingOrders lists the BatchSize oldest waiting orders ...
Waiting == {d \in Deals : orders[d].status = "WAITING_STOCK"}
Older(d) == {e \in Deals : orders[e].createdAt < orders[d].createdAt}
WaitingBatch == {d \in Waiting : Cardinality(Older(d) \cap Waiting) < BatchSize}

\* The purchase is locked, so there is one receipt of it at a time.
ListWaiting(r) ==
  /\ receipts[r].status \notin {"NONE", "CANCELLED"}
  /\ ~passes[r].open
  /\ passes' = [passes EXCEPT ![r] = [open |-> TRUE, batch |-> WaitingBatch]]
  /\ UNCHANGED <<balance, reservations, orders, payments, receipts, deals, expired>>

\* Faulty variant: the newest order comes first.
LeftForNewestFirst(d, bal, taken) ==
  [p \in Products |->
     bal[p].available - TakenOf([e \in Deals |-> IF d \in Older(e) THEN taken[e] ELSE {}], p)]

\* ... and serves them oldest first.  taken[d] is what order d gets, out of
\* what the older orders of the batch leave of the balances bal.
LeftFor(d, bal, taken) ==
  [p \in Products |->
     bal[p].available - TakenOf([e \in Deals |-> IF e \in Older(d) THEN taken[e] ELSE {}], p)]

ProcessWaitingOrders(batch, bal, taken) ==
  \A d \in Deals :
    IF d \in batch THEN ReserveStock(d, LeftFor(d, bal, taken), taken[d])
                   ELSE taken[d] = {}

\* An order that got all its goods is written by its id, whatever it has become
\* since it was listed.
ServedOrder(d, taken) ==
  [orders[d] EXCEPT
     !.status = IF taken = Wanted(d) THEN "WAITING_PAYMENT" ELSE @,
     !.reservedQuantity = IF taken = Wanted(d) THEN deals[d].items ELSE @,
     !.late = @ \/ (taken # {} /\ orders[d].status # "WAITING_STOCK")]

\* Faulty variant: keys are not looked up.
AnyKey(r, key) == receipts[r].status # "NONE"

\* A repeated key answers with the recorded state and changes nothing, so it
\* is not a step.
FreshKey(r, key) ==
  key = NoKey \/ \A i \in DOMAIN receipts[r].events : receipts[r].events[i].key # key

\* A receipt event for purchase r, and the listed orders it lets through.
ProcessReceipt(r, key, accepted) ==
  LET received == [p \in Products |-> receipts[r].received[p] + accepted[p]]
      bal      == ReceiveBalance(accepted)
      batch    == passes[r].batch
  IN  /\ receipts[r].status \notin {"NONE", "CANCELLED"}
      /\ passes[r].open
      /\ FreshKey(r, key)
      /\ \E p \in Products : accepted[p] > 0
      /\ \A p \in Products : received[p] <= receipts[r].ordered[p]
      /\ receipts' = [receipts EXCEPT
           ![r].received = received,
           ![r].status = calculateReceiptStatus(receipts[r].ordered, received),
           ![r].events = Append(@, [key |-> key, accepted |-> accepted])]
      /\ passes' = [passes EXCEPT ![r] = NoPass]
      /\ \E taken \in [Deals -> SUBSET Products] :
           /\ ProcessWaitingOrders(batch, bal, taken)
           /\ balance' = ReserveBalance(bal, taken)
           /\ reservations' = ReserveRows(taken)
           /\ orders' = [d \in Deals |->
                IF d \in batch THEN ServedOrder(d, taken[d]) ELSE orders[d]]
      /\ UNCHANGED <<payments, deals, expired>>

-----------------------------------------------------------------------------
\* The deal around the order.

\* DealInstallationService.confirmSupervisor; repeating it finalizes again.
ConfirmSupervisor(d) ==
  /\ deals[d].installationRequired = "yes"
  /\ TryFinalize(d, [deals[d] EXCEPT !.supervisorConfirmed = TRUE], orders[d])
  /\ UNCHANGED <<balance, reservations, payments, receipts, expired, passes>>

\* DealsService.changeStage and DealLossService.lose: neither finalizes.
ChangeStage(d, stage) ==
  /\ <<deals[d].stage, stage>> \in StageMoves
  /\ deals' = [deals EXCEPT ![d].stage = stage]
  /\ UNCHANGED <<balance, reservations, orders, payments, receipts, expired, passes>>

\* Time passes for the orders and reservations whose age is still read.
Aged(age) == IF age < ReservationTtl THEN age + 1 ELSE age

AgedRows(rows) ==
  [k \in DOMAIN rows |->
     IF rows[k].status = "ACTIVE" THEN [rows[k] EXCEPT !.age = Aged(@)] ELSE rows[k]]

Tick ==
  /\ orders' = [d \in Deals |->
       IF orders[d].status \in {"WAITING_PAYMENT", "WAITING_STOCK"}
       THEN [orders[d] EXCEPT !.age = Aged(@)] ELSE orders[d]]
  /\ reservations' = [d \in Deals |-> [p \in Products |-> AgedRows(reservations[d][p])]]
  /\ UNCHANGED <<balance, payments, receipts, deals, expired, passes>>

-----------------------------------------------------------------------------
\* The quantities that may be asked of a basket: no more of a product than
\* the basket has, as the handlers refuse more.
Parts(basket) ==
  {q \in [Products -> UNION {0..basket[p] : p \in Products}] :
     \A p \in Products : q[p] <= basket[p]}

OrderStep(d) ==
  \/ CreateFromDeal(d)
  \/ ConvertStockOnlyQuote(d)
  \/ CancelOrder(d)
  \/ CancelExpiredWaitingPayment(d)
  \/ \E p \in Products : HandleExpired(d, p)
  \/ AddPayment(d)
  \/ \E k \in DOMAIN payments[d], verdict \in {"CONFIRMED", "REJECTED"} :
       ConfirmPayment(d, k, verdict)
  \/ \E quantity \in Parts(deals[d].items) : CreateDelivery(d, quantity)
  \/ ConfirmSupervisor(d)
  \/ \E stage \in {"OPEN", "WON", "LOST"} : ChangeStage(d, stage)

ReceiptStep(r) ==
  \/ CreateExpectedReceipt(r)
  \/ UpdateWarehousePurchase(r)
  \/ CancelWarehousePurchase(r)
  \/ ListWaiting(r)
  \/ \E key \in ReceiptKeys \cup {NoKey}, accepted \in Parts(receipts[r].ordered) :
       ProcessReceipt(r, key, accepted)

Next ==
  \/ \E d \in Deals : OrderStep(d)
  \/ \E r \in Receipts : ReceiptStep(r)
  \/ ListExpired
  \/ Tick

Spec == Init /\ [][Next]_vars

-----------------------------------------------------------------------------
\* Properties.

\* Every row stays in its domain.  In particular what is on hand and what is
\* available never drop below zero; what is reserved may, as the release job
\* gives back the quantity it listed.
TypeOK ==
  /\ balance \in [Products -> Balance]
  /\ reservations \in [Deals -> [Products -> Seq(Reservation)]]
  /\ orders \in [Deals -> Order]
  /\ payments \in [Deals -> Seq(Payment)]
  /\ receipts \in [Receipts -> Receipt]
  /\ deals \in [Deals -> Deal]
  /\ expired \in [Deals -> [Products -> SUBSET (Nat \X Nat)]]
  /\ passes \in [Receipts -> Pass]

\* Something of product p is three days old: one of the cron jobs may have to
\* do with it.
Overdue(p) ==
  \E d \in Deals :
    \/ deals[d].items[p] > 0 /\ orders[d].age = ReservationTtl
    \/ \E k \in DOMAIN reservations[d][p] : reservations[d][p][k].age = ReservationTtl

\* The stock ledger adds up: available is what is on hand and not reserved, the
\* reserved quantity of a product is never more than what the active
\* reservations of all orders hold of it, and, as long as the cron jobs have
\* nothing to do with the product, exactly that, whatever was reserved,
\* released, consumed or topped up in between.  (It may be less once the release
\* job has given back goods that a delivery took after they were listed.)
LedgerBalanced ==
  \A p \in Products :
    /\ balance[p].available = balance[p].onHand - balance[p].reserved
    /\ balance[p].reserved <= TotalHeld(p)
    /\ ~Overdue(p) => balance[p].reserved = TotalHeld(p)

\* Goods are neither made nor lost: what is on hand and what was delivered to
\* clients is what was there at the start and what the purchases brought in.
StockConserved ==
  \A p \in Products :
    balance[p].onHand + SumUpTo([d \in Deals |-> orders[d].delivered[p]], NumDeals)
      = InitialStock[p] + SumUpTo([r \in Receipts |-> receipts[r].received[p]], NumReceipts)

\* An order that was cancelled, by a user or by the hourly job, keeps no goods
\* and got none, and neither does one that was never created.  Only a receipt
\* that had listed the order before can have set goods aside for it since.
CancelledHoldsNothing ==
  \A d \in Deals :
    orders[d].status \in {"NONE", "CANCELLED"} /\ ~orders[d].late =>
      \A p \in Products : Held(d, p) = 0 /\ orders[d].delivered[p] = 0

\* The paid amount is the sum of the confirmed payments and never exceeds the
\* total; an order is PAID exactly when they cover it; and nothing leaves the
\* warehouse before that.
PaymentsReconcile ==
  \A d \in Deals : orders[d].status # "NONE" =>
    /\ orders[d].paidAmount = ConfirmedTotal(payments[d])
    /\ orders[d].paidAmount + orders[d].remainingAmount = deals[d].totalAmount
    /\ orders[d].paymentStatus = "PAID"
         <=> orders[d].paidAmount > 0 /\ orders[d].remainingAmount = 0
    /\ (\E p \in Products : orders[d].delivered[p] > 0) => orders[d].paymentStatus = "PAID"

FullyDelivered(d) == \A p \in Products : orders[d].delivered[p] = deals[d].items[p]
NothingDelivered(d) == \A p \in Products : orders[d].delivered[p] = 0

\* The status of an order tells what left the warehouse: all of it, some of it
\* or none.  Cron jobs and receipts rewrite the status as well, but only a
\* receipt that served an order which no longer waited can make it say less.
ShipmentStatusFaithful ==
  \A d \in Deals : orders[d].status # "NONE" =>
    /\ \A p \in Products : orders[d].delivered[p] <= deals[d].items[p]
    /\ orders[d].status \in {"SHIPPED", "COMPLETED"} => FullyDelivered(d)
    /\ orders[d].status = "PARTIALLY_SHIPPED" => ~FullyDelivered(d) /\ ~NothingDelivered(d)
    /\ orders[d].status \in {"WAITING_PAYMENT", "WAITING_STOCK", "CANCELLED"} =>
         NothingDelivered(d) \/ orders[d].late

\* An order's row tells the truth about what was paid and what was shipped.
OrderFaithful == PaymentsReconcile /\ ShipmentStatusFaithful

\* What a purchase has received is the sum of its receipt events, never more
\* than was ordered; no key is counted twice; a cancelled purchase brought
\* nothing in; and its status follows from the quantities.
ReceiptsFaithful ==
  \A r \in Receipts : LET receipt == receipts[r] IN
    /\ \A p \in Products :
         /\ receipt.received[p] = SumSeq([i \in DOMAIN receipt.events |->
                                             receipt.events[i].accepted[p]])
         /\ receipt.received[p] <= receipt.ordered[p]
    /\ \A i, j \in DOMAIN receipt.events :
         receipt.events[i].key = receipt.events[j].key /\ receipt.events[i].key # NoKey
           => i = j
    /\ receipt.status = "CANCELLED" => receipt.events = <<>>
    /\ receipt.status \notin {"NONE", "CANCELLED"} =>
         receipt.status = calculateReceiptStatus(receipt.ordered, receipt.received)

\* What purchases brought in is counted once, in the purchase and in the stock.
GoodsFaithful == ReceiptsFaithful /\ StockConserved

\* A completed deal is settled: the client paid everything and got everything,
\* a required installation was confirmed by a supervisor, and the order is
\* COMPLETED with it (until a receipt overwrites that) and never without it.
CompletedMeansSettled ==
  \A d \in Deals :
    /\ orders[d].status = "COMPLETED" => deals[d].completed
    /\ deals[d].completed => orders[d].status = "COMPLETED" \/ orders[d].late
    /\ deals[d].installationCompleted => deals[d].supervisorConfirmed
    /\ deals[d].completed =>
         /\ orders[d].paymentStatus = "PAID"
         /\ FullyDelivered(d)
         /\ deals[d].installationRequired = "yes" => deals[d].installationCompleted
         /\ deals[d].installationRequired # "null"

\* An order that waits for payment only has all its goods set aside, except
\* for those whose reservation has expired since.
PromisedGoodsHeld ==
  \A d \in Deals : orders[d].status = "WAITING_PAYMENT" =>
    \A p \in Products :
      \/ Held(d, p) >= deals[d].items[p]
      \/ \E k \in DOMAIN reservations[d][p] : reservations[d][p][k].status = "RELEASED"

\* What an order holds is what its status promises, at both ends of its life.
OrdersHoldGoods == CancelledHoldsNothing /\ PromisedGoodsHeld

\* What may become of an order: a cancelled or completed one stays what it is,
\* a shipped one can only be completed, and a partially shipped one never goes
\* back to waiting.
LaterStatuses(status) ==
  CASE status = "NONE" -> OrderStatuses
    [] status \in {"WAITING_PAYMENT", "WAITING_STOCK"} -> OrderStatuses \ {"NONE"}
    [] status = "PARTIALLY_SHIPPED" -> {"PARTIALLY_SHIPPED", "SHIPPED", "COMPLETED"}
    [] status = "SHIPPED" -> {"SHIPPED", "COMPLETED"}
    [] OTHER -> {status}

\* Final statuses are final for users, cron jobs, payments and deliveries.  The
\* one step that goes back is a receipt that has listed the order while it
\* waited: it sets all goods of the order aside once more and lets it wait for
\* its payment, cancelled or shipped as it may be by then.
FinalStaysFinal ==
  [][\A d \in Deals :
       \/ orders'[d].status \in LaterStatuses(orders[d].status)
       \/ /\ \E r \in Receipts : d \in passes[r].batch /\ receipts'[r].events # receipts[r].events
          /\ orders'[d].status = "WAITING_PAYMENT"
          /\ \A p \in Products : Held(d, p)' = Held(d, p) + deals[d].items[p]]_vars

\* A receipt event serves every order it has listed if it can, the oldest first:
\* an order is left as it was only if a product is short for it, counting as
\* there what the pass has given to orders created after it.
ReceiptServesWaiting ==
  [][\A r \in Receipts : receipts'[r].events # receipts[r].events =>
       \A d \in passes[r].batch :
         \/ orders'[d].status = "WAITING_PAYMENT"
         \/ \E p \in Products :
              balance'[p].available
                + SumUpTo([e \in Deals |-> IF d \in Older(e) THEN Held(e, p)' - Held(e, p) ELSE 0],
                          NumDeals) < deals[d].items[p]]_vars

\* Liveness.  Time passes, the release job runs again and again, and both cron
\* jobs handle each row in a transaction of its own, caught and logged on its own.
Fairness ==
  /\ WF_vars(Tick)
  /\ WF_vars(ListExpired)
  /\ \A d \in Deals :
       /\ WF_vars(CancelExpiredWaitingPayment(d))
       /\ \A p \in Products : WF_vars(HandleExpired(d, p))

LiveSpec == Spec /\ Fairness

\* Goods set aside for an order do not stay so for ever: every reservation is
\* consumed, given back by a user, or given back by a cron job.
EveryReservationEnds ==
  \A d \in Deals, p \in Products : []<>(Held(d, p) = 0)

-----------------------------------------------------------------------------
\* What comments and tests say of the code and the code does not do.

\* InventoryService: the three days are those of a reservation without payment.
PaidOrderNotAutoCancelled ==
  \A d \in Deals : orders[d].closedBy = "ttl" => orders[d].paymentStatus # "PAID"

\* deal-completion.rules.spec.ts: a won, paid and delivered deal is completed
\* when the supervisor confirms the installation.
ConfirmedDealCompletes ==
  \A d \in Deals :
    /\ deals[d].stage = "WON"
    /\ deals[d].installationRequired = "yes"
    /\ deals[d].supervisorConfirmed
    /\ orders[d].paymentStatus = "PAID"
    /\ orders[d].status \in {"SHIPPED", "COMPLETED"}
    => deals[d].completed
=============================================================================
