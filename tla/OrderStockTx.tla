---------------------------- MODULE OrderStockTx ----------------------------
(***************************************************************************)
(* The handlers of OrderStock statement by statement: what happens when     *)
(* several requests and cron jobs run their database transactions at once.  *)
(*                                                                          *)
(* PostgreSQL runs them under READ COMMITTED, Prisma's default: a read sees *)
(* the last committed value of a row, or the transaction's own write; an    *)
(* update waits until no other transaction has written the row, and then    *)
(* decides its WHERE clause on the row as it is by then.  Statements on     *)
(* rows that the transaction has already written cannot interleave with     *)
(* anybody and are joined to the statement before them.  A reservation row  *)
(* is written right after the balance of its product, by everyone, so it    *)
(* never waits on a lock of its own.                                        *)
(*                                                                          *)
(* Every deal is won, buys from stock and has at most one order, so deals   *)
(* and orders have the same numbers.  Every product is bought with a        *)
(* warehouse purchase of its own, so receipts of different products overlap *)
(* and those of one product wait for each other.                            *)
(***************************************************************************)
EXTENDS Sums, DealCompletion

CONSTANTS
  Products,
  NumOrders,        \* orders are 1..NumOrders
  TotalAmount,      \* the total of an order
  NumPayments,      \* payments of an order, each of one unit of money
  Sessions,         \* requests and jobs that run at the same time
  ReceiptQuantity,  \* units a receipt brings
  MaxQuantity,      \* bound: units of a line that a delivery asks for
                    \* (a delivery of more than the order has is left out)
  MaxCalls,         \* bound: handlers started
  NumRows,          \* bound: reservation rows of an order and product
  Scenarios         \* bound: what runs together; the handlers, items[d][p] (the
                    \* quantity of p on the lines of order d), the stock on hand and
                    \* the statuses of orders and payments at the start, and the
                    \* installationRequiredSnapshot of the deals

Orders == 1..NumOrders
Rows == Orders \X Products \X (1..NumRows)   \* numbered oldest first
Payments == Orders \X (1..NumPayments)

ASSUME SizesAssumption ==
  /\ NumOrders \in Nat /\ NumRows \in Nat \ {0} /\ NumPayments \in Nat /\ TotalAmount \in Nat
  /\ MaxQuantity \in Nat /\ ReceiptQuantity \in Nat \ {0}
  /\ \A c \in Scenarios :
       /\ c.items \in [Orders -> [Products -> Nat]]
       /\ c.stock \in [Products -> Nat]
       /\ c.orders \subseteq {"NONE", "WAITING_PAYMENT", "WAITING_STOCK"}
       /\ c.payments \subseteq {"PENDING", "CONFIRMED"}
       /\ c.recorded \in 0..NumPayments

VARIABLES
  db,      \* the committed value of every row
  mine,    \* mine[s]: the rows that the open transaction of s has written
  call,    \* call[s]: what s is doing
  calls,   \* handlers started so far
  scenario \* the bounds of this behaviour

vars == <<db, mine, call, calls, scenario>>

-----------------------------------------------------------------------------
\* Rows of the database.
BalanceRow(p) == <<"balance", p>>
OrderRow(d) == <<"order", d>>
DealRow(d) == <<"deal", d>>
PaymentRow(k) == <<"payment", k>>
ReservationRow(k) == <<"reservation", k>>
ReceiptRow(p) == <<"receipt", p>>

\* A row with a new value, several of them, and none.
Row(r, value) == [x \in {r} |-> value]
Over(new, old) == [r \in DOMAIN new \cup DOMAIN old |-> IF r \in DOMAIN new THEN new[r] ELSE old[r]]
Nothing == [r \in {} |-> 0]

\* What a statement of s reads in row r, and whether it may write r now.
Read(s, r) == IF r \in DOMAIN mine[s] THEN mine[s][r] ELSE db[r]
Free(s, r) == \A t \in Sessions \ {s} : r \notin DOMAIN mine[t]

\* Statements of s: the rows a statement writes, what s keeps in memory, and
\* the statement that follows.
Write(s, new) == mine' = [mine EXCEPT ![s] = Over(new, @)]
Keep(s, c) == call' = [call EXCEPT ![s] = c]
Go(s, step) == Keep(s, [call[s] EXCEPT !.step = step])

Idle == [handler |-> "none", order |-> 0, step |-> "idle", version |-> 0, seen |-> 0,
         products |-> {}, product |-> "none", rows |-> Nothing, row |-> <<>>,
         quantity |-> [p \in Products |-> 0], locks |-> <<>>, cached |-> "none",
         waiting |-> {}, payment |-> <<>>, verdict |-> "none"]

At(s, step) == call[s].step = step

\* The transaction of s ends: with its writes, or, on an exception, without.
End(s) ==
  /\ mine' = [mine EXCEPT ![s] = Nothing]
  /\ Keep(s, Idle)
  /\ UNCHANGED <<calls, scenario>>

Commit(s) == At(s, "commit") /\ db' = Over(mine[s], db) /\ End(s)

Rollback(s) == End(s) /\ UNCHANGED db

\* s starts a handler: its first reads, and what it writes at once.
Start(s, c) ==
  /\ At(s, "idle")
  /\ calls < MaxCalls
  /\ c.handler \in scenario.handlers
  /\ calls' = calls + 1
  /\ Keep(s, c)
  /\ UNCHANGED <<db, scenario>>

Statement == UNCHANGED <<db, calls, scenario>>

-----------------------------------------------------------------------------
\* Reservation rows.
NoRow == [quantity |-> 0, status |-> "NONE", old |-> FALSE]

\* What a query for ACTIVE rows returns, kept in memory: ids and quantities.
ActiveRows(s, d, products) ==
  [k \in {j \in Rows : /\ j[1] = d
                       /\ j[2] \in products
                       /\ Read(s, ReservationRow(j)).status = "ACTIVE"} |->
     Read(s, ReservationRow(k)).quantity]

\* The quantities of the listed rows of d and p, from the oldest on.
Listed(rows, d, p) ==
  [n \in 1..NumRows |-> IF <<d, p, n>> \in DOMAIN rows THEN rows[<<d, p, n>>] ELSE 0]

\* The next row of order d and product p is one that no session has used.
Unused(k) ==
  /\ db[ReservationRow(k)].status = "NONE"
  /\ \A t \in Sessions : ReservationRow(k) \notin DOMAIN mine[t]

NewRow(k) == Unused(k) /\ \A n \in 1..(k[3] - 1) : ~Unused(<<k[1], k[2], n>>)

Wanted(d) == {p \in Products : scenario.items[d][p] > 0}

Bumped(row) == [row EXCEPT !.version = @ + 1]

-----------------------------------------------------------------------------
calculatePaymentStatus(paid) ==
  IF paid <= 0 THEN "UNPAID"
  ELSE IF paid >= TotalAmount THEN "PAID" ELSE "PARTIALLY_PAID"

NewOrder(status, createdAt, paid) ==
  [status |-> status, createdAt |-> createdAt, old |-> FALSE, version |-> 0,
   delivered |-> [p \in Products |-> 0],
   paidAmount |-> paid, paymentStatus |-> calculatePaymentStatus(paid)]

\* What the payments of order d amount to, given the status of each.
Confirmed(status, d) ==
  SumUpTo([n \in 1..NumPayments |-> IF status[<<d, n>>] = "CONFIRMED" THEN 1 ELSE 0], NumPayments)

\* The first state: orders that exist have been created one after the other,
\* each with everything or, if the stock did not suffice, with nothing; part
\* of their payments is confirmed.
Init ==
  /\ scenario \in Scenarios
  /\ \E status \in [Orders -> scenario.orders],
        paid \in [Payments -> scenario.payments \cup {"NONE"}] :
       LET reserved(d, p) == IF status[d] = "WAITING_PAYMENT" THEN scenario.items[d][p] ELSE 0
           held(p) == SumUpTo([d \in Orders |-> reserved(d, p)], NumOrders)
       IN  /\ \A k \in Payments : k[2] <= scenario.recorded <=> paid[k] # "NONE"
           /\ \A p \in Products : held(p) <= scenario.stock[p]
           /\ \A d \in Orders :
                /\ status[d] = "WAITING_STOCK" =>
                     \E p \in Products : scenario.stock[p] - held(p) < scenario.items[d][p]
                /\ Confirmed(paid, d) > 0 => status[d] # "NONE" /\ Confirmed(paid, d) <= TotalAmount
           /\ db =
                Over([r \in {BalanceRow(p) : p \in Products} |->
                        [onHand |-> scenario.stock[r[2]], reserved |-> held(r[2]),
                         available |-> scenario.stock[r[2]] - held(r[2]), version |-> 0]],
                Over([r \in {OrderRow(d) : d \in Orders} |->
                        NewOrder(status[r[2]], r[2], Confirmed(paid, r[2]))],
                Over([r \in {DealRow(d) : d \in Orders} |->
                        [supervisor |-> FALSE, installed |-> FALSE, completed |-> FALSE]],
                Over([r \in {PaymentRow(k) : k \in Payments} |-> paid[r[2]]],
                Over([r \in {ReservationRow(k) : k \in Rows} |->
                        IF r[2][3] = 1 /\ reserved(r[2][1], r[2][2]) > 0
                        THEN [quantity |-> scenario.items[r[2][1]][r[2][2]], status |-> "ACTIVE",
                              old |-> FALSE]
                        ELSE NoRow],
                     [r \in {ReceiptRow(p) : p \in Products} |-> 0])))))
  /\ mine = [s \in Sessions |-> Nothing]
  /\ call = [s \in Sessions |-> Idle]
  /\ calls = 0

-----------------------------------------------------------------------------
\* reserveStock: line after line, read the balance and claim the quantity.
ReadBalance(s) ==
  /\ At(s, "reserve")
  /\ \E p \in call[s].products :
       Keep(s, [call[s] EXCEPT !.product = p, !.step = "claim",
                               !.seen = Read(s, BalanceRow(p)).version])
  /\ Statement /\ UNCHANGED mine

\* The WHERE clause of the UPDATE.
Claimable(s, p, quantity) ==
  LET balance == Read(s, BalanceRow(p))
  IN  balance.available >= quantity /\ balance.version = call[s].seen

\* What follows the last line.
Reserved(s) == IF call[s].handler = "create" THEN "commit" ELSE "promise"

Claim(s) ==
  LET p == call[s].product
      d == call[s].order
      quantity == scenario.items[d][p]
  IN  /\ At(s, "claim")
      /\ Free(s, BalanceRow(p))
      /\ Claimable(s, p, quantity)
      /\ \E n \in 1..NumRows :
           /\ NewRow(<<d, p, n>>)
           /\ Write(s, Over(Row(BalanceRow(p), [Bumped(Read(s, BalanceRow(p))) EXCEPT
                                                  !.reserved  = @ + quantity,
                                                  !.available = @ - quantity]),
                            Row(ReservationRow(<<d, p, n>>),
                                [quantity |-> quantity, status |-> "ACTIVE", old |-> FALSE])))
      /\ Keep(s, [call[s] EXCEPT !.products = @ \ {p},
                                 !.step = IF call[s].products = {p} THEN Reserved(s)
                                                                    ELSE "reserve"])
      /\ Statement

\* A shortage, or a balance that changed since it was read: createFromDeal
\* sends its order to WAITING_STOCK, processWaitingOrders goes on to the next.
Shortage(s) ==
  LET p == call[s].product
      d == call[s].order
  IN  /\ At(s, "claim")
      /\ ~Claimable(s, p, scenario.items[d][p])
      /\ \/ /\ call[s].handler = "create"
            /\ Write(s, Row(OrderRow(d), [Read(s, OrderRow(d)) EXCEPT !.status = "WAITING_STOCK"]))
            /\ Go(s, "commit")
         \/ /\ call[s].handler = "receive"
            /\ Go(s, "next")
            /\ UNCHANGED mine
      /\ Statement

\* createFromDeal inserts the order; dealId is unique, so a second insert
\* waits for the first one and fails.  Orders are as old as the calls before.
StartCreate(s, d) ==
  /\ Free(s, OrderRow(d))
  /\ db[OrderRow(d)].status = "NONE"
  /\ Wanted(d) # {}
  /\ Start(s, [Idle EXCEPT !.handler = "create", !.order = d, !.step = "reserve",
                           !.products = Wanted(d)])
  /\ Write(s, Row(OrderRow(d), NewOrder("WAITING_PAYMENT", NumOrders + calls + 1, 0)))

-----------------------------------------------------------------------------
\* releaseReservation: read the ACTIVE rows of the order, then give them back
\* one after the other.
ReadRows(s) ==
  /\ At(s, "readRows")
  /\ Keep(s, [call[s] EXCEPT !.rows = ActiveRows(s, call[s].order, Products), !.step = "release"])
  /\ Statement /\ UNCHANGED mine

ReadReleased(s) ==
  /\ At(s, "release")
  /\ \/ /\ DOMAIN call[s].rows = {}
        /\ Go(s, IF call[s].handler = "expire" THEN "count" ELSE "close")
     \/ \E k \in DOMAIN call[s].rows :
          Keep(s, [call[s] EXCEPT !.row = k, !.step = "giveBack",
                                  !.seen = Read(s, BalanceRow(k[2])).version])
  /\ Statement /\ UNCHANGED mine

\* The balance gets the listed quantity; the row is written by its id.
GivenBack(s, k, quantity) ==
  Over(Row(BalanceRow(k[2]), [Bumped(Read(s, BalanceRow(k[2]))) EXCEPT
                                !.reserved  = @ - quantity,
                                !.available = @ + quantity]),
       Row(ReservationRow(k), [Read(s, ReservationRow(k)) EXCEPT !.status = "RELEASED"]))

SameBalance(s, p) == Read(s, BalanceRow(p)).version = call[s].seen

GiveBack(s) ==
  LET k == call[s].row
      rows == call[s].rows
  IN  /\ At(s, "giveBack")
      /\ \/ /\ SameBalance(s, k[2])
            /\ Free(s, BalanceRow(k[2]))
            /\ Write(s, GivenBack(s, k, rows[k]))
            /\ Keep(s, [call[s] EXCEPT !.rows = [j \in DOMAIN rows \ {k} |-> rows[j]],
                                       !.step = "release"])
            /\ Statement
         \/ ~SameBalance(s, k[2]) /\ Rollback(s)

\* cancelOrder and the hourly job read the order in their transaction.
StartCancel(s, d) ==
  /\ db[OrderRow(d)].status \in {"WAITING_PAYMENT", "WAITING_STOCK"}
  /\ Start(s, [Idle EXCEPT !.handler = "cancel", !.order = d, !.step = "readRows",
                           !.version = db[OrderRow(d)].version])
  /\ UNCHANGED mine

StartTtl(s, d) ==
  /\ db[OrderRow(d)].status = "WAITING_PAYMENT"
  /\ db[OrderRow(d)].old
  /\ Start(s, [Idle EXCEPT !.handler = "ttl", !.order = d, !.step = "readRows",
                           !.version = db[OrderRow(d)].version])
  /\ UNCHANGED mine

\* Faulty variant: the version of the order is not compared.
AnyVersion(s) == TRUE

SameVersion(s) == Read(s, OrderRow(call[s].order)).version = call[s].version

\* The order is cancelled if it still has the version that was read.  When it
\* has not, cancelOrder throws; the job returns, which commits what it released.
Close(s) ==
  LET d == call[s].order
  IN  /\ At(s, "close")
      /\ \/ /\ SameVersion(s)
            /\ Free(s, OrderRow(d))
            /\ Write(s, Row(OrderRow(d),
                            [Bumped(Read(s, OrderRow(d))) EXCEPT !.status = "CANCELLED"]))
            /\ Go(s, "commit") /\ Statement
         \/ /\ ~SameVersion(s) /\ call[s].handler = "cancel"
            /\ Rollback(s)
         \/ /\ ~SameVersion(s) /\ call[s].handler = "ttl"
            /\ Go(s, "commit") /\ Statement /\ UNCHANGED mine

-----------------------------------------------------------------------------
\* releaseExpiredReservations lists the rows first; each is then given back in
\* a transaction that looks again at its status, but keeps the listed quantity.
StartExpire(s, k) ==
  /\ db[ReservationRow(k)].status = "ACTIVE"
  /\ db[ReservationRow(k)].old
  /\ Start(s, [Idle EXCEPT !.handler = "expire", !.order = k[1], !.step = "recheck",
                           !.rows = Row(k, db[ReservationRow(k)].quantity)])
  /\ UNCHANGED mine

Recheck(s) ==
  LET active == \E k \in DOMAIN call[s].rows : Read(s, ReservationRow(k)).status = "ACTIVE"
  IN  /\ At(s, "recheck")
      /\ \/ active /\ Go(s, "release") /\ Statement /\ UNCHANGED mine
         \/ ~active /\ Rollback(s)

Count(s) ==
  /\ At(s, "count")
  /\ Go(s, IF DOMAIN ActiveRows(s, call[s].order, Products) = {} THEN "revert" ELSE "commit")
  /\ Statement /\ UNCHANGED mine

Revertible(s) ==
  Read(s, OrderRow(call[s].order)).status \in {"WAITING_PAYMENT", "WAITING_STOCK"}

Revert(s) ==
  LET d == call[s].order
  IN  /\ At(s, "revert")
      /\ \/ /\ Revertible(s)
            /\ Free(s, OrderRow(d))
            /\ Write(s, Row(OrderRow(d),
                            [Bumped(Read(s, OrderRow(d))) EXCEPT !.status = "WAITING_STOCK"]))
         \/ ~Revertible(s) /\ UNCHANGED mine
      /\ Go(s, "commit")
      /\ Statement

-----------------------------------------------------------------------------
\* Faulty variant: a payment locks the order it has read before its deal.
PaymentLocksOrderFirst(handler) ==
  IF handler = "confirm" THEN <<"order", "deal">> ELSE <<"deal", "order">>

\* Fulfilment: payments, deliveries and the supervisor lock the deal and then
\* the order before they decide anything.
FulfilmentLocks(handler) == <<"deal", "order">>

LockedRow(s) ==
  IF Head(call[s].locks) = "deal" THEN DealRow(call[s].order) ELSE OrderRow(call[s].order)

\* confirmPayment locks the order by writing the paymentStatus it has read.
Touched(s) ==
  LET row == Read(s, LockedRow(s))
  IN  IF call[s].handler = "confirm" /\ Head(call[s].locks) = "order"
      THEN [row EXCEPT !.paymentStatus = call[s].cached] ELSE row

AfterLocks(handler) ==
  CASE handler = "confirm" -> "settle"
    [] handler = "deliver" -> "check"
    [] OTHER -> "supervise"

Lock(s) ==
  /\ At(s, "lock")
  /\ Free(s, LockedRow(s))
  /\ Write(s, Row(LockedRow(s), Touched(s)))
  /\ Keep(s, [call[s] EXCEPT !.locks = Tail(@),
                             !.step = IF Len(call[s].locks) = 1
                                      THEN AfterLocks(call[s].handler) ELSE "lock"])
  /\ Statement

\* tryFinalize of a won deal, under the locks of its caller.
CompletionSnapshot(deal, order) ==
  [stage |-> "WON", completed |-> deal.completed, paymentStatus |-> order.paymentStatus,
   fulfillmentSource |-> "WAREHOUSE_STOCK", orderStatus |-> order.status,
   supplierOrderStatuses |-> {}, installationRequired |-> scenario.installation,
   supervisorConfirmed |-> deal.supervisor, installationCompleted |-> deal.installed]

Finalized(d, deal, order) ==
  LET snap == CompletionSnapshot(deal, order)
  IN  Over(Row(DealRow(d), [deal EXCEPT !.installed = @ \/ canCompleteInstallation(snap),
                                        !.completed = @ \/ canCompleteDeal(snap)]),
           Row(OrderRow(d), IF canCompleteDeal(snap) /\ order.status # "COMPLETED"
                            THEN [Bumped(order) EXCEPT !.status = "COMPLETED"] ELSE order))

StartConfirm(s, k, verdict) ==
  /\ db[PaymentRow(k)] = "PENDING"
  /\ db[OrderRow(k[1])].status # "NONE"
  /\ Start(s, [Idle EXCEPT !.handler = "confirm", !.order = k[1], !.step = "readOrder",
                           !.payment = k, !.verdict = verdict])
  /\ UNCHANGED mine

ReadOrder(s) ==
  LET order == Read(s, OrderRow(call[s].order))
  IN  /\ At(s, "readOrder")
      /\ \/ order.status = "CANCELLED" /\ Rollback(s)
         \/ /\ order.status # "CANCELLED"
            /\ Keep(s, [call[s] EXCEPT !.version = order.version, !.cached = order.paymentStatus,
                                       !.step = "lock", !.locks = FulfilmentLocks("confirm")])
            /\ Statement /\ UNCHANGED mine

\* What the payments of the order come to if the verdict is accepted.
AmountPaid(s) ==
  LET k == call[s].payment
  IN  Confirmed([j \in Payments |-> IF j = k /\ call[s].verdict = "CONFIRMED"
                                    THEN "CONFIRMED" ELSE Read(s, PaymentRow(j))], k[1])

\* Faulty variant: the order may have changed since it was read.
AcceptUnversioned(s) ==
  /\ Read(s, PaymentRow(call[s].payment)) = "PENDING"
  /\ call[s].verdict = "CONFIRMED" => AmountPaid(s) <= TotalAmount

\* The exceptions confirmPayment throws once it holds the locks.
Acceptable(s) ==
  /\ Read(s, PaymentRow(call[s].payment)) = "PENDING"
  /\ call[s].verdict = "CONFIRMED" => AmountPaid(s) <= TotalAmount
  /\ SameVersion(s)

Settle(s) ==
  LET d == call[s].order
      order == [Bumped(Read(s, OrderRow(d))) EXCEPT
                  !.paidAmount = AmountPaid(s),
                  !.paymentStatus = calculatePaymentStatus(AmountPaid(s))]
  IN  /\ At(s, "settle")
      /\ \/ ~Acceptable(s) /\ Rollback(s)
         \/ /\ Acceptable(s)
            /\ Write(s, Over(Row(PaymentRow(call[s].payment), call[s].verdict),
                             IF order.paymentStatus = "PAID"
                             THEN Finalized(d, Read(s, DealRow(d)), order)
                             ELSE Row(OrderRow(d), order)))
            /\ Go(s, "commit") /\ Statement

-----------------------------------------------------------------------------
\* createDelivery looks at the order, locks, and looks again.
StartDeliver(s, d, quantity) ==
  /\ db[OrderRow(d)].status \in {"WAITING_PAYMENT", "WAITING_STOCK", "PARTIALLY_SHIPPED"}
  /\ \E p \in Products : quantity[p] > 0
  /\ Start(s, [Idle EXCEPT !.handler = "deliver", !.order = d, !.step = "lock",
                           !.locks = FulfilmentLocks("deliver"), !.quantity = quantity])
  /\ UNCHANGED mine

Deliverable(s, order) ==
  /\ order.status # "CANCELLED"
  /\ order.paymentStatus = "PAID"
  /\ \A p \in Products :
       order.delivered[p] + call[s].quantity[p] <= scenario.items[call[s].order][p]

Check(s) ==
  LET d == call[s].order
      order == Read(s, OrderRow(d))
  IN  /\ At(s, "check")
      /\ \/ ~Deliverable(s, order) /\ Rollback(s)
         \/ /\ Deliverable(s, order)
            /\ Write(s, Row(OrderRow(d), [order EXCEPT
                 !.delivered = [p \in Products |-> order.delivered[p] + call[s].quantity[p]]]))
            /\ Keep(s, [call[s] EXCEPT
                 !.step = "goods", !.products = {p \in Products : call[s].quantity[p] > 0}])
            /\ Statement

\* commitReservation: product after product, read the ACTIVE rows of the order
\* and the balance, then take the goods from both.
ReadGoods(s) ==
  LET d == call[s].order
  IN  /\ At(s, "goods")
      /\ \/ /\ call[s].products = {}
            /\ Go(s, "ship") /\ Statement /\ UNCHANGED mine
         \/ \E p \in call[s].products :
              LET rows == ActiveRows(s, d, {p})
                  listed == SumUpTo(Listed(rows, d, p), NumRows)
              IN  \/ /\ listed >= call[s].quantity[p]
                     /\ Keep(s, [call[s] EXCEPT !.step = "stock", !.product = p, !.rows = rows])
                     /\ Statement /\ UNCHANGED mine
                  \/ listed < call[s].quantity[p] /\ Rollback(s)

ReadStock(s) ==
  /\ At(s, "stock")
  /\ Keep(s, [call[s] EXCEPT !.step = "consume",
                             !.seen = Read(s, BalanceRow(call[s].product)).version])
  /\ Statement /\ UNCHANGED mine

\* What listed row k gives to a quantity: the older rows go first.
Taken(rows, k, quantity) ==
  LET before == SumUpTo(Listed(rows, k[1], k[2]), k[3] - 1)
  IN  IF before >= quantity THEN 0 ELSE AtMost(rows[k], quantity - before)

\* The conditions of the UPDATEs on the balance and on the rows.
Consumable(s) ==
  LET p == call[s].product
      balance == Read(s, BalanceRow(p))
  IN  /\ SameBalance(s, p)
      /\ balance.onHand >= call[s].quantity[p]
      /\ balance.reserved >= call[s].quantity[p]

Unchanged(s, k) ==
  /\ Read(s, ReservationRow(k)).status = "ACTIVE"
  /\ Read(s, ReservationRow(k)).quantity = call[s].rows[k]

Consume(s) ==
  LET p == call[s].product
      quantity == call[s].quantity[p]
      rows == call[s].rows
      used == {k \in DOMAIN rows : Taken(rows, k, quantity) > 0}
      rest(k) == rows[k] - Taken(rows, k, quantity)
      claimable == \A k \in used : Unchanged(s, k)
  IN  /\ At(s, "consume")
      /\ \/ /\ Consumable(s) /\ Free(s, BalanceRow(p)) /\ claimable
            /\ Write(s, Over(Row(BalanceRow(p), [Bumped(Read(s, BalanceRow(p))) EXCEPT
                                                   !.onHand   = @ - quantity,
                                                   !.reserved = @ - quantity]),
                             [r \in {ReservationRow(k) : k \in used} |->
                                IF rest(r[2]) = 0 THEN [Read(s, r) EXCEPT !.status = "FULFILLED"]
                                ELSE [Read(s, r) EXCEPT !.quantity = rest(r[2])]]))
            /\ Keep(s, [call[s] EXCEPT !.products = @ \ {p}, !.step = "goods"])
            /\ Statement
         \/ /\ ~Consumable(s) \/ (Free(s, BalanceRow(p)) /\ ~claimable)
            /\ Rollback(s)

ShippedStatus(d, delivered) ==
  IF \A p \in Products : delivered[p] >= scenario.items[d][p] THEN "SHIPPED" ELSE "PARTIALLY_SHIPPED"

Ship(s) ==
  LET d == call[s].order
      order == Read(s, OrderRow(d))
      shipped == [Bumped(order) EXCEPT !.status = ShippedStatus(d, order.delivered)]
  IN  /\ At(s, "ship")
      /\ Write(s, Finalized(d, Read(s, DealRow(d)), shipped))
      /\ Go(s, "commit") /\ Statement

\* DealInstallationService.confirmSupervisor.
StartSupervisor(s, d) ==
  /\ scenario.installation = "yes"
  /\ db[OrderRow(d)].status # "NONE"
  /\ Start(s, [Idle EXCEPT !.handler = "supervisor", !.order = d, !.step = "lock",
                           !.locks = FulfilmentLocks("supervisor")])
  /\ UNCHANGED mine

Supervise(s) ==
  LET d == call[s].order
  IN  /\ At(s, "supervise")
      /\ Write(s, Finalized(d, [Read(s, DealRow(d)) EXCEPT !.supervisor = TRUE],
                            Read(s, OrderRow(d))))
      /\ Go(s, "commit") /\ Statement

-----------------------------------------------------------------------------
\* processReceipt: lock the purchase of p, put the goods on hand, list the
\* waiting orders and serve them oldest first.
StartReceive(s, p) ==
  /\ \E d \in Orders : p \in Wanted(d)
  /\ Free(s, ReceiptRow(p))
  /\ Start(s, [Idle EXCEPT !.handler = "receive", !.product = p, !.step = "arrive"])
  /\ Write(s, Row(ReceiptRow(p), db[ReceiptRow(p)] + ReceiptQuantity))

ReadArrival(s) ==
  /\ At(s, "arrive")
  /\ Keep(s, [call[s] EXCEPT !.step = "put",
                             !.seen = Read(s, BalanceRow(call[s].product)).version])
  /\ Statement /\ UNCHANGED mine

Put(s) ==
  LET p == call[s].product
  IN  /\ At(s, "put")
      /\ \/ /\ SameBalance(s, p)
            /\ Free(s, BalanceRow(p))
            /\ Write(s, Row(BalanceRow(p), [Bumped(Read(s, BalanceRow(p))) EXCEPT
                                              !.onHand    = @ + ReceiptQuantity,
                                              !.available = @ + ReceiptQuantity]))
            /\ Go(s, "list") /\ Statement
         \/ ~SameBalance(s, p) /\ Rollback(s)

ListWaiting(s) ==
  /\ At(s, "list")
  /\ Keep(s, [call[s] EXCEPT !.step = "next",
       !.waiting = {d \in Orders : Read(s, OrderRow(d)).status = "WAITING_STOCK"}])
  /\ Statement /\ UNCHANGED mine

NextWaiting(s) ==
  /\ At(s, "next")
  /\ \/ call[s].waiting = {} /\ Go(s, "commit")
     \/ \E d \in call[s].waiting :
          /\ \A e \in call[s].waiting : db[OrderRow(d)].createdAt <= db[OrderRow(e)].createdAt
          /\ Keep(s, [call[s] EXCEPT !.order = d, !.waiting = @ \ {d},
                                     !.products = Wanted(d), !.step = "reserve"])
  /\ Statement /\ UNCHANGED mine

\* The order is written by its id, whatever it has become since it was listed.
Promise(s) ==
  LET d == call[s].order
  IN  /\ At(s, "promise")
      /\ Free(s, OrderRow(d))
      /\ Write(s, Row(OrderRow(d),
                      [Bumped(Read(s, OrderRow(d))) EXCEPT !.status = "WAITING_PAYMENT"]))
      /\ Go(s, "next") /\ Statement

-----------------------------------------------------------------------------
\* The row the next statement of s must write and has to wait for.
Needs(s) ==
  CASE At(s, "claim") /\ Claimable(s, call[s].product, scenario.items[call[s].order][call[s].product])
         -> {BalanceRow(call[s].product)}
    [] At(s, "giveBack") /\ SameBalance(s, call[s].row[2]) -> {BalanceRow(call[s].row[2])}
    [] At(s, "consume") /\ Consumable(s) -> {BalanceRow(call[s].product)}
    [] At(s, "put") /\ SameBalance(s, call[s].product) -> {BalanceRow(call[s].product)}
    [] At(s, "close") /\ SameVersion(s) -> {OrderRow(call[s].order)}
    [] At(s, "revert") /\ Revertible(s) -> {OrderRow(call[s].order)}
    [] At(s, "promise") -> {OrderRow(call[s].order)}
    [] At(s, "lock") -> {LockedRow(s)}
    [] OTHER -> {}

Deadlocked(S) ==
  \A s \in S : \E t \in S \ {s} : Needs(s) \cap DOMAIN mine[t] # {}

\* The database ends one transaction of a deadlock with an error.
DeadlockVictim(s) ==
  /\ \E S \in SUBSET Sessions : s \in S /\ Deadlocked(S)
  /\ Rollback(s)

\* Three days pass, while nobody is in the middle of a call.
ThreeDaysPass ==
  /\ \A s \in Sessions : At(s, "idle")
  /\ db' = Over([r \in {ReservationRow(k) : k \in Rows} \cup {OrderRow(d) : d \in Orders} |->
                   [db[r] EXCEPT !.old = TRUE]], db)
  /\ UNCHANGED <<mine, call, calls, scenario>>

StartCall(s) ==
  \/ \E d \in Orders :
       \/ StartCreate(s, d) \/ StartCancel(s, d) \/ StartTtl(s, d) \/ StartSupervisor(s, d)
       \/ \E quantity \in [Products -> 0..MaxQuantity] :
            /\ \A p \in Products : quantity[p] <= scenario.items[d][p]
            /\ StartDeliver(s, d, quantity)
  \/ \E k \in Rows : StartExpire(s, k)
  \/ \E k \in Payments, verdict \in {"CONFIRMED", "REJECTED"} : StartConfirm(s, k, verdict)
  \/ \E p \in Products : StartReceive(s, p)

SessionStep(s) ==
  \/ ReadBalance(s) \/ Claim(s) \/ Shortage(s)
  \/ ReadRows(s) \/ ReadReleased(s) \/ GiveBack(s) \/ Close(s)
  \/ Recheck(s) \/ Count(s) \/ Revert(s)
  \/ ReadOrder(s) \/ Lock(s) \/ Settle(s)
  \/ Check(s) \/ ReadGoods(s) \/ ReadStock(s) \/ Consume(s) \/ Ship(s) \/ Supervise(s)
  \/ ReadArrival(s) \/ Put(s) \/ ListWaiting(s) \/ NextWaiting(s) \/ Promise(s)
  \/ Commit(s)
  \/ DeadlockVictim(s)

Next ==
  \/ \E s \in Sessions : StartCall(s) \/ SessionStep(s)
  \/ ThreeDaysPass

Spec == Init /\ [][Next]_vars

-----------------------------------------------------------------------------
\* Properties, of what is committed.
Held(d, p) ==
  SumUpTo([n \in 1..NumRows |-> IF db[ReservationRow(<<d, p, n>>)].status = "ACTIVE"
                                THEN db[ReservationRow(<<d, p, n>>)].quantity ELSE 0], NumRows)
TotalHeld(p) == SumUpTo([d \in Orders |-> Held(d, p)], NumOrders)
TotalDelivered(p) == SumUpTo([d \in Orders |-> db[OrderRow(d)].delivered[p]], NumOrders)

\* Goods are conserved by every mixture of handlers, the racing cron jobs
\* included: available stays onHand minus reserved and never drops below zero,
\* and what is on hand and what was delivered is what was there and what
\* arrived.
GoodsConserved ==
  \A p \in Products :
    LET balance == db[BalanceRow(p)]
    IN  /\ balance.available = balance.onHand - balance.reserved
        /\ balance.available >= 0
        /\ balance.onHand + TotalDelivered(p) = scenario.stock[p] + db[ReceiptRow(p)]

\* The reserved quantity is what the active reservations hold: creations,
\* cancellations, deliveries, payments and receipts of users may overlap.  With
\* the cron jobs it does not hold, as NeverOversold shows.
LedgerExact ==
  scenario.handlers \cap {"expire", "ttl"} = {} =>
    \A p \in Products : db[BalanceRow(p)].reserved = TotalHeld(p)

\* The paid amount is that of the confirmed payments, however confirmations
\* overlap, is never above the total, and decides whether goods leave.
PaymentsExact ==
  \A d \in Orders :
    LET order == db[OrderRow(d)]
        confirmed == Confirmed([k \in Payments |-> db[PaymentRow(k)]], d)
    IN  /\ order.paidAmount = confirmed
        /\ confirmed <= TotalAmount
        /\ order.paymentStatus = calculatePaymentStatus(confirmed)
        /\ (\E p \in Products : order.delivered[p] > 0) => order.paymentStatus = "PAID"

\* A cancelled order has sent no goods, keeps none and is paid no more, also
\* when a delivery or a payment was under way while it was cancelled.  Only a
\* receipt breaks this: it writes the orders it has listed, whatever has
\* become of them since.
CancelledIsClosed ==
  /\ (\A q \in Products : db[ReceiptRow(q)] = 0) =>
       \A d \in Orders : db[OrderRow(d)].status = "CANCELLED" =>
         \A p \in Products : db[OrderRow(d)].delivered[p] = 0 /\ Held(d, p) = 0
  /\ \A s \in Sessions : At(s, "commit") /\ call[s].handler = "confirm" =>
       db[OrderRow(call[s].order)].status # "CANCELLED"

\* Payments, deliveries and the supervisor take their locks in an order that
\* never lets them wait for each other in a circle, as the comment in
\* confirmPayment promises, but for one case: two deliveries of different
\* orders, each of which waits for goods the other one is taking.
OnlyGoodsDeadlock ==
  \A S \in SUBSET {s \in Sessions : call[s].handler \in {"confirm", "deliver", "supervisor"}} :
    S # {} /\ Deadlocked(S) =>
      \E s, t \in S : /\ call[s].order # call[t].order
                      /\ At(s, "consume") /\ At(t, "consume")

\* The stock ledger agrees with itself, with what came in and went out, and,
\* without the cron jobs, with the reservations.
GoodsExact == GoodsConserved /\ LedgerExact

\* The orders agree with their payments, and a cancelled one is out of the game.
OrdersExact == PaymentsExact /\ CancelledIsClosed

-----------------------------------------------------------------------------
\* What comments and tests say of the code and the code does not do.

\* reserveStock: parallel calls do not sell what is not there.
NeverOversold ==
  \A p \in Products : TotalHeld(p) <= db[BalanceRow(p)].onHand
=============================================================================
