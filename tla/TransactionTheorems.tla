------------------------ MODULE TransactionTheorems ------------------------
(***************************************************************************)
(* Theorems about OrderStockTx, for any number of sessions, orders,         *)
(* products, payments and calls and every order in which their statements   *)
(* interleave.                                                              *)
(*                                                                          *)
(* An invariant speaks of one session at a time: of the committed database  *)
(* (base), of the rows this session has written (own) and of its call (c).  *)
(* These parts are operators of constants, so that a step of one session    *)
(* leaves those of the others as they are; what a commit does to them is a  *)
(* lemma of its own.                                                        *)
(***************************************************************************)
EXTENDS OrderStockTx, SumsTheorems, SequenceTheorems

-----------------------------------------------------------------------------
\* Rows and their values.

AllRows ==
  {BalanceRow(p) : p \in Products} \cup {OrderRow(d) : d \in Orders}
    \cup {DealRow(d) : d \in Orders} \cup {PaymentRow(k) : k \in Payments}
    \cup {ReservationRow(k) : k \in Rows}
    \cup {ReceiptRow(p) : p \in Products}

Balances == [onHand : Int, reserved : Int, available : Int, version : Nat]
OrderStatuses ==
  {"NONE", "WAITING_PAYMENT", "WAITING_STOCK", "CANCELLED", "PARTIALLY_SHIPPED", "SHIPPED", "COMPLETED"}
PaymentStates == {"UNPAID", "PARTIALLY_PAID", "PAID"}
OrderRecords ==
  [status : OrderStatuses, createdAt : Nat, old : BOOLEAN, version : Nat,
   delivered : [Products -> Nat], paidAmount : Nat, paymentStatus : PaymentStates]
DealRecords == [supervisor : BOOLEAN, installed : BOOLEAN, completed : BOOLEAN]
PaymentStatuses == {"NONE", "PENDING", "CONFIRMED", "REJECTED"}
ReservationRecords ==
  [quantity : Nat, status : {"NONE", "ACTIVE", "RELEASED", "FULFILLED"}, old : BOOLEAN]

Values(kind) ==
  IF kind = "balance" THEN Balances
  ELSE IF kind = "order" THEN OrderRecords
  ELSE IF kind = "deal" THEN DealRecords
  ELSE IF kind = "payment" THEN PaymentStatuses
  ELSE IF kind = "reservation" THEN ReservationRecords
  ELSE Nat

\* Rows that hold what their tables may hold.
Typed(f) == \A r \in DOMAIN f : r \in AllRows /\ f[r] \in Values(r[1])

\* What a session reads.
Value(base, own, r) == IF r \in DOMAIN own THEN own[r] ELSE base[r]

\* Rows of different tables, and rows with different keys, are different.
LEMMA RowKeys ==
  /\ \A x : BalanceRow(x)[1] = "balance" /\ BalanceRow(x)[2] = x
  /\ \A x : OrderRow(x)[1] = "order" /\ OrderRow(x)[2] = x
  /\ \A x : DealRow(x)[1] = "deal" /\ DealRow(x)[2] = x
  /\ \A x : PaymentRow(x)[1] = "payment" /\ PaymentRow(x)[2] = x
  /\ \A x : ReservationRow(x)[1] = "reservation" /\ ReservationRow(x)[2] = x
  /\ \A x : ReceiptRow(x)[1] = "receipt" /\ ReceiptRow(x)[2] = x
BY DEF BalanceRow, OrderRow, DealRow, PaymentRow, ReservationRow, ReceiptRow

LEMMA KnownRows ==
  /\ \A p \in Products : BalanceRow(p) \in AllRows
  /\ \A d \in Orders : OrderRow(d) \in AllRows /\ DealRow(d) \in AllRows
  /\ \A k \in Payments : PaymentRow(k) \in AllRows
  /\ \A k \in Rows : ReservationRow(k) \in AllRows
  /\ \A p \in Products : ReceiptRow(p) \in AllRows
BY DEF AllRows

\* The key of a row of a table.
LEMMA RowsByKind ==
  ASSUME NEW r \in AllRows
  PROVE  /\ r[1] = "balance" => r[2] \in Products /\ r = BalanceRow(r[2])
         /\ r[1] = "order" => r[2] \in Orders /\ r = OrderRow(r[2])
         /\ r[1] = "deal" => r[2] \in Orders /\ r = DealRow(r[2])
         /\ r[1] = "payment" => r[2] \in Payments /\ r = PaymentRow(r[2])
         /\ r[1] = "reservation" => r[2] \in Rows /\ r = ReservationRow(r[2])
         /\ r[1] \notin {"balance", "order", "deal", "payment", "reservation"} =>
              r[2] \in Products /\ r = ReceiptRow(r[2])
<1>1. CASE \E p \in Products : r = BalanceRow(p)
  BY <1>1, RowKeys
<1>2. CASE \E d \in Orders : r = OrderRow(d)
  BY <1>2, RowKeys
<1>3. CASE \E d \in Orders : r = DealRow(d)
  BY <1>3, RowKeys
<1>4. CASE \E k \in Payments : r = PaymentRow(k)
  BY <1>4, RowKeys
<1>5. CASE \E k \in Rows : r = ReservationRow(k)
  BY <1>5, RowKeys
<1>6. CASE \E p \in Products : r = ReceiptRow(p)
  BY <1>6, RowKeys
<1> QED BY <1>1, <1>2, <1>3, <1>4, <1>5, <1>6 DEF AllRows

LEMMA ValuesOfKinds ==
  /\ Values("balance") = Balances /\ Values("order") = OrderRecords /\ Values("deal") = DealRecords
  /\ Values("payment") = PaymentStatuses /\ Values("reservation") = ReservationRecords
  /\ Values("receipt") = Nat
BY DEF Values

\* The value of a row of a table, where it is written.
LEMMA TypedValues ==
  ASSUME NEW f, Typed(f)
  PROVE  /\ \A x : BalanceRow(x) \in DOMAIN f => x \in Products /\ f[BalanceRow(x)] \in Balances
         /\ \A x : OrderRow(x) \in DOMAIN f => x \in Orders /\ f[OrderRow(x)] \in OrderRecords
         /\ \A x : DealRow(x) \in DOMAIN f => x \in Orders /\ f[DealRow(x)] \in DealRecords
         /\ \A x : PaymentRow(x) \in DOMAIN f => x \in Payments /\ f[PaymentRow(x)] \in PaymentStatuses
         /\ \A x : ReservationRow(x) \in DOMAIN f =>
              x \in Rows /\ f[ReservationRow(x)] \in ReservationRecords
         /\ \A x : ReceiptRow(x) \in DOMAIN f => x \in Products /\ f[ReceiptRow(x)] \in Nat
<1>1. \A r \in DOMAIN f : r \in AllRows /\ f[r] \in Values(r[1])
  BY DEF Typed
<1> QED BY <1>1, RowKeys, RowsByKind, ValuesOfKinds

\* Rows a statement writes.
LEMMA RowDomain ==
  \A r, v : DOMAIN Row(r, v) = {r} /\ Row(r, v)[r] = v
BY DEF Row

LEMMA OverDomain ==
  \A new, old : /\ DOMAIN Over(new, old) = DOMAIN new \cup DOMAIN old
                /\ \A r \in DOMAIN new : Over(new, old)[r] = new[r]
                /\ \A r \in DOMAIN old : r \notin DOMAIN new => Over(new, old)[r] = old[r]
BY DEF Over

LEMMA TypedOver ==
  ASSUME NEW new, NEW old, Typed(new), Typed(old)
  PROVE  Typed(Over(new, old))
BY DEF Typed, Over

LEMMA TypedRows ==
  /\ \A p \in Products, v \in Balances : Typed(Row(BalanceRow(p), v))
  /\ \A d \in Orders, v \in OrderRecords : Typed(Row(OrderRow(d), v))
  /\ \A d \in Orders, v \in DealRecords : Typed(Row(DealRow(d), v))
  /\ \A k \in Payments, v \in PaymentStatuses : Typed(Row(PaymentRow(k), v))
  /\ \A k \in Rows, v \in ReservationRecords : Typed(Row(ReservationRow(k), v))
  /\ \A p \in Products, v \in Nat : Typed(Row(ReceiptRow(p), v))
  /\ Typed(Nothing)
<1>1. ASSUME NEW r \in AllRows, NEW v \in Values(r[1])
      PROVE  Typed(Row(r, v))
  BY <1>1 DEF Typed, Row
<1>2. Typed(Nothing)
  BY DEF Typed, Nothing
<1> QED BY <1>1, <1>2, RowKeys, KnownRows, ValuesOfKinds

\* What a session reads after it has written something.
LEMMA ValueOver ==
  ASSUME NEW base, NEW own, NEW new, NEW r
  PROVE  Value(base, Over(new, own), r) = IF r \in DOMAIN new THEN new[r] ELSE Value(base, own, r)
BY DEF Value, Over

-----------------------------------------------------------------------------
\* Calls: what a handler keeps in memory, and which statements it is made of.

Fulfilment == {"confirm", "deliver", "supervisor"}
Releasing == {"cancel", "ttl", "expire"}
Handlers == {"none", "create", "receive"} \cup Releasing \cup Fulfilment
Steps ==
  {"idle", "reserve", "claim", "commit", "promise", "readRows", "release", "giveBack", "close",
   "recheck", "count", "revert", "readOrder", "lock", "settle", "check", "goods", "stock",
   "consume", "ship", "supervise", "arrive", "put", "list", "next"}
BothLocks == <<"deal", "order">>
OneLock == <<"order">>
LockLists == {<<>>, BothLocks, OneLock}

CallRecords ==
  [handler : Handlers, order : Orders \cup {0}, step : Steps, version : Nat, seen : Nat,
   products : SUBSET Products, product : Products \cup {"none"},
   rows : UNION {[S -> Nat] : S \in SUBSET Rows}, row : Rows \cup {<<>>},
   quantity : [Products -> Nat], locks : LockLists,
   cached : PaymentStates \cup {"none"}, waiting : SUBSET Orders,
   payment : Payments \cup {<<>>}, verdict : {"none", "CONFIRMED", "REJECTED"}]

\* The statements of each handler.
StepsOf(c) ==
  /\ c.step = "idle" <=> c.handler = "none"
  /\ c.step \in {"reserve", "claim"} => c.handler \in {"create", "receive"}
  /\ c.step \in {"arrive", "put", "list", "next", "promise"} => c.handler = "receive"
  /\ c.step \in {"readRows", "close"} => c.handler \in {"cancel", "ttl"}
  /\ c.step \in {"release", "giveBack"} => c.handler \in Releasing
  /\ c.step \in {"recheck", "count", "revert"} => c.handler = "expire"
  /\ c.step \in {"readOrder", "settle"} => c.handler = "confirm"
  /\ c.step = "lock" => c.handler \in Fulfilment
  /\ c.step \in {"check", "goods", "stock", "consume", "ship"} => c.handler = "deliver"
  /\ c.step = "supervise" => c.handler = "supervisor"

\* What the next statement of a handler goes by.
Memory(c) ==
  /\ c.handler \notin {"none", "receive"} \/ c.step \in {"reserve", "claim", "promise"} =>
       c.order \in Orders
  /\ c.step \in {"arrive", "put", "claim", "stock", "consume"} => c.product \in Products
  /\ c.step \in {"claim", "stock", "consume"} => c.product \in c.products
  /\ c.step = "giveBack" => c.row \in DOMAIN c.rows
  /\ c.step = "lock" => c.locks \in {BothLocks, OneLock}
  /\ c.handler = "confirm" =>
       /\ c.payment \in Payments /\ c.order = c.payment[1]
       /\ c.verdict \in {"CONFIRMED", "REJECTED"}
       /\ c.step = "lock" => c.cached \in PaymentStates
  /\ c.handler = "deliver" => c.products \subseteq {p \in Products : c.quantity[p] > 0}
  /\ c.step \in {"ship"} \/ (c.handler = "deliver" /\ c.step = "commit") => c.products = {}
  /\ c.handler \in Releasing /\ c.step \notin {"readRows", "recheck", "release", "giveBack"} =>
       DOMAIN c.rows = {}
  /\ c.handler \in Releasing => \A k \in DOMAIN c.rows : k[1] = c.order
  /\ c.step \in {"stock", "consume"} => \A k \in DOMAIN c.rows : k[1] = c.order /\ k[2] = c.product

Shape(c) == c \in CallRecords /\ StepsOf(c) /\ Memory(c)

\* Fulfilment that has taken its lock on the deal, and on the order too.
HasDeal(c) ==
  /\ c.handler \in Fulfilment
  /\ c.step # "readOrder"
  /\ ~ (c.step = "lock" /\ c.locks = BothLocks)
HasOrder(c) == c.handler \in Fulfilment /\ c.step \notin {"readOrder", "lock"}

\* The rows a session has written so far, by handler and step.
Locks(held, c) ==
  /\ c.step = "idle" => held = {}
  /\ \A k \in Rows : ReservationRow(k) \in held => BalanceRow(k[2]) \in held
  /\ \A k \in Payments : PaymentRow(k) \in held =>
       c.handler = "confirm" /\ c.step = "commit" /\ k = c.payment
  /\ \A d \in Orders : DealRow(d) \in held <=> HasDeal(c) /\ d = c.order
  /\ \A d \in Orders : OrderRow(d) \in held => d = c.order \/ c.handler = "receive"
  /\ c.handler \in Fulfilment => (OrderRow(c.order) \in held <=> HasOrder(c))
  /\ c.handler = "create" => OrderRow(c.order) \in held
  /\ \A d \in Orders : OrderRow(d) \in held => ~ (c.handler \in Releasing /\ c.step # "commit")
  /\ c.handler = "cancel" /\ c.step = "commit" => OrderRow(c.order) \in held
  /\ \A d \in Orders : OrderRow(d) \in held => c.step \notin {"arrive", "put", "list"}
  /\ \A p \in Products : ReceiptRow(p) \in held => c.handler = "receive"
  /\ \A p \in Products : BalanceRow(p) \in held =>
       /\ c.handler \notin {"confirm", "supervisor"}
       /\ c.step \notin {"arrive", "put", "readRows", "recheck"}
  /\ c.handler = "deliver" => \A p \in Products :
       BalanceRow(p) \in held <=>
         c.step \in {"goods", "stock", "consume", "ship", "commit"} /\ c.quantity[p] > 0 /\ p \notin c.products

LocalTypes(own, c) == Typed(own) /\ Shape(c) /\ Locks(DOMAIN own, c)

\* Sessions hold their own rows, and no row is held by two.
SessionsTyped ==
  /\ scenario \in Scenarios /\ calls \in Nat
  /\ DOMAIN db = AllRows /\ Typed(db)
  /\ mine = [s \in Sessions |-> mine[s]] /\ call = [s \in Sessions |-> call[s]]
  /\ \A s \in Sessions : LocalTypes(mine[s], call[s])

Exclusive ==
  \A s, t \in Sessions : s # t => DOMAIN mine[s] \cap DOMAIN mine[t] = {}

TxTypes == SessionsTyped /\ Exclusive

LEMMA ScenarioType ==
  ASSUME scenario \in Scenarios
  PROVE  /\ scenario.items \in [Orders -> [Products -> Nat]]
         /\ \A d \in Orders, p \in Products : scenario.items[d][p] \in Nat
         /\ scenario.stock \in [Products -> Nat]
         /\ \A d \in Orders : Wanted(d) \subseteq Products
         /\ NumOrders \in Nat /\ NumRows \in Nat /\ NumPayments \in Nat /\ TotalAmount \in Nat
         /\ MaxQuantity \in Nat /\ ReceiptQuantity \in Nat /\ ReceiptQuantity > 0
BY SizesAssumption DEF Wanted

LEMMA IdleTypes == LocalTypes(Nothing, Idle)
<1>1. Typed(Nothing)
  BY TypedRows
<1>2. Idle \in CallRecords
  <2>1. Nothing \in UNION {[S -> Nat] : S \in SUBSET Rows}
    <3>1. Nothing \in [{} -> Nat]
      BY DEF Nothing
    <3> QED BY <3>1
  <2> QED BY <2>1 DEF Idle, CallRecords, Handlers, Steps, LockLists
<1>3. Shape(Idle)
  BY <1>2 DEF Shape, StepsOf, Memory, Idle, Fulfilment, Releasing
<1>4. Locks(DOMAIN Nothing, Idle)
  BY DEF Locks, Nothing, Idle, HasDeal, HasOrder, Fulfilment, Releasing
<1> QED BY <1>1, <1>3, <1>4 DEF LocalTypes

\* What s reads is in the domain of its row.
LEMMA ReadTypes ==
  ASSUME TxTypes, NEW s \in Sessions
  PROVE  /\ \A r : Read(s, r) = Value(db, mine[s], r)
         /\ \A p \in Products : Read(s, BalanceRow(p)) \in Balances
         /\ \A d \in Orders : Read(s, OrderRow(d)) \in OrderRecords
         /\ \A d \in Orders : Read(s, DealRow(d)) \in DealRecords
         /\ \A k \in Payments : Read(s, PaymentRow(k)) \in PaymentStatuses
         /\ \A k \in Rows : Read(s, ReservationRow(k)) \in ReservationRecords
         /\ \A p \in Products : Read(s, ReceiptRow(p)) \in Nat
<1>1. Typed(db) /\ DOMAIN db = AllRows /\ Typed(mine[s])
  BY DEF TxTypes, SessionsTyped, LocalTypes
<1>2. \A r \in AllRows : Read(s, r) \in Values(r[1])
  BY <1>1 DEF Typed, Read
<1>3. \A r : Read(s, r) = Value(db, mine[s], r)
  BY DEF Read, Value
<1> QED BY <1>2, <1>3, RowKeys, KnownRows, ValuesOfKinds

\* A statement of s: it may write rows that are free, or its own.
LEMMA StatementTypes ==
  ASSUME TxTypes, NEW s \in Sessions, NEW own, NEW c,
         mine' = [mine EXCEPT ![s] = own], call' = [call EXCEPT ![s] = c],
         UNCHANGED <<db, scenario>>, calls' \in Nat,
         LocalTypes(own, c),
         \A t \in Sessions \ {s} : DOMAIN own \cap DOMAIN mine[t] = {}
  PROVE  TxTypes'
<1>1. /\ mine'[s] = own /\ call'[s] = c
      /\ \A t \in Sessions \ {s} : mine'[t] = mine[t] /\ call'[t] = call[t]
      /\ mine' = [t \in Sessions |-> mine'[t]] /\ call' = [t \in Sessions |-> call'[t]]
  BY DEF TxTypes, SessionsTyped
<1>2. \A t \in Sessions : LocalTypes(mine'[t], call'[t])
  BY <1>1 DEF TxTypes, SessionsTyped
<1>3. SessionsTyped'
  BY <1>1, <1>2 DEF TxTypes, SessionsTyped
<1>4. Exclusive'
  <2> SUFFICES ASSUME NEW t \in Sessions, NEW u \in Sessions, t # u
               PROVE  DOMAIN mine'[t] \cap DOMAIN mine'[u] = {}
    BY DEF Exclusive
  <2>1. CASE t = s
    BY <1>1, <2>1
  <2>2. CASE u = s
    BY <1>1, <2>2
  <2>3. CASE t # s /\ u # s
    BY <1>1, <2>3 DEF TxTypes, Exclusive
  <2> QED BY <2>1, <2>2, <2>3
<1> QED BY <1>3, <1>4 DEF TxTypes

\* Statements that write nothing, and those that write new rows.
LEMMA ReadingTypes ==
  ASSUME TxTypes, NEW s \in Sessions, NEW c, Keep(s, c),
         UNCHANGED <<db, mine, calls, scenario>>,
         c \in CallRecords, StepsOf(c), Memory(c), Locks(DOMAIN mine[s], c)
  PROVE  TxTypes'
<1>1. mine' = [mine EXCEPT ![s] = mine[s]]
  BY DEF TxTypes, SessionsTyped
<1>2. LocalTypes(mine[s], c)
  BY DEF TxTypes, SessionsTyped, LocalTypes, Shape
<1>3. \A t \in Sessions \ {s} : DOMAIN mine[s] \cap DOMAIN mine[t] = {}
  BY DEF TxTypes, Exclusive
<1>4. calls' \in Nat
  BY DEF TxTypes, SessionsTyped
<1> QED BY <1>1, <1>2, <1>3, <1>4, StatementTypes DEF Keep

LEMMA WritingTypes ==
  ASSUME TxTypes, NEW s \in Sessions, NEW new, NEW c, Write(s, new), Keep(s, c),
         UNCHANGED <<db, scenario>>, calls' \in Nat,
         Typed(new), c \in CallRecords, StepsOf(c), Memory(c),
         Locks(DOMAIN new \cup DOMAIN mine[s], c),
         \A t \in Sessions \ {s} : DOMAIN new \cap DOMAIN mine[t] = {}
  PROVE  TxTypes'
<1>1. mine' = [mine EXCEPT ![s] = Over(new, mine[s])]
  BY DEF Write, TxTypes, SessionsTyped
<1>2. DOMAIN Over(new, mine[s]) = DOMAIN new \cup DOMAIN mine[s]
  BY DEF Over
<1>3. LocalTypes(Over(new, mine[s]), c)
  BY <1>2, TypedOver DEF TxTypes, SessionsTyped, LocalTypes, Shape
<1>4. \A t \in Sessions \ {s} : DOMAIN Over(new, mine[s]) \cap DOMAIN mine[t] = {}
  BY <1>2 DEF TxTypes, Exclusive
<1> QED BY <1>1, <1>3, <1>4, StatementTypes DEF Keep

\* The end of a transaction.
LEMMA RollbackTypes ==
  ASSUME TxTypes, NEW s \in Sessions, Rollback(s)
  PROVE  TxTypes'
<1>1. \A t \in Sessions \ {s} : DOMAIN Nothing \cap DOMAIN mine[t] = {}
  BY DEF Nothing
<1> QED BY <1>1, IdleTypes, StatementTypes DEF Rollback, End, Keep, TxTypes, SessionsTyped

LEMMA CommitTypes ==
  ASSUME TxTypes, NEW s \in Sessions, Commit(s)
  PROVE  TxTypes'
<1>1. /\ mine'[s] = Nothing /\ call'[s] = Idle
      /\ \A t \in Sessions \ {s} : mine'[t] = mine[t] /\ call'[t] = call[t]
      /\ mine' = [t \in Sessions |-> mine'[t]] /\ call' = [t \in Sessions |-> call'[t]]
  BY DEF TxTypes, SessionsTyped, Commit, End, Keep
<1>2. \A t \in Sessions : LocalTypes(mine'[t], call'[t])
  BY <1>1, IdleTypes DEF TxTypes, SessionsTyped
<1>3. DOMAIN db' = AllRows /\ Typed(db')
  <2>1. Typed(mine[s]) /\ Typed(db) /\ DOMAIN db = AllRows
    BY DEF TxTypes, SessionsTyped, LocalTypes
  <2>2. DOMAIN mine[s] \subseteq AllRows
    BY <2>1 DEF Typed
  <2> QED BY ZenonT(60), <2>1, <2>2, TypedOver, OverDomain DEF Commit
<1>4. SessionsTyped'
  BY <1>1, <1>2, <1>3 DEF TxTypes, SessionsTyped, Commit, End
<1>5. Exclusive'
  BY <1>1 DEF TxTypes, Exclusive, Nothing
<1> QED BY <1>4, <1>5 DEF TxTypes

-----------------------------------------------------------------------------
\* Every step keeps the types, the locks and the exclusion of sessions.

LEMMA ConfirmedNat ==
  ASSUME NEW status, NEW d, NumPayments \in Nat
  PROVE  Confirmed(status, d) \in Nat
<1> DEFINE f == [n \in 1..NumPayments |-> IF status[<<d, n>>] = "CONFIRMED" THEN 1 ELSE 0]
<1>1. \A n \in 1..NumPayments : f[n] \in Nat
  OBVIOUS
<1>2. NumPayments \in 0..NumPayments
  OBVIOUS
<1> HIDE DEF f
<1>3. SumUpTo(f, NumPayments) \in Nat
  BY <1>1, <1>2, SumNat
<1> QED BY <1>3 DEF Confirmed, f

LEMMA PaymentStateType ==
  ASSUME NEW paid \in Nat, TotalAmount \in Nat
  PROVE  calculatePaymentStatus(paid) \in PaymentStates
BY DEF calculatePaymentStatus, PaymentStates

LEMMA NewOrderType ==
  ASSUME NEW status \in OrderStatuses, NEW createdAt \in Nat, NEW paid \in Nat, TotalAmount \in Nat
  PROVE  NewOrder(status, createdAt, paid) \in OrderRecords
BY PaymentStateType DEF NewOrder, OrderRecords

\* The tables of the first state, put together.
LEMMA TablesTyped ==
  ASSUME NEW fb, NEW fo, NEW fd, NEW fp, NEW fr, NEW fc,
         \A p \in Products : fb[BalanceRow(p)] \in Balances,
         \A d \in Orders : fo[OrderRow(d)] \in OrderRecords,
         \A d \in Orders : fd[DealRow(d)] \in DealRecords,
         \A k \in Payments : fp[PaymentRow(k)] \in PaymentStatuses,
         \A k \in Rows : fr[ReservationRow(k)] \in ReservationRecords,
         \A p \in Products : fc[ReceiptRow(p)] \in Nat,
         DOMAIN fb = {BalanceRow(p) : p \in Products},
         DOMAIN fo = {OrderRow(d) : d \in Orders},
         DOMAIN fd = {DealRow(d) : d \in Orders},
         DOMAIN fp = {PaymentRow(k) : k \in Payments},
         DOMAIN fr = {ReservationRow(k) : k \in Rows},
         DOMAIN fc = {ReceiptRow(p) : p \in Products}
  PROVE  LET base == Over(fb, Over(fo, Over(fd, Over(fp, Over(fr, fc)))))
         IN  /\ DOMAIN base = AllRows
             /\ Typed(base)
             /\ \A p \in Products : base[BalanceRow(p)] = fb[BalanceRow(p)]
             /\ \A d \in Orders : base[OrderRow(d)] = fo[OrderRow(d)]
             /\ \A d \in Orders : base[DealRow(d)] = fd[DealRow(d)]
             /\ \A k \in Payments : base[PaymentRow(k)] = fp[PaymentRow(k)]
             /\ \A k \in Rows : base[ReservationRow(k)] = fr[ReservationRow(k)]
             /\ \A p \in Products : base[ReceiptRow(p)] = fc[ReceiptRow(p)]
<1> DEFINE f1 == fc
           f2 == Over(fr, f1)
           f3 == Over(fp, f2)
           f4 == Over(fd, f3)
           f5 == Over(fo, f4)
           f6 == Over(fb, f5)
<1>1. /\ Typed(fb) /\ Typed(fo) /\ Typed(fd) /\ Typed(fp) /\ Typed(fr)
  BY RowKeys, KnownRows, ValuesOfKinds DEF Typed
<1>2. Typed(f1)
  BY RowKeys, KnownRows, ValuesOfKinds DEF Typed
<1>3. Typed(f6)
  <2>1. Typed(f2)
    BY <1>1, <1>2, TypedOver
  <2>2. Typed(f3)
    BY <1>1, <2>1, TypedOver
  <2>3. Typed(f4)
    BY <1>1, <2>2, TypedOver
  <2>4. Typed(f5)
    BY <1>1, <2>3, TypedOver
  <2> QED BY <1>1, <2>4, TypedOver
<1>4. DOMAIN f1 = {ReceiptRow(p) : p \in Products} /\ \A p \in Products : f1[ReceiptRow(p)] = fc[ReceiptRow(p)]
  OBVIOUS
<1> HIDE DEF f1
<1>5. /\ DOMAIN f2 = DOMAIN fr \cup DOMAIN f1
      /\ \A r \in DOMAIN fr : f2[r] = fr[r]
      /\ \A r \in DOMAIN f1 \ DOMAIN fr : f2[r] = f1[r]
  BY DEF Over
<1> HIDE DEF f2
<1>6. /\ DOMAIN f3 = DOMAIN fp \cup DOMAIN f2
      /\ \A r \in DOMAIN fp : f3[r] = fp[r]
      /\ \A r \in DOMAIN f2 \ DOMAIN fp : f3[r] = f2[r]
  BY DEF Over
<1> HIDE DEF f3
<1>7. /\ DOMAIN f4 = DOMAIN fd \cup DOMAIN f3
      /\ \A r \in DOMAIN fd : f4[r] = fd[r]
      /\ \A r \in DOMAIN f3 \ DOMAIN fd : f4[r] = f3[r]
  BY DEF Over
<1> HIDE DEF f4
<1>8. /\ DOMAIN f5 = DOMAIN fo \cup DOMAIN f4
      /\ \A r \in DOMAIN fo : f5[r] = fo[r]
      /\ \A r \in DOMAIN f4 \ DOMAIN fo : f5[r] = f4[r]
  BY DEF Over
<1> HIDE DEF f5
<1>9. /\ DOMAIN f6 = DOMAIN fb \cup DOMAIN f5
      /\ \A r \in DOMAIN fb : f6[r] = fb[r]
      /\ \A r \in DOMAIN f5 \ DOMAIN fb : f6[r] = f5[r]
  BY DEF Over
<1>10. /\ DOMAIN f6 = AllRows
       /\ \A p \in Products : f6[BalanceRow(p)] = fb[BalanceRow(p)]
       /\ \A d \in Orders : f6[OrderRow(d)] = fo[OrderRow(d)]
       /\ \A d \in Orders : f6[DealRow(d)] = fd[DealRow(d)]
       /\ \A k \in Payments : f6[PaymentRow(k)] = fp[PaymentRow(k)]
       /\ \A k \in Rows : f6[ReservationRow(k)] = fr[ReservationRow(k)]
       /\ \A p \in Products : f6[ReceiptRow(p)] = fc[ReceiptRow(p)]
  <2> HIDE DEF f6
  <2>1. DOMAIN f6 = AllRows
    BY <1>4, <1>5, <1>6, <1>7, <1>8, <1>9 DEF AllRows
  <2>2. /\ \A p \in Products : f6[BalanceRow(p)] = fb[BalanceRow(p)]
        /\ \A d \in Orders : f6[OrderRow(d)] = fo[OrderRow(d)]
    BY <1>4, <1>5, <1>6, <1>7, <1>8, <1>9, RowKeys
  <2>3. /\ \A d \in Orders : f6[DealRow(d)] = fd[DealRow(d)]
        /\ \A k \in Payments : f6[PaymentRow(k)] = fp[PaymentRow(k)]
    BY <1>4, <1>5, <1>6, <1>7, <1>8, <1>9, RowKeys
  <2>4. /\ \A k \in Rows : f6[ReservationRow(k)] = fr[ReservationRow(k)]
        /\ \A p \in Products : f6[ReceiptRow(p)] = fc[ReceiptRow(p)]
    BY <1>4, <1>5, <1>6, <1>7, <1>8, <1>9, RowKeys
  <2> QED BY <2>1, <2>2, <2>3, <2>4
<1> QED BY <1>3, <1>10 DEF f1, f2, f3, f4, f5, f6

\* The first state, table by table.
AtFirst(status, d, p) == IF status[d] = "WAITING_PAYMENT" THEN scenario.items[d][p] ELSE 0
HeldAtFirst(status, p) == SumUpTo([d \in Orders |-> AtFirst(status, d, p)], NumOrders)

Began(status, paid) ==
  /\ status \in [Orders -> scenario.orders]
  /\ paid \in [Payments -> scenario.payments \cup {"NONE"}]
  /\ \A k \in Payments : k[2] <= scenario.recorded <=> paid[k] # "NONE"
  /\ \A d \in Orders : Confirmed(paid, d) > 0 => status[d] # "NONE" /\ Confirmed(paid, d) <= TotalAmount
  /\ \A p \in Products : HeldAtFirst(status, p) <= scenario.stock[p]

LEMMA HeldAtFirstNat ==
  ASSUME scenario \in Scenarios, NEW status, NEW p \in Products
  PROVE  HeldAtFirst(status, p) \in Nat
<1> DEFINE f == [d \in Orders |-> AtFirst(status, d, p)]
<1>1. NumOrders \in Nat /\ \A d \in 1..NumOrders : f[d] \in Nat
  BY ScenarioType DEF AtFirst, Orders
<1>2. NumOrders \in 0..NumOrders
  BY <1>1
<1> HIDE DEF f
<1>3. SumUpTo(f, NumOrders) \in Nat
  BY <1>1, <1>2, SumNat
<1> QED BY <1>3 DEF f, HeldAtFirst

LEMMA InitTables ==
  ASSUME Init
  PROVE  \E status, paid :
           /\ Began(status, paid)
           /\ DOMAIN db = AllRows /\ Typed(db)
           /\ \A p \in Products : db[BalanceRow(p)] =
                [onHand |-> scenario.stock[p], reserved |-> HeldAtFirst(status, p),
                 available |-> scenario.stock[p] - HeldAtFirst(status, p), version |-> 0]
           /\ \A d \in Orders : db[OrderRow(d)] = NewOrder(status[d], d, Confirmed(paid, d))
           /\ \A d \in Orders : db[DealRow(d)] =
                [supervisor |-> FALSE, installed |-> FALSE, completed |-> FALSE]
           /\ \A k \in Payments : db[PaymentRow(k)] = paid[k]
           /\ \A k \in Rows : db[ReservationRow(k)] =
                IF k[3] = 1 /\ AtFirst(status, k[1], k[2]) > 0
                THEN [quantity |-> scenario.items[k[1]][k[2]], status |-> "ACTIVE", old |-> FALSE]
                ELSE NoRow
           /\ \A p \in Products : db[ReceiptRow(p)] = 0
<1>1. PICK status \in [Orders -> scenario.orders],
           paid \in [Payments -> scenario.payments \cup {"NONE"}] :
       LET reserved(d, p) == IF status[d] = "WAITING_PAYMENT" THEN scenario.items[d][p] ELSE 0
           held(p) == SumUpTo([d \in Orders |-> reserved(d, p)], NumOrders)
       IN  /\ \A k \in Payments : k[2] <= scenario.recorded <=> paid[k] # "NONE"
           /\ \A p \in Products : held(p) <= scenario.stock[p]
           /\ \A d \in Orders :
                /\ status[d] = "WAITING_STOCK" =>
                     \E p \in Products : scenario.stock[p] - held(p) < scenario.items[d][p]
                /\ Confirmed(paid, d) > 0 => status[d] # "NONE" /\ Confirmed(paid, d) <= TotalAmount
           /\ db =
                Over([r \in {BalanceRow(p) : p \in Products} |->
                        [onHand |-> scenario.stock[r[2]], reserved |-> held(r[2]),
                         available |-> scenario.stock[r[2]] - held(r[2]), version |-> 0]],
                Over([r \in {OrderRow(d) : d \in Orders} |->
                        NewOrder(status[r[2]], r[2], Confirmed(paid, r[2]))],
                Over([r \in {DealRow(d) : d \in Orders} |->
                        [supervisor |-> FALSE, installed |-> FALSE, completed |-> FALSE]],
                Over([r \in {PaymentRow(k) : k \in Payments} |-> paid[r[2]]],
                Over([r \in {ReservationRow(k) : k \in Rows} |->
                        IF r[2][3] = 1 /\ reserved(r[2][1], r[2][2]) > 0
                        THEN [quantity |-> scenario.items[r[2][1]][r[2][2]], status |-> "ACTIVE",
                              old |-> FALSE]
                        ELSE NoRow],
                     [r \in {ReceiptRow(p) : p \in Products} |-> 0])))))
  BY ZenonT(60) DEF Init
<1> DEFINE fb == [r \in {BalanceRow(p) : p \in Products} |->
                    [onHand |-> scenario.stock[r[2]], reserved |-> HeldAtFirst(status, r[2]),
                     available |-> scenario.stock[r[2]] - HeldAtFirst(status, r[2]), version |-> 0]]
           fo == [r \in {OrderRow(d) : d \in Orders} |->
                    NewOrder(status[r[2]], r[2], Confirmed(paid, r[2]))]
           fd == [r \in {DealRow(d) : d \in Orders} |->
                    [supervisor |-> FALSE, installed |-> FALSE, completed |-> FALSE]]
           fp == [r \in {PaymentRow(k) : k \in Payments} |-> paid[r[2]]]
           fr == [r \in {ReservationRow(k) : k \in Rows} |->
                    IF r[2][3] = 1 /\ AtFirst(status, r[2][1], r[2][2]) > 0
                    THEN [quantity |-> scenario.items[r[2][1]][r[2][2]], status |-> "ACTIVE",
                          old |-> FALSE]
                    ELSE NoRow]
           fc == [r \in {ReceiptRow(p) : p \in Products} |-> 0]
<1>2. db = Over(fb, Over(fo, Over(fd, Over(fp, Over(fr, fc)))))
  BY <1>1 DEF HeldAtFirst, AtFirst
<1>3. scenario \in Scenarios
  BY DEF Init
<1>4. /\ scenario.orders \subseteq {"NONE", "WAITING_PAYMENT", "WAITING_STOCK"}
      /\ scenario.payments \subseteq {"PENDING", "CONFIRMED"}
  BY <1>3, SizesAssumption
<1>5. \A p \in Products : fb[BalanceRow(p)] =
        [onHand |-> scenario.stock[p], reserved |-> HeldAtFirst(status, p),
         available |-> scenario.stock[p] - HeldAtFirst(status, p), version |-> 0]
  BY RowKeys
<1>6. \A d \in Orders : fo[OrderRow(d)] = NewOrder(status[d], d, Confirmed(paid, d))
  BY RowKeys
<1>7. \A d \in Orders : fd[DealRow(d)] = [supervisor |-> FALSE, installed |-> FALSE, completed |-> FALSE]
  OBVIOUS
<1>8. \A k \in Payments : fp[PaymentRow(k)] = paid[k]
  BY RowKeys
<1>9. \A k \in Rows : fr[ReservationRow(k)] =
        IF k[3] = 1 /\ AtFirst(status, k[1], k[2]) > 0
        THEN [quantity |-> scenario.items[k[1]][k[2]], status |-> "ACTIVE", old |-> FALSE]
        ELSE NoRow
  <2> TAKE k \in Rows
  <2>1. ReservationRow(k)[2] = k /\ ReservationRow(k) \in {ReservationRow(j) : j \in Rows}
    BY RowKeys
  <2> QED BY <2>1
<1>10. /\ \A p \in Products : fb[BalanceRow(p)] \in Balances
       /\ \A d \in Orders : fo[OrderRow(d)] \in OrderRecords
       /\ \A d \in Orders : fd[DealRow(d)] \in DealRecords
       /\ \A k \in Payments : fp[PaymentRow(k)] \in PaymentStatuses
       /\ \A k \in Rows : fr[ReservationRow(k)] \in ReservationRecords
       /\ \A p \in Products : fc[ReceiptRow(p)] = 0 /\ fc[ReceiptRow(p)] \in Nat
  <2>1. \A p \in Products : fb[BalanceRow(p)] \in Balances
    <3> TAKE p \in Products
    <3>1. scenario.stock[p] \in Nat /\ HeldAtFirst(status, p) \in Nat
      BY <1>3, ScenarioType, HeldAtFirstNat
    <3> HIDE DEF fb
    <3>2. fb[BalanceRow(p)] =
            [onHand |-> scenario.stock[p], reserved |-> HeldAtFirst(status, p),
             available |-> scenario.stock[p] - HeldAtFirst(status, p), version |-> 0]
      BY <1>5
    <3>3. scenario.stock[p] - HeldAtFirst(status, p) \in Int
      BY <3>1
    <3> QED BY <3>1, <3>2, <3>3 DEF Balances
  <2>2. \A d \in Orders : fo[OrderRow(d)] \in OrderRecords
    <3>1. \A d \in Orders : d \in Nat /\ status[d] \in OrderStatuses /\ Confirmed(paid, d) \in Nat
      BY <1>3, <1>4, ScenarioType, ConfirmedNat DEF Orders, OrderStatuses
    <3>2. TotalAmount \in Nat
      BY <1>3, ScenarioType
    <3> HIDE DEF fo
    <3> QED BY <1>6, <3>1, <3>2, NewOrderType
  <2>3. \A d \in Orders : fd[DealRow(d)] \in DealRecords
    BY <1>7 DEF DealRecords
  <2>4. \A k \in Payments : fp[PaymentRow(k)] \in PaymentStatuses
    BY <1>4, <1>8 DEF PaymentStatuses
  <2>5. \A k \in Rows : fr[ReservationRow(k)] \in ReservationRecords
    <3> TAKE k \in Rows
    <3>1. k[1] \in Orders /\ k[2] \in Products
      BY DEF Rows
    <3>2. scenario.items[k[1]][k[2]] \in Nat
      BY <1>3, <3>1, ScenarioType
    <3> HIDE DEF fr
    <3>3. \/ fr[ReservationRow(k)] =
               [quantity |-> scenario.items[k[1]][k[2]], status |-> "ACTIVE", old |-> FALSE]
          \/ fr[ReservationRow(k)] = NoRow
      BY <1>9
    <3>4. /\ [quantity |-> scenario.items[k[1]][k[2]], status |-> "ACTIVE", old |-> FALSE]
               \in ReservationRecords
          /\ NoRow \in ReservationRecords
      BY <3>2 DEF ReservationRecords, NoRow
    <3> QED BY <3>3, <3>4
  <2>6. \A p \in Products : fc[ReceiptRow(p)] = 0 /\ fc[ReceiptRow(p)] \in Nat
    OBVIOUS
  <2> QED BY <2>1, <2>2, <2>3, <2>4, <2>5, <2>6
<1>11. /\ DOMAIN fb = {BalanceRow(p) : p \in Products}
       /\ DOMAIN fo = {OrderRow(d) : d \in Orders}
       /\ DOMAIN fd = {DealRow(d) : d \in Orders}
       /\ DOMAIN fp = {PaymentRow(k) : k \in Payments}
       /\ DOMAIN fr = {ReservationRow(k) : k \in Rows}
       /\ DOMAIN fc = {ReceiptRow(p) : p \in Products}
  OBVIOUS
<1> HIDE DEF fb, fo, fd, fp, fr, fc
<1>12. /\ DOMAIN db = AllRows /\ Typed(db)
       /\ \A p \in Products : db[BalanceRow(p)] = fb[BalanceRow(p)]
       /\ \A d \in Orders : db[OrderRow(d)] = fo[OrderRow(d)]
       /\ \A d \in Orders : db[DealRow(d)] = fd[DealRow(d)]
       /\ \A k \in Payments : db[PaymentRow(k)] = fp[PaymentRow(k)]
       /\ \A k \in Rows : db[ReservationRow(k)] = fr[ReservationRow(k)]
       /\ \A p \in Products : db[ReceiptRow(p)] = fc[ReceiptRow(p)]
  BY <1>2, <1>10, <1>11, TablesTyped
<1>13. Began(status, paid)
  BY ZenonT(60), <1>1 DEF Began, HeldAtFirst, AtFirst
<1> QED BY <1>5, <1>6, <1>7, <1>8, <1>9, <1>10, <1>12, <1>13

LEMMA InitTypes == Init => TxTypes
<1> SUFFICES ASSUME Init PROVE TxTypes
  OBVIOUS
<1>1. DOMAIN db = AllRows /\ Typed(db)
  BY InitTables
<1>2. SessionsTyped
  BY ZenonT(60), <1>1, IdleTypes DEF SessionsTyped, Init
<1>3. Exclusive
  BY DEF Exclusive, Init, Nothing
<1> QED BY <1>2, <1>3 DEF TxTypes

LEMMA LocalFacts ==
  ASSUME TxTypes, NEW s \in Sessions
  PROVE  /\ Typed(mine[s]) /\ call[s] \in CallRecords /\ StepsOf(call[s]) /\ Memory(call[s])
         /\ Locks(DOMAIN mine[s], call[s])
         /\ call = [t \in Sessions |-> call[t]] /\ mine = [t \in Sessions |-> mine[t]]
         /\ scenario \in Scenarios /\ calls \in Nat
BY DEF TxTypes, SessionsTyped, LocalTypes, Shape

LEMMA ActiveRowsType ==
  ASSUME TxTypes, NEW s \in Sessions, NEW d, NEW products
  PROVE  LET rows == ActiveRows(s, d, products)
         IN  /\ rows \in UNION {[S -> Nat] : S \in SUBSET Rows}
             /\ DOMAIN rows = {j \in Rows : /\ j[1] = d /\ j[2] \in products
                                            /\ Read(s, ReservationRow(j)).status = "ACTIVE"}
             /\ \A k \in DOMAIN rows : rows[k] = Read(s, ReservationRow(k)).quantity /\ rows[k] \in Nat
             /\ \A k \in DOMAIN rows : k[1] = d /\ k[2] \in products
<1> DEFINE S == {j \in Rows : /\ j[1] = d /\ j[2] \in products
                              /\ Read(s, ReservationRow(j)).status = "ACTIVE"}
<1>1. \A k \in S : Read(s, ReservationRow(k)).quantity \in Nat
  BY ReadTypes DEF ReservationRecords
<1>2. ActiveRows(s, d, products) = [k \in S |-> Read(s, ReservationRow(k)).quantity]
  BY DEF ActiveRows
<1>3. S \subseteq Rows /\ \A k \in S : k[1] = d /\ k[2] \in products
  OBVIOUS
<1> HIDE DEF S
<1>4. ActiveRows(s, d, products) \in [S -> Nat] /\ DOMAIN ActiveRows(s, d, products) = S
  BY <1>1, <1>2
<1> QED BY <1>1, <1>2, <1>3, <1>4 DEF S

LEMMA ReadBalanceTypes ==
  ASSUME TxTypes, NEW s \in Sessions, ReadBalance(s)
  PROVE  TxTypes'
<1> DEFINE c == call[s]
<1>1. c \in CallRecords /\ StepsOf(c) /\ Memory(c) /\ Locks(DOMAIN mine[s], c)
  BY LocalFacts
<1>2. PICK p \in c.products :
        Keep(s, [c EXCEPT !.product = p, !.step = "claim", !.seen = Read(s, BalanceRow(p)).version])
  BY DEF ReadBalance
<1>3. c.step = "reserve" /\ UNCHANGED <<db, mine, calls, scenario>>
  BY DEF ReadBalance, At, Statement
<1> DEFINE v == Read(s, BalanceRow(p)).version
           next == [c EXCEPT !.product = p, !.step = "claim", !.seen = v]
<1>4. p \in Products /\ v \in Nat
  BY <1>1, ReadTypes DEF CallRecords, Balances
<1> HIDE DEF c, v
<1>5. next \in CallRecords
  <2>1. c \in CallRecords /\ "claim" \in Steps
    BY <1>1 DEF Steps
  <2> QED BY <1>4, <2>1 DEF CallRecords
<1>6. StepsOf(next)
  BY <1>1, <1>3 DEF CallRecords, StepsOf
<1>7. Memory(next)
  BY <1>1, <1>2, <1>3, <1>4 DEF CallRecords, StepsOf, Memory, Releasing
<1>8. Locks(DOMAIN mine[s], next)
  BY <1>1, <1>3 DEF CallRecords, StepsOf, Locks, HasDeal, HasOrder, Releasing, Fulfilment
<1> QED BY <1>2, <1>3, <1>5, <1>6, <1>7, <1>8, ReadingTypes DEF v

LEMMA ReadRowsTypes ==
  ASSUME TxTypes, NEW s \in Sessions, ReadRows(s)
  PROVE  TxTypes'
<1> DEFINE c == call[s]
           next == [c EXCEPT !.rows = ActiveRows(s, c.order, Products), !.step = "release"]
<1>1. c \in CallRecords /\ StepsOf(c) /\ Memory(c) /\ Locks(DOMAIN mine[s], c)
  BY LocalFacts
<1>2. c.step = "readRows" /\ Keep(s, next) /\ UNCHANGED <<db, mine, calls, scenario>>
  BY DEF ReadRows, At, Statement
<1>3. /\ next.rows \in UNION {[S -> Nat] : S \in SUBSET Rows}
      /\ \A k \in DOMAIN next.rows : k[1] = c.order
  <2> DEFINE rows == ActiveRows(s, c.order, Products)
  <2>1. next.rows = rows
    BY <1>1 DEF CallRecords
  <2>2. /\ rows \in UNION {[S -> Nat] : S \in SUBSET Rows}
        /\ \A k \in DOMAIN rows : k[1] = c.order
    <3> DEFINE d == c.order
    <3> HIDE DEF d
    <3>1. /\ ActiveRows(s, d, Products) \in UNION {[S -> Nat] : S \in SUBSET Rows}
          /\ \A k \in DOMAIN ActiveRows(s, d, Products) : k[1] = d /\ k[2] \in Products
      BY ActiveRowsType
    <3> QED BY <3>1 DEF d
  <2> HIDE DEF rows, next
  <2> QED BY <2>1, <2>2
<1> HIDE DEF c
<1>4. next \in CallRecords
  BY <1>1, <1>2, <1>3 DEF CallRecords, Steps
<1>5. StepsOf(next)
  BY <1>1, <1>2, <1>3 DEF CallRecords, StepsOf, Releasing, Fulfilment
<1>6. Memory(next)
  BY <1>1, <1>2, <1>3 DEF CallRecords, StepsOf, Memory, Releasing, Fulfilment
<1>7. Locks(DOMAIN mine[s], next)
  BY <1>1, <1>2, <1>3 DEF CallRecords, StepsOf, Memory, Locks, HasDeal, HasOrder, Releasing, Fulfilment
<1> QED BY <1>1, <1>2, <1>4, <1>5, <1>6, <1>7, ReadingTypes

LEMMA RecheckTypes ==
  ASSUME TxTypes, NEW s \in Sessions, Recheck(s)
  PROVE  TxTypes'
<1> DEFINE c == call[s]
<1>1. c \in CallRecords /\ StepsOf(c) /\ Memory(c) /\ Locks(DOMAIN mine[s], c)
  BY LocalFacts
<1>2. c.step = "recheck"
  BY DEF Recheck, At
<1>3. ASSUME TRUE,
           Keep(s, [c EXCEPT !.step = "release"]),
           UNCHANGED <<db, mine, calls, scenario>>
      PROVE  TxTypes'
  <2> DEFINE next == [c EXCEPT !.step = "release"]
  <2> HIDE DEF c
  <2>1. next \in CallRecords
    BY <1>1, <1>2, <1>3 DEF CallRecords, Steps
  <2>2. StepsOf(next)
    BY <1>1, <1>2, <1>3 DEF CallRecords, StepsOf, Releasing, Fulfilment
  <2>3. Memory(next)
    BY <1>1, <1>2, <1>3 DEF CallRecords, StepsOf, Memory, Releasing, Fulfilment
  <2>4. Locks(DOMAIN mine[s], next)
    BY <1>1, <1>2, <1>3 DEF CallRecords, StepsOf, Memory, Locks, HasDeal, HasOrder, Releasing, Fulfilment
  <2> QED BY <1>1, <1>2, <1>3, <2>1, <2>2, <2>3, <2>4, ReadingTypes
<1>4. CASE Rollback(s)
  BY <1>4, RollbackTypes
<1> QED BY <1>3, <1>4 DEF Recheck, Go, Statement

LEMMA CountTypes ==
  ASSUME TxTypes, NEW s \in Sessions, Count(s)
  PROVE  TxTypes'
<1> DEFINE c == call[s]
<1>1. c \in CallRecords /\ StepsOf(c) /\ Memory(c) /\ Locks(DOMAIN mine[s], c)
  BY LocalFacts
<1>2. c.step = "count"
  BY DEF Count, At
<1>3. ASSUME TRUE,
           Keep(s, [c EXCEPT !.step = "revert"]),
           UNCHANGED <<db, mine, calls, scenario>>
      PROVE  TxTypes'
  <2> DEFINE next == [c EXCEPT !.step = "revert"]
  <2> HIDE DEF c
  <2>1. next \in CallRecords
    BY <1>1, <1>2, <1>3 DEF CallRecords, Steps
  <2>2. StepsOf(next)
    BY <1>1, <1>2, <1>3 DEF CallRecords, StepsOf, Releasing, Fulfilment
  <2>3. Memory(next)
    BY <1>1, <1>2, <1>3 DEF CallRecords, StepsOf, Memory, Releasing, Fulfilment
  <2>4. Locks(DOMAIN mine[s], next)
    BY <1>1, <1>2, <1>3 DEF CallRecords, StepsOf, Memory, Locks, HasDeal, HasOrder, Releasing, Fulfilment
  <2> QED BY <1>1, <1>2, <1>3, <2>1, <2>2, <2>3, <2>4, ReadingTypes
<1>4. ASSUME TRUE,
           Keep(s, [c EXCEPT !.step = "commit"]),
           UNCHANGED <<db, mine, calls, scenario>>
      PROVE  TxTypes'
  <2> DEFINE next == [c EXCEPT !.step = "commit"]
  <2> HIDE DEF c
  <2>1. next \in CallRecords
    BY <1>1, <1>2, <1>4 DEF CallRecords, Steps
  <2>2. StepsOf(next)
    BY <1>1, <1>2, <1>4 DEF CallRecords, StepsOf, Releasing, Fulfilment
  <2>3. Memory(next)
    BY <1>1, <1>2, <1>4 DEF CallRecords, StepsOf, Memory, Releasing, Fulfilment
  <2>4. Locks(DOMAIN mine[s], next)
    BY <1>1, <1>2, <1>4 DEF CallRecords, StepsOf, Memory, Locks, HasDeal, HasOrder, Releasing, Fulfilment
  <2> QED BY <1>1, <1>2, <1>4, <2>1, <2>2, <2>3, <2>4, ReadingTypes
<1> QED BY <1>3, <1>4 DEF Count, Go, Statement

LEMMA ReadStockTypes ==
  ASSUME TxTypes, NEW s \in Sessions, ReadStock(s)
  PROVE  TxTypes'
<1> DEFINE c == call[s]
           next == [c EXCEPT !.step = "consume", !.seen = Read(s, BalanceRow(c.product)).version]
<1>1. c \in CallRecords /\ StepsOf(c) /\ Memory(c) /\ Locks(DOMAIN mine[s], c)
  BY LocalFacts
<1>2. c.step = "stock" /\ Keep(s, next) /\ UNCHANGED <<db, mine, calls, scenario>>
  BY DEF ReadStock, At, Statement
<1>3. Read(s, BalanceRow(c.product)).version \in Nat
  BY <1>1, <1>2, ReadTypes DEF Memory, Balances
<1> HIDE DEF c
<1>4. next \in CallRecords
  BY <1>1, <1>2, <1>3 DEF CallRecords, Steps
<1>5. StepsOf(next)
  BY <1>1, <1>2, <1>3 DEF CallRecords, StepsOf, Releasing, Fulfilment
<1>6. Memory(next)
  BY <1>1, <1>2, <1>3 DEF CallRecords, StepsOf, Memory, Releasing, Fulfilment
<1>7. Locks(DOMAIN mine[s], next)
  BY <1>1, <1>2, <1>3 DEF CallRecords, StepsOf, Memory, Locks, HasDeal, HasOrder, Releasing, Fulfilment
<1> QED BY <1>1, <1>2, <1>4, <1>5, <1>6, <1>7, ReadingTypes

LEMMA ReadArrivalTypes ==
  ASSUME TxTypes, NEW s \in Sessions, ReadArrival(s)
  PROVE  TxTypes'
<1> DEFINE c == call[s]
           next == [c EXCEPT !.step = "put", !.seen = Read(s, BalanceRow(c.product)).version]
<1>1. c \in CallRecords /\ StepsOf(c) /\ Memory(c) /\ Locks(DOMAIN mine[s], c)
  BY LocalFacts
<1>2. c.step = "arrive" /\ Keep(s, next) /\ UNCHANGED <<db, mine, calls, scenario>>
  BY DEF ReadArrival, At, Statement
<1>3. Read(s, BalanceRow(c.product)).version \in Nat
  BY <1>1, <1>2, ReadTypes DEF Memory, Balances
<1> HIDE DEF c
<1>4. next \in CallRecords
  BY <1>1, <1>2, <1>3 DEF CallRecords, Steps
<1>5. StepsOf(next)
  BY <1>1, <1>2, <1>3 DEF CallRecords, StepsOf, Releasing, Fulfilment
<1>6. Memory(next)
  BY <1>1, <1>2, <1>3 DEF CallRecords, StepsOf, Memory, Releasing, Fulfilment
<1>7. Locks(DOMAIN mine[s], next)
  BY <1>1, <1>2, <1>3 DEF CallRecords, StepsOf, Memory, Locks, HasDeal, HasOrder, Releasing, Fulfilment
<1> QED BY <1>1, <1>2, <1>4, <1>5, <1>6, <1>7, ReadingTypes

LEMMA ListWaitingTypes ==
  ASSUME TxTypes, NEW s \in Sessions, ListWaiting(s)
  PROVE  TxTypes'
<1> DEFINE c == call[s]
           next == [c EXCEPT !.step = "next", !.waiting = {d \in Orders : Read(s, OrderRow(d)).status = "WAITING_STOCK"}]
<1>1. c \in CallRecords /\ StepsOf(c) /\ Memory(c) /\ Locks(DOMAIN mine[s], c)
  BY LocalFacts
<1>2. c.step = "list" /\ Keep(s, next) /\ UNCHANGED <<db, mine, calls, scenario>>
  BY DEF ListWaiting, At, Statement
<1> HIDE DEF c
<1>3. next \in CallRecords
  BY <1>1, <1>2 DEF CallRecords, Steps
<1>4. StepsOf(next)
  BY <1>1, <1>2 DEF CallRecords, StepsOf, Releasing, Fulfilment
<1>5. Memory(next)
  BY <1>1, <1>2 DEF CallRecords, StepsOf, Memory, Releasing, Fulfilment
<1>6. Locks(DOMAIN mine[s], next)
  BY <1>1, <1>2 DEF CallRecords, StepsOf, Memory, Locks, HasDeal, HasOrder, Releasing, Fulfilment
<1> QED BY <1>1, <1>2, <1>3, <1>4, <1>5, <1>6, ReadingTypes

LEMMA ReadOrderTypes ==
  ASSUME TxTypes, NEW s \in Sessions, ReadOrder(s)
  PROVE  TxTypes'
<1> DEFINE c == call[s]
<1>1. c \in CallRecords /\ StepsOf(c) /\ Memory(c) /\ Locks(DOMAIN mine[s], c)
  BY LocalFacts
<1>2. c.step = "readOrder"
  BY DEF ReadOrder, At
<1>3. CASE Rollback(s)
  BY <1>3, RollbackTypes
<1>4. ASSUME TRUE,
           Keep(s, [c EXCEPT !.version = Read(s, OrderRow(c.order)).version, !.cached = Read(s, OrderRow(c.order)).paymentStatus, !.step = "lock", !.locks = FulfilmentLocks("confirm")]),
           UNCHANGED <<db, mine, calls, scenario>>
      PROVE  TxTypes'
  <2> DEFINE next == [c EXCEPT !.version = Read(s, OrderRow(c.order)).version, !.cached = Read(s, OrderRow(c.order)).paymentStatus, !.step = "lock", !.locks = FulfilmentLocks("confirm")]
  <2>1. Read(s, OrderRow(c.order)).version \in Nat /\ Read(s, OrderRow(c.order)).paymentStatus \in PaymentStates /\ FulfilmentLocks("confirm") = BothLocks
    BY <1>1, <1>2, ReadTypes DEF StepsOf, Memory, OrderRecords, FulfilmentLocks, BothLocks
  <2>1a. BothLocks \in LockLists
    BY DEF LockLists
  <2> HIDE DEF c
  <2>2. next \in CallRecords
    BY <1>1, <1>2, <1>4, <2>1, <2>1a DEF CallRecords, Steps
  <2>3. StepsOf(next)
    BY <1>1, <1>2, <1>4, <2>1 DEF CallRecords, StepsOf, Releasing, Fulfilment
  <2>4. Memory(next)
    BY <1>1, <1>2, <1>4, <2>1 DEF CallRecords, StepsOf, Memory, Releasing, Fulfilment
  <2>5. Locks(DOMAIN mine[s], next)
    BY <1>1, <1>2, <1>4, <2>1 DEF CallRecords, StepsOf, Memory, Locks, HasDeal, HasOrder, Releasing, Fulfilment
  <2> QED BY <1>1, <1>2, <1>4, <2>2, <2>3, <2>4, <2>5, ReadingTypes
<1> QED BY <1>3, <1>4 DEF ReadOrder, Go, Statement

LEMMA ReadReleasedTypes ==
  ASSUME TxTypes, NEW s \in Sessions, ReadReleased(s)
  PROVE  TxTypes'
<1> DEFINE c == call[s]
<1>1. c \in CallRecords /\ StepsOf(c) /\ Memory(c) /\ Locks(DOMAIN mine[s], c)
  BY LocalFacts
<1>2. c.step = "release" /\ UNCHANGED <<db, mine, calls, scenario>>
  BY DEF ReadReleased, At, Statement
<1>3. ASSUME DOMAIN c.rows = {}, Go(s, IF c.handler = "expire" THEN "count" ELSE "close")
      PROVE  TxTypes'
  <2>1. PICK step \in {"count", "close"} :
          /\ step = "count" <=> c.handler = "expire"
          /\ Keep(s, [c EXCEPT !.step = step])
    <3>1. CASE c.handler = "expire"
      BY <1>3, <3>1 DEF Go
    <3>2. CASE c.handler # "expire"
      BY <1>3, <3>2 DEF Go
    <3> QED BY <3>1, <3>2
  <2> DEFINE next == [c EXCEPT !.step = step]
  <2> HIDE DEF c
  <2>2. next \in CallRecords
    BY <1>1, <1>2, <1>3, <2>1 DEF CallRecords, Steps, Memory
  <2>3. StepsOf(next)
    BY <1>1, <1>2, <1>3, <2>1 DEF CallRecords, StepsOf, Releasing, Fulfilment
  <2>4. Memory(next)
    BY <1>1, <1>2, <1>3, <2>1 DEF CallRecords, StepsOf, Memory, Releasing, Fulfilment
  <2>5. Locks(DOMAIN mine[s], next)
    BY <1>1, <1>2, <1>3, <2>1 DEF CallRecords, StepsOf, Memory, Locks, HasDeal, HasOrder, Releasing, Fulfilment
  <2> QED BY <1>2, <2>1, <2>2, <2>3, <2>4, <2>5, ReadingTypes
<1>4. ASSUME NEW k \in DOMAIN c.rows,
             Keep(s, [c EXCEPT !.row = k, !.step = "giveBack", !.seen = Read(s, BalanceRow(k[2])).version])
      PROVE  TxTypes'
  <2> DEFINE next == [c EXCEPT !.row = k, !.step = "giveBack", !.seen = Read(s, BalanceRow(k[2])).version]
  <2>1. k \in Rows /\ k[2] \in Products
    BY <1>1, <1>4 DEF CallRecords, Rows
  <2>2. Read(s, BalanceRow(k[2])).version \in Nat
    BY <2>1, ReadTypes DEF Balances
  <2> HIDE DEF c
  <2>3. next \in CallRecords
    BY <1>1, <1>2, <1>4, <2>1, <2>2 DEF CallRecords, Steps, Memory
  <2>4. StepsOf(next)
    BY <1>1, <1>2, <1>4, <2>1, <2>2 DEF CallRecords, StepsOf, Releasing, Fulfilment
  <2>5. Memory(next)
    BY <1>1, <1>2, <1>4, <2>1, <2>2 DEF CallRecords, StepsOf, Memory, Releasing, Fulfilment
  <2>6. Locks(DOMAIN mine[s], next)
    BY <1>1, <1>2, <1>4, <2>1, <2>2 DEF CallRecords, StepsOf, Memory, Locks, HasDeal, HasOrder, Releasing, Fulfilment
  <2> QED BY <1>2, <1>4, <2>3, <2>4, <2>5, <2>6, ReadingTypes
<1> QED BY <1>3, <1>4 DEF ReadReleased

LEMMA ReadGoodsTypes ==
  ASSUME TxTypes, NEW s \in Sessions, ReadGoods(s)
  PROVE  TxTypes'
<1> DEFINE c == call[s]
<1>1. c \in CallRecords /\ StepsOf(c) /\ Memory(c) /\ Locks(DOMAIN mine[s], c)
  BY LocalFacts
<1>2. c.step = "goods"
  BY DEF ReadGoods, At
<1>3. ASSUME c.products = {}, Keep(s, [c EXCEPT !.step = "ship"]), UNCHANGED <<db, mine, calls, scenario>>
      PROVE  TxTypes'
  <2> DEFINE next == [c EXCEPT !.step = "ship"]
  <2> HIDE DEF c
  <2>1. next \in CallRecords
    BY <1>1, <1>2, <1>3 DEF CallRecords, Steps, Memory
  <2>2. StepsOf(next)
    BY <1>1, <1>2, <1>3 DEF CallRecords, StepsOf, Releasing, Fulfilment
  <2>3. Memory(next)
    BY <1>1, <1>2, <1>3 DEF CallRecords, StepsOf, Memory, Releasing, Fulfilment
  <2>4. Locks(DOMAIN mine[s], next)
    BY <1>1, <1>2, <1>3 DEF CallRecords, StepsOf, Memory, Locks, HasDeal, HasOrder, Releasing, Fulfilment
  <2> QED BY <1>3, <2>1, <2>2, <2>3, <2>4, ReadingTypes
<1>4. ASSUME NEW p \in c.products,
             Keep(s, [c EXCEPT !.step = "stock", !.product = p, !.rows = ActiveRows(s, c.order, {p})]),
             UNCHANGED <<db, mine, calls, scenario>>
      PROVE  TxTypes'
  <2> DEFINE next == [c EXCEPT !.step = "stock", !.product = p, !.rows = ActiveRows(s, c.order, {p})]
  <2>1. /\ ActiveRows(s, c.order, {p}) \in UNION {[S -> Nat] : S \in SUBSET Rows} /\ p \in Products
        /\ \A k \in DOMAIN ActiveRows(s, c.order, {p}) : k[1] = c.order /\ k[2] = p
    <3> DEFINE d == c.order
    <3>1. p \in Products
      BY <1>1 DEF CallRecords
    <3> HIDE DEF d
    <3>2. /\ ActiveRows(s, d, {p}) \in UNION {[S -> Nat] : S \in SUBSET Rows}
          /\ \A k \in DOMAIN ActiveRows(s, d, {p}) : k[1] = d /\ k[2] \in {p}
      BY ActiveRowsType
    <3> QED BY <3>1, <3>2 DEF d
  <2>a. next.rows = ActiveRows(s, c.order, {p}) /\ next.product = p /\ next.order = c.order
    BY <1>1 DEF CallRecords
  <2> HIDE DEF c
  <2>2. next \in CallRecords
    BY <1>1, <1>2, <1>4, <2>1 DEF CallRecords, Steps, Memory
  <2>3. StepsOf(next)
    BY <1>1, <1>2, <1>4, <2>1 DEF CallRecords, StepsOf, Releasing, Fulfilment
  <2>4. Memory(next)
    BY <1>1, <1>2, <1>4, <2>1 DEF CallRecords, StepsOf, Memory, Releasing, Fulfilment
  <2>5. Locks(DOMAIN mine[s], next)
    BY <1>1, <1>2, <1>4, <2>1 DEF CallRecords, StepsOf, Memory, Locks, HasDeal, HasOrder, Releasing, Fulfilment
  <2> QED BY <1>4, <2>2, <2>3, <2>4, <2>5, ReadingTypes
<1>5. CASE Rollback(s)
  BY <1>5, RollbackTypes
<1> QED BY <1>3, <1>4, <1>5 DEF ReadGoods, Go, Statement

LEMMA NextWaitingTypes ==
  ASSUME TxTypes, NEW s \in Sessions, NextWaiting(s)
  PROVE  TxTypes'
<1> DEFINE c == call[s]
<1>1. c \in CallRecords /\ StepsOf(c) /\ Memory(c) /\ Locks(DOMAIN mine[s], c)
  BY LocalFacts
<1>2. c.step = "next" /\ UNCHANGED <<db, mine, calls, scenario>>
  BY DEF NextWaiting, At, Statement
<1>3. ASSUME Keep(s, [c EXCEPT !.step = "commit"])
      PROVE  TxTypes'
  <2> DEFINE next == [c EXCEPT !.step = "commit"]
  <2> HIDE DEF c
  <2>1. next \in CallRecords
    BY <1>1, <1>2 DEF CallRecords, Steps, Memory
  <2>2. StepsOf(next)
    BY <1>1, <1>2 DEF CallRecords, StepsOf, Releasing, Fulfilment
  <2>3. Memory(next)
    BY <1>1, <1>2 DEF CallRecords, StepsOf, Memory, Releasing, Fulfilment
  <2>4. Locks(DOMAIN mine[s], next)
    BY <1>1, <1>2 DEF CallRecords, StepsOf, Memory, Locks, HasDeal, HasOrder, Releasing, Fulfilment
  <2> QED BY <1>2, <1>3, <2>1, <2>2, <2>3, <2>4, ReadingTypes
<1>4. ASSUME NEW d \in c.waiting,
             Keep(s, [c EXCEPT !.order = d, !.waiting = @ \ {d}, !.products = Wanted(d), !.step = "reserve"])
      PROVE  TxTypes'
  <2> DEFINE next == [c EXCEPT !.order = d, !.waiting = c.waiting \ {d}, !.products = Wanted(d),
                               !.step = "reserve"]
  <2>1. d \in Orders /\ Wanted(d) \subseteq Products
    BY <1>1 DEF CallRecords, Wanted
  <2>2. Keep(s, next)
    BY <1>4
  <2> HIDE DEF c
  <2>3. next \in CallRecords
    BY <1>1, <1>2, <1>4, <2>1 DEF CallRecords, Steps, Memory
  <2>4. StepsOf(next)
    BY <1>1, <1>2, <1>4, <2>1 DEF CallRecords, StepsOf, Releasing, Fulfilment
  <2>5. Memory(next)
    BY <1>1, <1>2, <1>4, <2>1 DEF CallRecords, StepsOf, Memory, Releasing, Fulfilment
  <2>6. Locks(DOMAIN mine[s], next)
    BY <1>1, <1>2, <1>4, <2>1 DEF CallRecords, StepsOf, Memory, Locks, HasDeal, HasOrder, Releasing, Fulfilment
  <2> QED BY <1>2, <2>2, <2>3, <2>4, <2>5, <2>6, ReadingTypes
<1> QED BY <1>3, <1>4 DEF NextWaiting, Go

-----------------------------------------------------------------------------
\* What statements write.

\* A change of an order's status, with or without a new version.
OrderChanged(old, new, status, bump) ==
  /\ new \in OrderRecords
  /\ new.status = status /\ new.version = old.version + bump
  /\ new.delivered = old.delivered
  /\ new.paidAmount = old.paidAmount /\ new.paymentStatus = old.paymentStatus

\* A change of a balance by what goes on hand, is reserved and becomes available.
BalanceChanged(old, new, onHand, reserved, available) ==
  /\ new \in Balances
  /\ new.onHand = old.onHand + onHand
  /\ new.reserved = old.reserved + reserved
  /\ new.available = old.available + available
  /\ new.version = old.version + 1

\* tryFinalize leaves an order as it is, or completes it once it was shipped.
PerhapsCompleted(old, new) ==
  \/ new = old
  \/ old.status = "SHIPPED" /\ OrderChanged(old, new, "COMPLETED", 1)

LEMMA OrderUpdates ==
  ASSUME NEW o \in OrderRecords, NEW status \in OrderStatuses
  PROVE  /\ OrderChanged(o, [o EXCEPT !.status = status], status, 0)
         /\ OrderChanged(o, [Bumped(o) EXCEPT !.status = status], status, 1)
<1>1. o.version + 1 \in Nat /\ o.version + 0 = o.version
  BY DEF OrderRecords
<1>2. Bumped(o) \in OrderRecords /\ OrderChanged(o, Bumped(o), o.status, 1)
  BY <1>1 DEF OrderRecords, OrderChanged, Bumped
<1>3. OrderChanged(o, [o EXCEPT !.status = status], status, 0)
  BY <1>1 DEF OrderRecords, OrderChanged
<1>4. OrderChanged(o, [Bumped(o) EXCEPT !.status = status], status, 1)
  <2> DEFINE n == Bumped(o)
  <2>1. n \in OrderRecords /\ OrderChanged(o, n, o.status, 1)
    BY <1>2
  <2> HIDE DEF n
  <2>2. [n EXCEPT !.status = status] \in OrderRecords
    BY <2>1 DEF OrderRecords
  <2>3. OrderChanged(n, [n EXCEPT !.status = status], status, 0)
    BY <2>1, <2>2 DEF OrderRecords, OrderChanged
  <2> QED BY <1>1, <2>1, <2>2, <2>3 DEF OrderChanged, OrderRecords, n
<1> QED BY <1>3, <1>4

LEMMA BumpedBalance ==
  ASSUME NEW b \in Balances
  PROVE  /\ Bumped(b) \in Balances
         /\ Bumped(b).onHand = b.onHand /\ b.onHand \in Int
         /\ Bumped(b).reserved = b.reserved /\ b.reserved \in Int
         /\ Bumped(b).available = b.available /\ b.available \in Int
         /\ Bumped(b).version = b.version + 1 /\ b.version \in Nat
BY DEF Balances, Bumped

LEMMA BalanceUpdates ==
  ASSUME NEW b \in Balances, NEW x \in Int
  PROVE  /\ BalanceChanged(b, [Bumped(b) EXCEPT !.reserved = @ + x, !.available = @ - x], 0, x, 0 - x)
         /\ BalanceChanged(b, [Bumped(b) EXCEPT !.reserved = @ - x, !.available = @ + x], 0, 0 - x, x)
         /\ BalanceChanged(b, [Bumped(b) EXCEPT !.onHand = @ - x, !.reserved = @ - x], 0 - x, 0 - x, 0)
         /\ BalanceChanged(b, [Bumped(b) EXCEPT !.onHand = @ + x, !.available = @ + x], x, 0, x)
<1> DEFINE n == Bumped(b)
<1>1. /\ n \in Balances
      /\ n.onHand = b.onHand /\ n.reserved = b.reserved /\ n.available = b.available
      /\ n.version = b.version + 1
      /\ b.onHand \in Int /\ b.reserved \in Int /\ b.available \in Int /\ b.version \in Nat
  BY BumpedBalance
<1> HIDE DEF n
<1>2. BalanceChanged(b, [n EXCEPT !.reserved = @ + x, !.available = @ - x], 0, x, 0 - x)
  <2> DEFINE m == [n EXCEPT !.reserved = @ + x, !.available = @ - x]
  <2>1. m.onHand = n.onHand /\ m.version = n.version
    BY <1>1 DEF Balances
  <2>2. m.reserved = n.reserved + x
    BY <1>1 DEF Balances
  <2>3. m.available = n.available - x
    BY <1>1 DEF Balances
  <2>4. n.reserved + x \in Int /\ n.available - x \in Int
    BY <1>1
  <2>5. m \in Balances
    BY <1>1, <2>4 DEF Balances
  <2> HIDE DEF m
  <2>6. BalanceChanged(b, m, 0, x, 0 - x)
    BY <1>1, <2>1, <2>2, <2>3, <2>5 DEF BalanceChanged
  <2> QED BY <2>6 DEF m
<1>3. BalanceChanged(b, [n EXCEPT !.reserved = @ - x, !.available = @ + x], 0, 0 - x, x)
  <2> DEFINE m == [n EXCEPT !.reserved = @ - x, !.available = @ + x]
  <2>1. m.onHand = n.onHand /\ m.version = n.version
    BY <1>1 DEF Balances
  <2>2. m.reserved = n.reserved - x
    BY <1>1 DEF Balances
  <2>3. m.available = n.available + x
    BY <1>1 DEF Balances
  <2>4. n.reserved - x \in Int /\ n.available + x \in Int
    BY <1>1
  <2>5. m \in Balances
    BY <1>1, <2>4 DEF Balances
  <2> HIDE DEF m
  <2>6. BalanceChanged(b, m, 0, 0 - x, x)
    BY <1>1, <2>1, <2>2, <2>3, <2>5 DEF BalanceChanged
  <2> QED BY <2>6 DEF m
<1>4. BalanceChanged(b, [n EXCEPT !.onHand = @ - x, !.reserved = @ - x], 0 - x, 0 - x, 0)
  <2> DEFINE m == [n EXCEPT !.onHand = @ - x, !.reserved = @ - x]
  <2>1. m.available = n.available /\ m.version = n.version
    BY <1>1 DEF Balances
  <2>2. m.onHand = n.onHand - x
    BY <1>1 DEF Balances
  <2>3. m.reserved = n.reserved - x
    BY <1>1 DEF Balances
  <2>4. n.onHand - x \in Int /\ n.reserved - x \in Int
    BY <1>1
  <2>5. m \in Balances
    BY <1>1, <2>4 DEF Balances
  <2> HIDE DEF m
  <2>6. BalanceChanged(b, m, 0 - x, 0 - x, 0)
    BY <1>1, <2>1, <2>2, <2>3, <2>5 DEF BalanceChanged
  <2> QED BY <2>6 DEF m
<1>5. BalanceChanged(b, [n EXCEPT !.onHand = @ + x, !.available = @ + x], x, 0, x)
  <2> DEFINE m == [n EXCEPT !.onHand = @ + x, !.available = @ + x]
  <2>1. m.reserved = n.reserved /\ m.version = n.version
    BY <1>1 DEF Balances
  <2>2. m.onHand = n.onHand + x
    BY <1>1 DEF Balances
  <2>3. m.available = n.available + x
    BY <1>1 DEF Balances
  <2>4. n.onHand + x \in Int /\ n.available + x \in Int
    BY <1>1
  <2>5. m \in Balances
    BY <1>1, <2>4 DEF Balances
  <2> HIDE DEF m
  <2>6. BalanceChanged(b, m, x, 0, x)
    BY <1>1, <2>1, <2>2, <2>3, <2>5 DEF BalanceChanged
  <2> QED BY <2>6 DEF m
<1> QED BY <1>2, <1>3, <1>4, <1>5 DEF n

LEMMA FinalizedRows ==
  ASSUME NEW d \in Orders, NEW deal \in DealRecords, NEW order \in OrderRecords
  PROVE  LET new == Finalized(d, deal, order)
         IN  /\ DOMAIN new = {DealRow(d), OrderRow(d)}
             /\ Typed(new)
             /\ new[OrderRow(d)] \in OrderRecords
             /\ PerhapsCompleted(order, new[OrderRow(d)])
<1> DEFINE snap == CompletionSnapshot(deal, order)
           newDeal == [deal EXCEPT !.installed = @ \/ canCompleteInstallation(snap),
                                   !.completed = @ \/ canCompleteDeal(snap)]
           newOrder == IF canCompleteDeal(snap) /\ order.status # "COMPLETED"
                       THEN [Bumped(order) EXCEPT !.status = "COMPLETED"] ELSE order
           new == Finalized(d, deal, order)
<1>1. new = Over(Row(DealRow(d), newDeal), Row(OrderRow(d), newOrder))
  BY DEF Finalized
<1>2. newDeal \in DealRecords
  <2>1. (deal.installed \/ canCompleteInstallation(snap)) \in BOOLEAN
    OBVIOUS
  <2>2. (deal.completed \/ canCompleteDeal(snap)) \in BOOLEAN
    OBVIOUS
  <2> HIDE DEF snap
  <2> QED BY <2>1, <2>2 DEF DealRecords
<1>3. canCompleteDeal(snap) => order.status \in {"SHIPPED", "COMPLETED"}
  BY DEF canCompleteDeal, areMaterialsDelivered, CompletionSnapshot
<1>4. newOrder \in OrderRecords /\ PerhapsCompleted(order, newOrder)
  <2>1. OrderChanged(order, [Bumped(order) EXCEPT !.status = "COMPLETED"], "COMPLETED", 1)
    BY OrderUpdates DEF OrderStatuses
  <2> HIDE DEF snap
  <2> QED BY <1>3, <2>1 DEF PerhapsCompleted, OrderChanged
<1> HIDE DEF newDeal, newOrder
<1>5. OrderRow(d) # DealRow(d)
  BY RowKeys
<1>6. DOMAIN new = {DealRow(d), OrderRow(d)} /\ new[OrderRow(d)] = newOrder
  BY <1>1, <1>5 DEF Over, Row
<1>7. Typed(new)
  BY <1>1, <1>2, <1>4, TypedRows, TypedOver
<1> QED BY <1>4, <1>6, <1>7

\* Two rows written by one statement.
LEMMA TwoRows ==
  ASSUME NEW r, NEW v, NEW q, NEW w, r # q
  PROVE  LET new == Over(Row(r, v), Row(q, w))
         IN  DOMAIN new = {r, q} /\ new[r] = v /\ new[q] = w
<1>1. DOMAIN Over(Row(r, v), Row(q, w)) = {r, q}
  BY DEF Over, Row
<1> QED BY <1>1 DEF Over, Row

\* What s reads after it has written.
LEMMA WriteValue ==
  ASSUME TxTypes, NEW s \in Sessions, NEW new, Write(s, new)
  PROVE  /\ mine'[s] = Over(new, mine[s])
         /\ DOMAIN mine'[s] = DOMAIN new \cup DOMAIN mine[s]
         /\ \A r : Value(db, mine'[s], r) = IF r \in DOMAIN new THEN new[r] ELSE Read(s, r)
<1>1. mine'[s] = Over(new, mine[s])
  BY LocalFacts DEF Write
<1> QED BY <1>1 DEF Over, Value, Read

LEMMA ClaimEffect ==
  ASSUME TxTypes, NEW s \in Sessions, Claim(s)
  PROVE  LET p == call[s].product
             d == call[s].order
             q == scenario.items[d][p]
             b == Read(s, BalanceRow(p))
         IN  /\ call[s].step = "claim" /\ p \in Products /\ d \in Orders /\ p \in call[s].products
             /\ q \in Nat /\ b \in Balances
             /\ Free(s, BalanceRow(p)) /\ b.available >= q /\ b.version = call[s].seen
             /\ UNCHANGED <<db, calls, scenario>>
             /\ Keep(s, [call[s] EXCEPT !.products = @ \ {p},
                           !.step = IF call[s].products = {p} THEN Reserved(s) ELSE "reserve"])
             /\ \E n \in 1..NumRows : \E new :
                  LET k == <<d, p, n>>
                  IN  /\ Unused(k) /\ k \in Rows
                      /\ Write(s, new) /\ Typed(new)
                      /\ DOMAIN new = {BalanceRow(p), ReservationRow(k)}
                      /\ BalanceChanged(b, new[BalanceRow(p)], 0, q, 0 - q)
                      /\ new[ReservationRow(k)] = [quantity |-> q, status |-> "ACTIVE", old |-> FALSE]
<1> DEFINE p == call[s].product
           d == call[s].order
           q == scenario.items[d][p]
           b == Read(s, BalanceRow(p))
<1>1. call[s].step = "claim" /\ p \in Products /\ d \in Orders /\ p \in call[s].products
  BY ZenonT(60), LocalFacts DEF Claim, At, Memory
<1>2. q \in Nat /\ b \in Balances
  BY <1>1, LocalFacts, ScenarioType, ReadTypes
<1>3. PICK n \in 1..NumRows :
        /\ NewRow(<<d, p, n>>)
        /\ Write(s, Over(Row(BalanceRow(p), [Bumped(b) EXCEPT !.reserved = @ + q, !.available = @ - q]),
                         Row(ReservationRow(<<d, p, n>>),
                             [quantity |-> q, status |-> "ACTIVE", old |-> FALSE])))
  BY ZenonT(60) DEF Claim
<1> DEFINE k == <<d, p, n>>
           nb == [Bumped(b) EXCEPT !.reserved = @ + q, !.available = @ - q]
           nr == [quantity |-> q, status |-> "ACTIVE", old |-> FALSE]
           new == Over(Row(BalanceRow(p), nb), Row(ReservationRow(k), nr))
<1>4. Write(s, new)
  BY <1>3
<1>5. k \in Rows /\ Unused(k)
  BY <1>1, <1>3 DEF Rows, NewRow
<1>6. BalanceChanged(b, nb, 0, q, 0 - q) /\ nb \in Balances /\ nr \in ReservationRecords
  <2> HIDE DEF b, q
  <2>1. BalanceChanged(b, nb, 0, q, 0 - q)
    <3>1. q \in Int
      BY <1>2
    <3> QED BY ZenonT(60), <1>2, <3>1, BalanceUpdates
  <2> QED BY <1>2, <2>1 DEF BalanceChanged, ReservationRecords
<1> HIDE DEF nb, nr, k
<1>7. Typed(new)
  BY <1>1, <1>5, <1>6, TypedRows, TypedOver
<1>8. BalanceRow(p) # ReservationRow(k)
  BY RowKeys
<1>9. DOMAIN new = {BalanceRow(p), ReservationRow(k)} /\ new[BalanceRow(p)] = nb /\ new[ReservationRow(k)] = nr
  BY <1>8 DEF Over, Row
<1>10. /\ Free(s, BalanceRow(p)) /\ b.available >= q /\ b.version = call[s].seen
       /\ UNCHANGED <<db, calls, scenario>>
       /\ Keep(s, [call[s] EXCEPT !.products = @ \ {p},
                     !.step = IF call[s].products = {p} THEN Reserved(s) ELSE "reserve"])
  BY DEF Claim, Claimable, Statement
<1> HIDE DEF new, b, q, p, d
<1> QED BY ZenonT(60), <1>1, <1>2, <1>4, <1>5, <1>6, <1>7, <1>9, <1>10 DEF b, q, p, d, nb, nr, k

\* The rows a statement writes, table by table.
Writes(rows, balances, orders, deals, payments, reservations) ==
  /\ \A x : BalanceRow(x) \in rows <=> x \in balances
  /\ \A x : OrderRow(x) \in rows <=> x \in orders
  /\ \A x : DealRow(x) \in rows <=> x \in deals
  /\ \A x : PaymentRow(x) \in rows <=> x \in payments
  /\ \A x : ReservationRow(x) \in rows <=> x \in reservations

LEMMA WhatIsWritten ==
  /\ \A p : Writes({BalanceRow(p)}, {p}, {}, {}, {}, {})
  /\ \A p, k : Writes({BalanceRow(p), ReservationRow(k)}, {p}, {}, {}, {}, {k})
  /\ \A d : Writes({OrderRow(d)}, {}, {d}, {}, {}, {})
  /\ \A d : Writes({DealRow(d)}, {}, {}, {d}, {}, {})
  /\ \A d : Writes({DealRow(d), OrderRow(d)}, {}, {d}, {d}, {}, {})
  /\ \A k, d : Writes({PaymentRow(k), OrderRow(d)}, {}, {d}, {}, {k}, {})
  /\ \A k, d : Writes({PaymentRow(k), DealRow(d), OrderRow(d)}, {}, {d}, {d}, {k}, {})
  /\ \A p, K : Writes({BalanceRow(p)} \cup {ReservationRow(k) : k \in K}, {p}, {}, {}, {}, K)
  /\ \A p : Writes({ReceiptRow(p)}, {}, {}, {}, {}, {})
BY RowKeys DEF Writes

LEMMA ReceiptUnwritten ==
  /\ \A x, p : ReceiptRow(x) \notin {BalanceRow(p)}
  /\ \A x, p, k : ReceiptRow(x) \notin {BalanceRow(p), ReservationRow(k)}
  /\ \A x, d : ReceiptRow(x) \notin {OrderRow(d)} /\ ReceiptRow(x) \notin {DealRow(d)}
  /\ \A x, d : ReceiptRow(x) \notin {DealRow(d), OrderRow(d)}
  /\ \A x, k, d : ReceiptRow(x) \notin {PaymentRow(k), OrderRow(d)}
  /\ \A x, k, d : ReceiptRow(x) \notin {PaymentRow(k), DealRow(d), OrderRow(d)}
  /\ \A x, p, K : ReceiptRow(x) \notin {BalanceRow(p)} \cup {ReservationRow(k) : k \in K}
BY RowKeys

LEMMA ClaimTypes ==
  ASSUME TxTypes, NEW s \in Sessions, Claim(s)
  PROVE  TxTypes'
<1> DEFINE c == call[s]
           p == c.product
           held == DOMAIN mine[s]
<1>1. c \in CallRecords /\ StepsOf(c) /\ Memory(c) /\ Locks(held, c)
  BY LocalFacts
<1>2. PICK n \in 1..NumRows : \E new :
        /\ Unused(<<c.order, p, n>>) /\ <<c.order, p, n>> \in Rows
        /\ Write(s, new) /\ Typed(new)
        /\ DOMAIN new = {BalanceRow(p), ReservationRow(<<c.order, p, n>>)}
  BY ZenonT(60), ClaimEffect
<1> DEFINE k == <<c.order, p, n>>
<1>3. PICK new : /\ Write(s, new) /\ Typed(new) /\ Unused(k)
                 /\ DOMAIN new = {BalanceRow(p), ReservationRow(k)}
  BY <1>2
<1>4. /\ c.step = "claim" /\ p \in Products /\ p \in c.products /\ Free(s, BalanceRow(p))
      /\ UNCHANGED <<db, calls, scenario>> /\ k[2] = p
      /\ Keep(s, [c EXCEPT !.products = @ \ {p},
                           !.step = IF c.products = {p} THEN Reserved(s) ELSE "reserve"])
  BY ClaimEffect
<1>5. PICK step \in {"reserve", "commit", "promise"} :
        /\ Keep(s, [c EXCEPT !.products = c.products \ {p}, !.step = step])
        /\ step = "promise" => c.handler = "receive"
        /\ step = "commit" => c.handler = "create"
  <2>1. CASE c.products # {p}
    BY <1>4, <2>1
  <2>2. CASE c.products = {p} /\ c.handler = "create"
    BY <1>4, <2>2 DEF Reserved
  <2>3. CASE c.products = {p} /\ c.handler # "create"
    BY <1>1, <1>4, <2>3 DEF Reserved, StepsOf
  <2> QED BY <2>1, <2>2, <2>3
<1> DEFINE next == [c EXCEPT !.products = c.products \ {p}, !.step = step]
           W == DOMAIN new
<1>6. Writes(W, {p}, {}, {}, {}, {k}) /\ (\A x : ReceiptRow(x) \notin W)
  BY <1>3, WhatIsWritten, ReceiptUnwritten
<1>7. \A t \in Sessions \ {s} : W \cap DOMAIN mine[t] = {}
  BY <1>3, <1>4 DEF Unused, Free
<1>8. calls' \in Nat
  BY <1>4, LocalFacts
<1> HIDE DEF W, k, held, c
<1>9. next \in CallRecords
  BY <1>1, <1>4, <1>5 DEF CallRecords, Steps, Memory
<1>10. StepsOf(next)
  BY <1>1, <1>4, <1>5 DEF CallRecords, StepsOf, Releasing, Fulfilment
<1>11. Memory(next)
  BY <1>1, <1>4, <1>5 DEF CallRecords, StepsOf, Memory, Releasing, Fulfilment
<1>12. Locks(W \cup held, next)
  BY <1>1, <1>4, <1>5, <1>6 DEF CallRecords, StepsOf, Memory, Writes, Locks, HasDeal, HasOrder, Releasing, Fulfilment
<1> QED BY <1>3, <1>4, <1>5, <1>7, <1>8, <1>9, <1>10, <1>11, <1>12, WritingTypes DEF W, held

\* A statement that writes an order.
OrderWritten(s, d, status, bump) ==
  \E new : /\ Write(s, new) /\ Typed(new) /\ DOMAIN new = {OrderRow(d)}
           /\ OrderChanged(Read(s, OrderRow(d)), new[OrderRow(d)], status, bump)

LEMMA WritesOrder ==
  ASSUME TxTypes, NEW s \in Sessions, NEW d \in Orders, NEW status \in OrderStatuses
  PROVE  /\ Write(s, Row(OrderRow(d), [Read(s, OrderRow(d)) EXCEPT !.status = status])) =>
              OrderWritten(s, d, status, 0)
         /\ Write(s, Row(OrderRow(d), [Bumped(Read(s, OrderRow(d))) EXCEPT !.status = status])) =>
              OrderWritten(s, d, status, 1)
<1> DEFINE o == Read(s, OrderRow(d))
           v0 == [o EXCEPT !.status = status]
           v1 == [Bumped(o) EXCEPT !.status = status]
<1>1. o \in OrderRecords
  BY ReadTypes
<1>2. OrderChanged(o, v0, status, 0) /\ OrderChanged(o, v1, status, 1)
  <2> HIDE DEF o
  <2> QED BY <1>1, OrderUpdates
<1> HIDE DEF v0, v1
<1>3. v0 \in OrderRecords /\ v1 \in OrderRecords
  BY <1>2 DEF OrderChanged
<1>4. \A v \in OrderRecords : /\ Typed(Row(OrderRow(d), v)) /\ DOMAIN Row(OrderRow(d), v) = {OrderRow(d)}
                              /\ Row(OrderRow(d), v)[OrderRow(d)] = v
  BY TypedRows, RowDomain
<1> HIDE DEF o
<1>5. Write(s, Row(OrderRow(d), v0)) => OrderWritten(s, d, status, 0)
  BY <1>2, <1>3, <1>4 DEF OrderWritten, o
<1>6. Write(s, Row(OrderRow(d), v1)) => OrderWritten(s, d, status, 1)
  BY <1>2, <1>3, <1>4 DEF OrderWritten, o
<1> QED BY <1>5, <1>6 DEF v0, v1, o

LEMMA ShortageEffect ==
  ASSUME TxTypes, NEW s \in Sessions, Shortage(s)
  PROVE  LET d == call[s].order
         IN  /\ call[s].step = "claim" /\ d \in Orders
             /\ UNCHANGED <<db, calls, scenario>>
             /\ \/ call[s].handler = "create" /\ Go(s, "commit") /\ OrderWritten(s, d, "WAITING_STOCK", 0)
                \/ call[s].handler = "receive" /\ Go(s, "next") /\ UNCHANGED mine
<1>1. call[s].step = "claim" /\ call[s].order \in Orders
  BY LocalFacts DEF Shortage, At, Memory
<1>2. "WAITING_STOCK" \in OrderStatuses
  BY DEF OrderStatuses
<1> QED BY <1>1, <1>2, WritesOrder DEF Shortage, Statement

LEMMA GiveBackEffect ==
  ASSUME TxTypes, NEW s \in Sessions, GiveBack(s)
  PROVE  LET k == call[s].row
             p == k[2]
             rows == call[s].rows
             b == Read(s, BalanceRow(p))
         IN  /\ call[s].step = "giveBack" /\ k \in DOMAIN rows /\ k \in Rows /\ p \in Products
             /\ rows[k] \in Nat /\ b \in Balances
             /\ UNCHANGED <<calls, scenario>>
             /\ \/ Rollback(s)
                \/ /\ Free(s, BalanceRow(p)) /\ b.version = call[s].seen /\ UNCHANGED db
                   /\ Keep(s, [call[s] EXCEPT !.rows = [j \in DOMAIN rows \ {k} |-> rows[j]],
                                              !.step = "release"])
                   /\ \E new :
                        /\ Write(s, new) /\ Typed(new)
                        /\ DOMAIN new = {BalanceRow(p), ReservationRow(k)}
                        /\ BalanceChanged(b, new[BalanceRow(p)], 0, 0 - rows[k], rows[k])
                        /\ new[ReservationRow(k)].status = "RELEASED"
<1> DEFINE k == call[s].row
           p == k[2]
           rows == call[s].rows
           b == Read(s, BalanceRow(p))
           q == rows[k]
           r == Read(s, ReservationRow(k))
<1>1. call[s].step = "giveBack" /\ k \in DOMAIN rows
  BY LocalFacts DEF GiveBack, At, Memory
<1>2. k \in Rows /\ p \in Products /\ q \in Nat
  <2>1. rows \in UNION {[S -> Nat] : S \in SUBSET Rows}
    BY LocalFacts DEF CallRecords
  <2> HIDE DEF rows
  <2>2. \A x \in DOMAIN rows : x \in Rows /\ rows[x] \in Nat
    BY <2>1
  <2> QED BY <1>1, <2>2 DEF Rows
<1>3. b \in Balances /\ r \in ReservationRecords
  BY <1>2, ReadTypes
<1>4. CASE Rollback(s)
  BY <1>1, <1>2, <1>3, <1>4 DEF Rollback, End
<1>5. CASE /\ SameBalance(s, p) /\ Free(s, BalanceRow(p)) /\ Write(s, GivenBack(s, k, q))
           /\ Keep(s, [call[s] EXCEPT !.rows = [j \in DOMAIN rows \ {k} |-> rows[j]], !.step = "release"])
           /\ UNCHANGED <<db, calls, scenario>>
  <2> DEFINE nb == [Bumped(b) EXCEPT !.reserved = @ - q, !.available = @ + q]
             nr == [r EXCEPT !.status = "RELEASED"]
             new == Over(Row(BalanceRow(p), nb), Row(ReservationRow(k), nr))
  <2>1. Write(s, new)
    BY <1>5 DEF GivenBack
  <2>2. BalanceChanged(b, nb, 0, 0 - q, q)
    <3>1. q \in Int
      BY <1>2
    <3> HIDE DEF b, q
    <3> QED BY ZenonT(60), <1>3, <3>1, BalanceUpdates
  <2>3. nr \in ReservationRecords /\ nr.status = "RELEASED"
    <3> HIDE DEF r
    <3> QED BY <1>3 DEF ReservationRecords
  <2> HIDE DEF nb, nr
  <2>4. nb \in Balances
    BY <2>2 DEF BalanceChanged
  <2>5. Typed(new)
    BY <1>2, <2>3, <2>4, TypedRows, TypedOver
  <2>6. BalanceRow(p) # ReservationRow(k)
    BY RowKeys
  <2>7. DOMAIN new = {BalanceRow(p), ReservationRow(k)} /\ new[BalanceRow(p)] = nb /\ new[ReservationRow(k)] = nr
    BY <2>6 DEF Over, Row
  <2>8. b.version = call[s].seen
    BY <1>5 DEF SameBalance
  <2> HIDE DEF new, b, q, p, rows, k
  <2> QED BY <1>1, <1>2, <1>3, <1>5, <2>1, <2>2, <2>3, <2>5, <2>7, <2>8 DEF b, q, p, rows, k
<1> QED BY <1>4, <1>5 DEF GiveBack, Statement

LEMMA CloseEffect ==
  ASSUME TxTypes, NEW s \in Sessions, Close(s)
  PROVE  LET d == call[s].order
         IN  /\ call[s].step = "close" /\ d \in Orders
             /\ UNCHANGED <<calls, scenario>>
             /\ \/ Rollback(s)
                \/ /\ SameVersion(s) /\ Free(s, OrderRow(d)) /\ UNCHANGED db
                   /\ Go(s, "commit") /\ OrderWritten(s, d, "CANCELLED", 1)
                \/ /\ call[s].handler = "ttl" /\ Go(s, "commit") /\ UNCHANGED <<db, mine>>
<1>1. call[s].step = "close" /\ call[s].order \in Orders
  BY LocalFacts DEF Close, At, Memory, StepsOf
<1>2. "CANCELLED" \in OrderStatuses
  BY DEF OrderStatuses
<1>3. Rollback(s) => UNCHANGED <<calls, scenario>>
  BY DEF Rollback, End
<1> QED BY <1>1, <1>2, <1>3, WritesOrder DEF Close, Statement

LEMMA RevertEffect ==
  ASSUME TxTypes, NEW s \in Sessions, Revert(s)
  PROVE  LET d == call[s].order
         IN  /\ call[s].step = "revert" /\ d \in Orders
             /\ UNCHANGED <<db, calls, scenario>> /\ Go(s, "commit")
             /\ \/ UNCHANGED mine
                \/ /\ Revertible(s) /\ Free(s, OrderRow(d)) /\ OrderWritten(s, d, "WAITING_STOCK", 1)
<1>1. call[s].step = "revert" /\ call[s].order \in Orders
  BY LocalFacts DEF Revert, At, Memory, StepsOf
<1>2. "WAITING_STOCK" \in OrderStatuses
  BY DEF OrderStatuses
<1> QED BY <1>1, <1>2, WritesOrder DEF Revert, Statement

LEMMA PromiseEffect ==
  ASSUME TxTypes, NEW s \in Sessions, Promise(s)
  PROVE  LET d == call[s].order
         IN  /\ call[s].step = "promise" /\ d \in Orders
             /\ UNCHANGED <<db, calls, scenario>> /\ Go(s, "next")
             /\ Free(s, OrderRow(d)) /\ OrderWritten(s, d, "WAITING_PAYMENT", 1)
<1>1. call[s].step = "promise" /\ call[s].order \in Orders
  BY LocalFacts DEF Promise, At, Memory
<1>2. "WAITING_PAYMENT" \in OrderStatuses
  BY DEF OrderStatuses
<1> QED BY <1>1, <1>2, WritesOrder DEF Promise, Statement

\* What a lock, an accepted payment and a delivery make of an order.
OrderTouched(old, new, cached) ==
  /\ new \in OrderRecords
  /\ new.status = old.status /\ new.version = old.version
  /\ new.delivered = old.delivered /\ new.paidAmount = old.paidAmount
  /\ new.paymentStatus = cached

OrderPaid(old, new, paid) ==
  /\ new \in OrderRecords
  /\ new.status = old.status /\ new.version = old.version + 1
  /\ new.delivered = old.delivered /\ new.paidAmount = paid
  /\ new.paymentStatus = calculatePaymentStatus(paid)

OrderDelivered(old, new, delivered) ==
  /\ new \in OrderRecords
  /\ new.status = old.status /\ new.version = old.version
  /\ new.delivered = delivered
  /\ new.paidAmount = old.paidAmount /\ new.paymentStatus = old.paymentStatus

LEMMA MoreOrderUpdates ==
  ASSUME NEW o \in OrderRecords
  PROVE  /\ \A cached \in PaymentStates : OrderTouched(o, [o EXCEPT !.paymentStatus = cached], cached)
         /\ \A paid \in Nat : TotalAmount \in Nat =>
              OrderPaid(o, [Bumped(o) EXCEPT !.paidAmount = paid,
                                             !.paymentStatus = calculatePaymentStatus(paid)], paid)
         /\ \A delivered \in [Products -> Nat] :
              OrderDelivered(o, [o EXCEPT !.delivered = delivered], delivered)
<1>1. \A cached \in PaymentStates : OrderTouched(o, [o EXCEPT !.paymentStatus = cached], cached)
  BY DEF OrderRecords, OrderTouched
<1>2. ASSUME NEW paid \in Nat, TotalAmount \in Nat
      PROVE  OrderPaid(o, [Bumped(o) EXCEPT !.paidAmount = paid,
                                            !.paymentStatus = calculatePaymentStatus(paid)], paid)
  <2> DEFINE n == Bumped(o)
             status == calculatePaymentStatus(paid)
  <2>1. status \in PaymentStates
    BY <1>2, PaymentStateType
  <2>2. /\ n \in OrderRecords /\ n.status = o.status /\ n.version = o.version + 1
        /\ n.delivered = o.delivered
    BY DEF OrderRecords, Bumped
  <2> HIDE DEF n, status
  <2>3. [n EXCEPT !.paidAmount = paid, !.paymentStatus = status] \in OrderRecords
    BY <1>2, <2>1, <2>2 DEF OrderRecords
  <2>4. OrderPaid(o, [n EXCEPT !.paidAmount = paid, !.paymentStatus = status], paid)
    BY <1>2, <2>1, <2>2, <2>3 DEF OrderPaid, OrderRecords, status
  <2> QED BY <2>4 DEF n, status
<1>3. \A delivered \in [Products -> Nat] :
        OrderDelivered(o, [o EXCEPT !.delivered = delivered], delivered)
  BY DEF OrderRecords, OrderDelivered
<1> QED BY <1>1, <1>2, <1>3

LEMMA LockEffect ==
  ASSUME TxTypes, NEW s \in Sessions, Lock(s)
  PROVE  LET c == call[s]
             d == c.order
         IN  /\ c.step = "lock" /\ d \in Orders /\ c.handler \in Fulfilment
             /\ UNCHANGED <<db, calls, scenario>>
             /\ \/ /\ c.locks = BothLocks /\ Free(s, DealRow(d))
                   /\ Keep(s, [c EXCEPT !.locks = OneLock, !.step = "lock"])
                   /\ \E new : Write(s, new) /\ Typed(new) /\ DOMAIN new = {DealRow(d)}
                \/ /\ c.locks = OneLock /\ Free(s, OrderRow(d))
                   /\ Keep(s, [c EXCEPT !.locks = <<>>, !.step = AfterLocks(c.handler)])
                   /\ \E new :
                        /\ Write(s, new) /\ Typed(new) /\ DOMAIN new = {OrderRow(d)}
                        /\ \/ c.handler # "confirm" /\ new[OrderRow(d)] = Read(s, OrderRow(d))
                           \/ /\ c.handler = "confirm"
                              /\ OrderTouched(Read(s, OrderRow(d)), new[OrderRow(d)], c.cached)
<1> DEFINE c == call[s]
           d == c.order
<1>1. c.step = "lock" /\ c.locks \in {BothLocks, OneLock} /\ c.handler \in Fulfilment /\ d \in Orders
  BY LocalFacts DEF Lock, At, Memory, StepsOf, Fulfilment
<1>2. Head(BothLocks) = "deal" /\ Tail(BothLocks) = OneLock /\ Len(BothLocks) # 1
  BY DEF BothLocks, OneLock
<1>3. Head(OneLock) = "order" /\ Tail(OneLock) = <<>> /\ Len(OneLock) = 1
  BY DEF OneLock
<1>4. c.handler = "confirm" => c.cached \in PaymentStates
  BY <1>1, LocalFacts DEF Memory
<1>5. Read(s, OrderRow(d)) \in OrderRecords /\ Read(s, DealRow(d)) \in DealRecords
  BY <1>1, ReadTypes
<1>6. /\ Free(s, LockedRow(s)) /\ Write(s, Row(LockedRow(s), Touched(s)))
      /\ Keep(s, [c EXCEPT !.locks = Tail(@),
                           !.step = IF Len(c.locks) = 1 THEN AfterLocks(c.handler) ELSE "lock"])
      /\ UNCHANGED <<db, calls, scenario>>
  BY DEF Lock, Statement
<1>7. CASE c.locks = BothLocks
  <2>1. LockedRow(s) = DealRow(d) /\ Touched(s) = Read(s, DealRow(d))
    BY <1>2, <1>7 DEF LockedRow, Touched
  <2>2. Keep(s, [c EXCEPT !.locks = OneLock, !.step = "lock"])
    BY <1>2, <1>6, <1>7
  <2> DEFINE new == Row(DealRow(d), Read(s, DealRow(d)))
  <2>3. Write(s, new) /\ Typed(new) /\ DOMAIN new = {DealRow(d)}
    BY <1>1, <1>5, <1>6, <2>1, TypedRows, RowDomain
  <2> HIDE DEF new
  <2> QED BY <1>1, <1>6, <1>7, <2>1, <2>2, <2>3
<1>8. CASE c.locks = OneLock
  <2> DEFINE old == Read(s, OrderRow(d))
             v == Touched(s)
             new == Row(OrderRow(d), v)
  <2>1. LockedRow(s) = OrderRow(d)
    BY <1>3, <1>8 DEF LockedRow
  <2>2. v = IF c.handler = "confirm" THEN [old EXCEPT !.paymentStatus = c.cached] ELSE old
    BY <1>3, <1>8, <2>1 DEF Touched
  <2>3. Keep(s, [c EXCEPT !.locks = <<>>, !.step = AfterLocks(c.handler)])
    BY <1>3, <1>6, <1>8
  <2> HIDE DEF v, old, d, c
  <2>4. /\ v \in OrderRecords
        /\ c.handler # "confirm" => v = old
        /\ c.handler = "confirm" => OrderTouched(old, v, c.cached)
    <3>1. CASE c.handler = "confirm"
      BY <1>4, <1>5, <2>2, <3>1, MoreOrderUpdates DEF OrderTouched, old
    <3>2. CASE c.handler # "confirm"
      BY <1>5, <2>2, <3>2 DEF old
    <3> QED BY <3>1, <3>2
  <2>5. Write(s, new) /\ Typed(new) /\ DOMAIN new = {OrderRow(d)} /\ new[OrderRow(d)] = v
    BY <1>1, <1>6, <2>1, <2>4, TypedRows, RowDomain DEF v
  <2> HIDE DEF new
  <2> QED BY <1>1, <1>6, <1>8, <2>1, <2>3, <2>4, <2>5 DEF old, d, c
<1> QED BY <1>1, <1>7, <1>8

LEMMA AmountPaidNat ==
  ASSUME TxTypes, NEW s \in Sessions
  PROVE  AmountPaid(s) \in Nat /\ TotalAmount \in Nat
<1>1. NumPayments \in Nat /\ TotalAmount \in Nat
  BY LocalFacts, ScenarioType
<1> QED BY <1>1, ConfirmedNat DEF AmountPaid

LEMMA SettleEffect ==
  ASSUME TxTypes, NEW s \in Sessions, Settle(s)
  PROVE  LET c == call[s]
             d == c.order
             k == c.payment
         IN  /\ c.step = "settle" /\ d \in Orders /\ k \in Payments /\ d = k[1]
             /\ c.verdict \in {"CONFIRMED", "REJECTED"} /\ c.handler = "confirm"
             /\ UNCHANGED <<calls, scenario>>
             /\ \/ Rollback(s)
                \/ /\ Acceptable(s) /\ UNCHANGED db /\ Go(s, "commit")
                   /\ \E new :
                        /\ Write(s, new) /\ Typed(new)
                        /\ \/ DOMAIN new = {PaymentRow(k), OrderRow(d)}
                           \/ DOMAIN new = {PaymentRow(k), DealRow(d), OrderRow(d)}
                        /\ new[PaymentRow(k)] = c.verdict
                        /\ \E paid : /\ OrderPaid(Read(s, OrderRow(d)), paid, AmountPaid(s))
                                     /\ PerhapsCompleted(paid, new[OrderRow(d)])
<1> DEFINE c == call[s]
           d == c.order
           k == c.payment
<1>1. /\ c.step = "settle" /\ d \in Orders /\ k \in Payments /\ d = k[1] /\ c.handler = "confirm"
      /\ c.verdict \in {"CONFIRMED", "REJECTED"}
  BY LocalFacts DEF Settle, At, Memory, StepsOf
<1>2. CASE Rollback(s)
  BY <1>1, <1>2 DEF Rollback, End
<1> DEFINE old == Read(s, OrderRow(d))
           deal == Read(s, DealRow(d))
           order == [Bumped(old) EXCEPT !.paidAmount = AmountPaid(s),
                       !.paymentStatus = calculatePaymentStatus(AmountPaid(s))]
           rest == IF order.paymentStatus = "PAID" THEN Finalized(d, deal, order) ELSE Row(OrderRow(d), order)
           new == Over(Row(PaymentRow(k), c.verdict), rest)
<1>3. CASE Acceptable(s) /\ Write(s, new) /\ Go(s, "commit") /\ UNCHANGED <<db, calls, scenario>>
  <2>1. old \in OrderRecords /\ deal \in DealRecords
    BY <1>1, ReadTypes
  <2>2. OrderPaid(old, order, AmountPaid(s))
    <3>1. AmountPaid(s) \in Nat /\ TotalAmount \in Nat
      BY AmountPaidNat
    <3> HIDE DEF old
    <3> QED BY <2>1, <3>1, MoreOrderUpdates
  <2>3. order \in OrderRecords
    BY <2>2 DEF OrderPaid
  <2> HIDE DEF order, deal
  <2>4. /\ DOMAIN rest \in {{OrderRow(d)}, {DealRow(d), OrderRow(d)}}
        /\ Typed(rest) /\ PerhapsCompleted(order, rest[OrderRow(d)])
    <3>1. CASE order.paymentStatus = "PAID"
      BY <1>1, <2>1, <2>3, <3>1, FinalizedRows
    <3>2. CASE order.paymentStatus # "PAID"
      BY ZenonT(60), <1>1, <2>3, <3>2, TypedRows, RowDomain DEF PerhapsCompleted
    <3> QED BY <3>1, <3>2
  <2> HIDE DEF rest
  <2>5. PaymentRow(k) # OrderRow(d) /\ PaymentRow(k) # DealRow(d)
    BY RowKeys
  <2>6. /\ DOMAIN new = {PaymentRow(k)} \cup DOMAIN rest
        /\ new[PaymentRow(k)] = c.verdict /\ new[OrderRow(d)] = rest[OrderRow(d)]
    BY <2>4, <2>5 DEF Over, Row
  <2>7. Typed(new)
    <3>1. c.verdict \in PaymentStatuses
      BY <1>1 DEF PaymentStatuses
    <3> QED BY <1>1, <2>4, <3>1, TypedRows, TypedOver
  <2> HIDE DEF new
  <2>8. DOMAIN new = {PaymentRow(k), OrderRow(d)} \/ DOMAIN new = {PaymentRow(k), DealRow(d), OrderRow(d)}
    BY <2>4, <2>6
  <2> HIDE DEF old
  <2>9. \E paid : OrderPaid(old, paid, AmountPaid(s)) /\ PerhapsCompleted(paid, new[OrderRow(d)])
    BY <2>2, <2>4, <2>6
  <2> QED BY <1>1, <1>3, <2>6, <2>7, <2>8, <2>9 DEF old
<1> QED BY <1>2, <1>3 DEF Settle, Statement

LEMMA CheckEffect ==
  ASSUME TxTypes, NEW s \in Sessions, Check(s)
  PROVE  LET c == call[s]
             d == c.order
             old == Read(s, OrderRow(d))
         IN  /\ c.step = "check" /\ d \in Orders /\ c.handler = "deliver"
             /\ UNCHANGED <<calls, scenario>>
             /\ \/ Rollback(s)
                \/ /\ Deliverable(s, old) /\ UNCHANGED db
                   /\ Keep(s, [c EXCEPT !.step = "goods", !.products = {p \in Products : c.quantity[p] > 0}])
                   /\ \E new :
                        /\ Write(s, new) /\ Typed(new) /\ DOMAIN new = {OrderRow(d)}
                        /\ OrderDelivered(old, new[OrderRow(d)],
                             [p \in Products |-> old.delivered[p] + c.quantity[p]])
<1> DEFINE c == call[s]
           d == c.order
           old == Read(s, OrderRow(d))
           delivered == [p \in Products |-> old.delivered[p] + c.quantity[p]]
           v == [old EXCEPT !.delivered = delivered]
           new == Row(OrderRow(d), v)
<1>1. c.step = "check" /\ d \in Orders /\ c.handler = "deliver"
  BY LocalFacts DEF Check, At, Memory, StepsOf
<1>2. CASE Rollback(s)
  BY <1>1, <1>2 DEF Rollback, End
<1>3. CASE /\ Deliverable(s, old) /\ Write(s, new) /\ UNCHANGED <<db, calls, scenario>>
           /\ Keep(s, [c EXCEPT !.step = "goods", !.products = {p \in Products : c.quantity[p] > 0}])
  <2>1. old \in OrderRecords
    BY <1>1, ReadTypes
  <2>2. delivered \in [Products -> Nat]
    <3>1. c.quantity \in [Products -> Nat]
      BY LocalFacts DEF CallRecords
    <3> HIDE DEF old, c
    <3> QED BY <2>1, <3>1 DEF OrderRecords
  <2>3. OrderDelivered(old, v, delivered)
    <3> HIDE DEF old, delivered
    <3> QED BY <2>1, <2>2, MoreOrderUpdates
  <2> HIDE DEF v
  <2>4. Typed(new) /\ DOMAIN new = {OrderRow(d)} /\ new[OrderRow(d)] = v
    <3>1. v \in OrderRecords
      BY <2>3 DEF OrderDelivered
    <3> QED BY <1>1, <3>1, TypedRows, RowDomain
  <2> HIDE DEF new
  <2> QED BY <1>1, <1>3, <2>3, <2>4
<1> QED BY <1>2, <1>3 DEF Check, Statement

\* What a delivery takes from the listed rows, and what it leaves.
LEMMA TakenNat ==
  ASSUME NEW rows, NEW k \in DOMAIN rows, NEW quantity \in Nat, NumRows \in Nat,
         DOMAIN rows \subseteq Rows, \A j \in DOMAIN rows : rows[j] \in Nat
  PROVE  /\ Taken(rows, k, quantity) \in Nat
         /\ rows[k] - Taken(rows, k, quantity) \in Nat
<1> DEFINE f == Listed(rows, k[1], k[2])
           before == SumUpTo(f, k[3] - 1)
<1>1. k[3] - 1 \in 0..NumRows /\ rows[k] \in Nat
  BY DEF Rows
<1>2. \A n \in 1..NumRows : f[n] \in Nat
  BY DEF Listed
<1> HIDE DEF f
<1>3. before \in Nat
  BY <1>1, <1>2, SumNat
<1>4. Taken(rows, k, quantity) = IF before >= quantity THEN 0 ELSE AtMost(rows[k], quantity - before)
  BY DEF Taken, f
<1> HIDE DEF before
<1> QED BY <1>1, <1>3, <1>4 DEF AtMost

LEMMA ConsumeEffect ==
  ASSUME TxTypes, NEW s \in Sessions, Consume(s)
  PROVE  LET c == call[s]
             p == c.product
             q == c.quantity[p]
             rows == c.rows
             used == {k \in DOMAIN rows : Taken(rows, k, q) > 0}
             b == Read(s, BalanceRow(p))
         IN  /\ c.step = "consume" /\ p \in Products /\ p \in c.products /\ q \in Nat
             /\ b \in Balances /\ used \subseteq Rows /\ c.handler = "deliver" /\ c.order \in Orders
             /\ UNCHANGED <<calls, scenario>>
             /\ \/ Rollback(s)
                \/ /\ Free(s, BalanceRow(p)) /\ UNCHANGED db
                   /\ b.version = c.seen /\ b.onHand >= q /\ b.reserved >= q
                   /\ \A k \in used : Unchanged(s, k)
                   /\ Keep(s, [c EXCEPT !.products = @ \ {p}, !.step = "goods"])
                   /\ \E new :
                        /\ Write(s, new) /\ Typed(new)
                        /\ DOMAIN new = {BalanceRow(p)} \cup {ReservationRow(k) : k \in used}
                        /\ BalanceChanged(b, new[BalanceRow(p)], 0 - q, 0 - q, 0)
                        /\ \A k \in used :
                             LET rest == rows[k] - Taken(rows, k, q)
                             IN  /\ rest \in Nat
                                 /\ new[ReservationRow(k)].status = IF rest = 0 THEN "FULFILLED" ELSE "ACTIVE"
                                 /\ rest # 0 => new[ReservationRow(k)].quantity = rest
<1> DEFINE c == call[s]
           p == c.product
           q == c.quantity[p]
           rows == c.rows
           used == {k \in DOMAIN rows : Taken(rows, k, q) > 0}
           b == Read(s, BalanceRow(p))
           rest(k) == rows[k] - Taken(rows, k, q)
<1>1. /\ c.step = "consume" /\ p \in Products /\ p \in c.products /\ c.handler = "deliver"
      /\ c.order \in Orders
  BY LocalFacts DEF Consume, At, Memory, StepsOf
<1>2. q \in Nat /\ NumRows \in Nat
  BY <1>1, LocalFacts, ScenarioType DEF CallRecords
<1>3. DOMAIN rows \subseteq Rows /\ \A k \in DOMAIN rows : rows[k] \in Nat
  <2>1. rows \in UNION {[S -> Nat] : S \in SUBSET Rows}
    BY LocalFacts DEF CallRecords
  <2> HIDE DEF rows
  <2> QED BY <2>1
<1>4. b \in Balances
  BY <1>1, ReadTypes
<1>5. used \subseteq Rows
  BY <1>3
<1>6. CASE Rollback(s)
  BY <1>1, <1>2, <1>4, <1>5, <1>6 DEF Rollback, End
<1> DEFINE nb == [Bumped(b) EXCEPT !.onHand = @ - q, !.reserved = @ - q]
           nr == [r \in {ReservationRow(k) : k \in used} |->
                    IF rest(r[2]) = 0 THEN [Read(s, r) EXCEPT !.status = "FULFILLED"]
                    ELSE [Read(s, r) EXCEPT !.quantity = rest(r[2])]]
           new == Over(Row(BalanceRow(p), nb), nr)
<1>7. CASE /\ Consumable(s) /\ Free(s, BalanceRow(p)) /\ \A k \in used : Unchanged(s, k)
           /\ Write(s, new)
           /\ Keep(s, [c EXCEPT !.products = @ \ {p}, !.step = "goods"])
           /\ UNCHANGED <<db, calls, scenario>>
  <2>1. b.version = c.seen /\ b.onHand >= q /\ b.reserved >= q
    BY <1>7 DEF Consumable, SameBalance
  <2>2. BalanceChanged(b, nb, 0 - q, 0 - q, 0)
    <3>1. q \in Int
      BY <1>2
    <3> HIDE DEF b, q
    <3> QED BY ZenonT(60), <1>4, <3>1, BalanceUpdates
  <2> HIDE DEF nb
  <2>3. nb \in Balances
    BY <2>2 DEF BalanceChanged
  <2>4. \A k \in used : rest(k) \in Nat
    <3> TAKE k \in used
    <3>1. k \in DOMAIN rows
      OBVIOUS
    <3> HIDE DEF rows, q
    <3> QED BY <1>2, <1>3, <3>1, TakenNat
  <2> HIDE DEF rest, used
  <2>5. \A k \in used : nr[ReservationRow(k)] =
          IF rest(k) = 0 THEN [Read(s, ReservationRow(k)) EXCEPT !.status = "FULFILLED"]
          ELSE [Read(s, ReservationRow(k)) EXCEPT !.quantity = rest(k)]
    BY RowKeys
  <2>6. DOMAIN nr = {ReservationRow(k) : k \in used}
    OBVIOUS
  <2> HIDE DEF nr
  <2>7. \A k \in used :
          /\ nr[ReservationRow(k)] \in ReservationRecords
          /\ nr[ReservationRow(k)].status = IF rest(k) = 0 THEN "FULFILLED" ELSE "ACTIVE"
          /\ rest(k) # 0 => nr[ReservationRow(k)].quantity = rest(k)
    <3> SUFFICES ASSUME NEW k \in used
                 PROVE  /\ nr[ReservationRow(k)] \in ReservationRecords
                        /\ nr[ReservationRow(k)].status = IF rest(k) = 0 THEN "FULFILLED" ELSE "ACTIVE"
                        /\ rest(k) # 0 => nr[ReservationRow(k)].quantity = rest(k)
      OBVIOUS
    <3> DEFINE r == Read(s, ReservationRow(k))
    <3>1. r \in ReservationRecords
      BY <1>5, ReadTypes
    <3>2. r.status = "ACTIVE"
      BY <1>7 DEF Unchanged, used, rest
    <3>3. nr[ReservationRow(k)] = IF rest(k) = 0 THEN [r EXCEPT !.status = "FULFILLED"]
                                  ELSE [r EXCEPT !.quantity = rest(k)]
      BY <2>5
    <3>4. rest(k) \in Nat
      BY <2>4
    <3> HIDE DEF r
    <3>5. CASE rest(k) = 0
      BY <3>1, <3>3, <3>5 DEF ReservationRecords
    <3>6. CASE rest(k) # 0
      BY <3>1, <3>2, <3>3, <3>4, <3>6 DEF ReservationRecords
    <3> QED BY <3>5, <3>6
  <2>8. \A k : ReservationRow(k) # BalanceRow(p)
    BY RowKeys
  <2>9. /\ DOMAIN new = {BalanceRow(p)} \cup {ReservationRow(k) : k \in used}
        /\ new[BalanceRow(p)] = nb
        /\ \A k \in used : new[ReservationRow(k)] = nr[ReservationRow(k)]
    BY <2>6, <2>8 DEF Over, Row
  <2>10. Typed(new)
    <3>1. Typed(nr)
      <4>1. \A r \in DOMAIN nr : \E k \in used : r = ReservationRow(k)
        BY <2>6
      <4>2. \A k \in used : ReservationRow(k) \in AllRows /\ nr[ReservationRow(k)] \in Values("reservation")
        BY <1>5, <2>7, KnownRows, ValuesOfKinds
      <4> QED BY <4>1, <4>2, RowKeys DEF Typed
    <3> QED BY <1>1, <2>3, <3>1, TypedRows, TypedOver
  <2> HIDE DEF new
  <2>11. \A k \in used : /\ rest(k) \in Nat
                         /\ new[ReservationRow(k)].status = IF rest(k) = 0 THEN "FULFILLED" ELSE "ACTIVE"
                         /\ rest(k) # 0 => new[ReservationRow(k)].quantity = rest(k)
    BY <2>4, <2>7, <2>9
  <2>12. BalanceChanged(b, new[BalanceRow(p)], 0 - q, 0 - q, 0)
    BY <2>2, <2>9
  <2>13. \A k \in used : Unchanged(s, k)
    BY <1>7 DEF used, rest
  <2> QED BY ZenonT(60), <1>1, <1>2, <1>4, <1>5, <1>7, <2>1, <2>9, <2>10, <2>11, <2>12, <2>13 DEF rest, used
<1> QED BY ZenonT(60), <1>6, <1>7 DEF Consume, Statement

LEMMA ShipEffect ==
  ASSUME TxTypes, NEW s \in Sessions, Ship(s)
  PROVE  LET c == call[s]
             d == c.order
             old == Read(s, OrderRow(d))
         IN  /\ c.step = "ship" /\ d \in Orders /\ c.handler = "deliver"
             /\ UNCHANGED <<db, calls, scenario>> /\ Go(s, "commit")
             /\ \E new :
                  /\ Write(s, new) /\ Typed(new) /\ DOMAIN new = {DealRow(d), OrderRow(d)}
                  /\ \E shipped :
                       /\ OrderChanged(old, shipped, ShippedStatus(d, old.delivered), 1)
                       /\ PerhapsCompleted(shipped, new[OrderRow(d)])
<1> DEFINE c == call[s]
           d == c.order
           old == Read(s, OrderRow(d))
           status == ShippedStatus(d, old.delivered)
           shipped == [Bumped(old) EXCEPT !.status = status]
           new == Finalized(d, Read(s, DealRow(d)), shipped)
<1>1. c.step = "ship" /\ d \in Orders /\ c.handler = "deliver"
  BY LocalFacts DEF Ship, At, Memory, StepsOf
<1>2. old \in OrderRecords /\ Read(s, DealRow(d)) \in DealRecords
  BY <1>1, ReadTypes
<1>3. status \in OrderStatuses
  BY DEF ShippedStatus, OrderStatuses
<1>4. UNCHANGED <<db, calls, scenario>> /\ Go(s, "commit") /\ Write(s, new)
  BY DEF Ship, Statement
<1>5. OrderChanged(old, shipped, status, 1)
  <2> HIDE DEF old, status
  <2> QED BY <1>2, <1>3, OrderUpdates
<1> HIDE DEF shipped
<1>6. shipped \in OrderRecords
  BY <1>5 DEF OrderChanged
<1>7. DOMAIN new = {DealRow(d), OrderRow(d)} /\ Typed(new) /\ PerhapsCompleted(shipped, new[OrderRow(d)])
  BY <1>1, <1>2, <1>6, FinalizedRows
<1> HIDE DEF new
<1> QED BY <1>1, <1>4, <1>5, <1>7

LEMMA SuperviseEffect ==
  ASSUME TxTypes, NEW s \in Sessions, Supervise(s)
  PROVE  LET c == call[s]
             d == c.order
         IN  /\ c.step = "supervise" /\ d \in Orders /\ c.handler = "supervisor"
             /\ UNCHANGED <<db, calls, scenario>> /\ Go(s, "commit")
             /\ \E new :
                  /\ Write(s, new) /\ Typed(new) /\ DOMAIN new = {DealRow(d), OrderRow(d)}
                  /\ PerhapsCompleted(Read(s, OrderRow(d)), new[OrderRow(d)])
<1> DEFINE c == call[s]
           d == c.order
           deal == [Read(s, DealRow(d)) EXCEPT !.supervisor = TRUE]
           new == Finalized(d, deal, Read(s, OrderRow(d)))
<1>1. c.step = "supervise" /\ d \in Orders /\ c.handler = "supervisor"
  BY LocalFacts DEF Supervise, At, Memory, StepsOf
<1>2. Read(s, OrderRow(d)) \in OrderRecords /\ Read(s, DealRow(d)) \in DealRecords
  BY <1>1, ReadTypes
<1>3. deal \in DealRecords
  BY <1>2 DEF DealRecords
<1>4. UNCHANGED <<db, calls, scenario>> /\ Go(s, "commit") /\ Write(s, new)
  BY DEF Supervise, Statement
<1> HIDE DEF deal
<1>5. /\ DOMAIN new = {DealRow(d), OrderRow(d)} /\ Typed(new)
      /\ PerhapsCompleted(Read(s, OrderRow(d)), new[OrderRow(d)])
  BY <1>1, <1>2, <1>3, FinalizedRows
<1> HIDE DEF new
<1> QED BY <1>1, <1>4, <1>5

LEMMA PutEffect ==
  ASSUME TxTypes, NEW s \in Sessions, Put(s)
  PROVE  LET c == call[s]
             p == c.product
             b == Read(s, BalanceRow(p))
         IN  /\ c.step = "put" /\ p \in Products /\ c.handler = "receive" /\ b \in Balances
             /\ UNCHANGED <<calls, scenario>>
             /\ \/ Rollback(s)
                \/ /\ Free(s, BalanceRow(p)) /\ UNCHANGED db /\ Go(s, "list") /\ b.version = c.seen
                   /\ \E new :
                        /\ Write(s, new) /\ Typed(new) /\ DOMAIN new = {BalanceRow(p)}
                        /\ BalanceChanged(b, new[BalanceRow(p)], ReceiptQuantity, 0, ReceiptQuantity)
<1> DEFINE c == call[s]
           p == c.product
           b == Read(s, BalanceRow(p))
           nb == [Bumped(b) EXCEPT !.onHand = @ + ReceiptQuantity, !.available = @ + ReceiptQuantity]
           new == Row(BalanceRow(p), nb)
<1>1. c.step = "put" /\ p \in Products /\ c.handler = "receive"
  BY LocalFacts DEF Put, At, Memory, StepsOf
<1>2. b \in Balances /\ ReceiptQuantity \in Int
  BY <1>1, ReadTypes, LocalFacts, ScenarioType
<1>3. CASE Rollback(s)
  BY <1>1, <1>2, <1>3 DEF Rollback, End
<1>4. CASE /\ SameBalance(s, p) /\ Free(s, BalanceRow(p)) /\ Write(s, new) /\ Go(s, "list")
           /\ UNCHANGED <<db, calls, scenario>>
  <2>1. BalanceChanged(b, nb, ReceiptQuantity, 0, ReceiptQuantity)
    <3> HIDE DEF b
    <3> QED BY ZenonT(60), <1>2, BalanceUpdates
  <2> HIDE DEF nb
  <2>2. Typed(new) /\ DOMAIN new = {BalanceRow(p)} /\ new[BalanceRow(p)] = nb
    BY <1>1, <2>1, TypedRows, RowDomain DEF BalanceChanged
  <2>3. b.version = c.seen
    BY <1>4 DEF SameBalance
  <2> HIDE DEF new
  <2> QED BY <1>1, <1>2, <1>4, <2>1, <2>2, <2>3
<1> QED BY <1>3, <1>4 DEF Put, Statement

-----------------------------------------------------------------------------
\* Nobody else has written these rows.
FreeRows(s, rows) == \A t \in Sessions \ {s} : rows \cap DOMAIN mine[t] = {}

LEMMA OwnRows ==
  ASSUME TxTypes, NEW s \in Sessions
  PROVE  /\ \A rows : rows \subseteq DOMAIN mine[s] => FreeRows(s, rows)
         /\ \A r : Free(s, r) => FreeRows(s, {r})
         /\ \A a, b : FreeRows(s, a) /\ FreeRows(s, b) => FreeRows(s, a \cup b)
BY DEF TxTypes, Exclusive, FreeRows, Free

\* Who writes a reservation has written its balance.
LEMMA FreeBalance ==
  ASSUME TxTypes, NEW s \in Sessions, NEW p, Free(s, BalanceRow(p)),
         NEW K \in SUBSET Rows, \A k \in K : k[2] = p
  PROVE  FreeRows(s, {BalanceRow(p)} \cup {ReservationRow(k) : k \in K})
<1>1. \A t \in Sessions \ {s}, k \in K : ReservationRow(k) \notin DOMAIN mine[t]
  <2> SUFFICES ASSUME NEW t \in Sessions \ {s}, NEW k \in K, ReservationRow(k) \in DOMAIN mine[t]
               PROVE  FALSE
    OBVIOUS
  <2>1. BalanceRow(k[2]) \in DOMAIN mine[t]
    BY LocalFacts DEF Locks
  <2> QED BY <2>1 DEF Free
<1> QED BY <1>1 DEF FreeRows, Free

\* Who writes a payment has locked its order.
LEMMA FreePayment ==
  ASSUME TxTypes, NEW s \in Sessions, NEW k \in Payments,
         call[s].handler \in Fulfilment, HasOrder(call[s]), call[s].order = k[1]
  PROVE  FreeRows(s, {PaymentRow(k)})
<1> SUFFICES ASSUME NEW t \in Sessions \ {s}, PaymentRow(k) \in DOMAIN mine[t]
             PROVE  FALSE
  BY DEF FreeRows
<1>1. OrderRow(k[1]) \in DOMAIN mine[s]
  BY LocalFacts DEF Locks
<1>2. call[t].handler = "confirm" /\ call[t].step = "commit" /\ k = call[t].payment
  BY LocalFacts DEF Locks
<1>3. OrderRow(k[1]) \in DOMAIN mine[t]
  BY <1>2, LocalFacts DEF Locks, Memory, HasOrder, Fulfilment
<1> QED BY <1>1, <1>3 DEF TxTypes, Exclusive

\* A handler starts.
LEMMA StartingTypes ==
  ASSUME TxTypes, NEW s \in Sessions, NEW c, Start(s, c), UNCHANGED mine,
         c \in CallRecords, StepsOf(c), Memory(c), Locks({}, c)
  PROVE  TxTypes'
<1>1. DOMAIN mine[s] = {} /\ calls' \in Nat
  BY LocalFacts DEF Start, At, Locks
<1>2. mine' = [mine EXCEPT ![s] = mine[s]]
  BY LocalFacts
<1>3. LocalTypes(mine[s], c)
  BY <1>1, LocalFacts DEF LocalTypes, Shape
<1>4. \A t \in Sessions \ {s} : DOMAIN mine[s] \cap DOMAIN mine[t] = {}
  BY <1>1
<1> QED BY <1>1, <1>2, <1>3, <1>4, StatementTypes DEF Keep, Start

LEMMA ShortageTypes ==
  ASSUME TxTypes, NEW s \in Sessions, Shortage(s)
  PROVE  TxTypes'
<1> DEFINE c == call[s]
           d == c.order
           p == c.product
           held == DOMAIN mine[s]
<1>1. c \in CallRecords /\ StepsOf(c) /\ Memory(c) /\ Locks(held, c) /\ calls \in Nat
  BY LocalFacts
<1>2. c.step = "claim" /\ d \in Orders /\ UNCHANGED <<db, calls, scenario>>
  BY ShortageEffect
<1>3. CASE c.handler = "create" /\ Go(s, "commit") /\ OrderWritten(s, d, "WAITING_STOCK", 0)
  <2> DEFINE next == [c EXCEPT !.step = "commit"]
  <2>1. Keep(s, next)
    BY <1>3 DEF Go
  <2>2. PICK new : Write(s, new) /\ Typed(new) /\ DOMAIN new = {OrderRow(d)}
    BY <1>3 DEF OrderWritten
  <2>3. FreeRows(s, {OrderRow(d)})
    BY <1>1, <1>3, OwnRows DEF Locks
  <2> DEFINE W == DOMAIN new
  <2>5. Writes(W, {}, {d}, {}, {}, {}) /\ FreeRows(s, W) /\ (\A x : ReceiptRow(x) \notin W) /\ calls' \in Nat
    BY <1>1, <1>2, <2>2, <2>3, WhatIsWritten, ReceiptUnwritten
  <2> HIDE DEF W, held, c
  <2>6. next \in CallRecords
    BY <1>1, <1>2, <1>3, <2>1, <2>2, <2>5 DEF CallRecords, Steps, Memory
  <2>7. StepsOf(next)
    BY <1>1, <1>2, <1>3, <2>1, <2>2, <2>5 DEF CallRecords, StepsOf, Releasing, Fulfilment
  <2>8. Memory(next)
    BY <1>1, <1>2, <1>3, <2>1, <2>2, <2>5 DEF CallRecords, StepsOf, Memory, Releasing, Fulfilment
  <2>9. Locks(W \cup held, next)
    BY <1>1, <1>2, <1>3, <2>1, <2>2, <2>5 DEF CallRecords, StepsOf, Memory, Writes, Locks, HasDeal, HasOrder, Releasing, Fulfilment
  <2> QED BY <1>1, <1>2, <1>3, <2>1, <2>2, <2>5, <2>6, <2>7, <2>8, <2>9, WritingTypes DEF W, held, FreeRows
<1>4. CASE c.handler = "receive" /\ Go(s, "next") /\ UNCHANGED mine
  <2>1. Keep(s, [c EXCEPT !.step = "next"])
    BY <1>4 DEF Go
  <2> DEFINE next == [c EXCEPT !.step = "next"]
  <2> HIDE DEF held, c
  <2>6. next \in CallRecords
    BY <1>1, <1>2, <1>4, <2>1 DEF CallRecords, Steps, Memory
  <2>7. StepsOf(next)
    BY <1>1, <1>2, <1>4, <2>1 DEF CallRecords, StepsOf, Releasing, Fulfilment
  <2>8. Memory(next)
    BY <1>1, <1>2, <1>4, <2>1 DEF CallRecords, StepsOf, Memory, Releasing, Fulfilment
  <2>9. Locks(held, next)
    BY <1>1, <1>2, <1>4, <2>1 DEF CallRecords, StepsOf, Memory, Locks, HasDeal, HasOrder, Releasing, Fulfilment
  <2> QED BY <1>1, <1>2, <1>4, <2>1, <2>6, <2>7, <2>8, <2>9, ReadingTypes DEF held
<1> QED BY <1>3, <1>4, ShortageEffect

LEMMA GiveBackTypes ==
  ASSUME TxTypes, NEW s \in Sessions, GiveBack(s)
  PROVE  TxTypes'
<1> DEFINE c == call[s]
           d == c.order
           p == c.product
           held == DOMAIN mine[s]
<1>1. c \in CallRecords /\ StepsOf(c) /\ Memory(c) /\ Locks(held, c) /\ calls \in Nat
  BY LocalFacts
<1> DEFINE k == c.row
           rows == c.rows
           rest == [j \in DOMAIN rows \ {k} |-> rows[j]]
           next == [c EXCEPT !.rows = rest, !.step = "release"]
<1>2. c.step = "giveBack" /\ k \in DOMAIN rows /\ k \in Rows /\ UNCHANGED <<calls, scenario>>
  BY ZenonT(60), GiveBackEffect
<1>3. CASE Rollback(s)
  BY <1>3, RollbackTypes
<1>4. ASSUME Free(s, BalanceRow(k[2])), UNCHANGED db, Keep(s, next),
             NEW new, Write(s, new), Typed(new), DOMAIN new = {BalanceRow(k[2]), ReservationRow(k)}
      PROVE  TxTypes'
  <2>1. FreeRows(s, DOMAIN new)
    <3>1. DOMAIN new = {BalanceRow(k[2])} \cup {ReservationRow(j) : j \in {k}}
      BY <1>4
    <3>2. FreeRows(s, {BalanceRow(k[2])} \cup {ReservationRow(j) : j \in {k}})
      BY <1>2, <1>4, FreeBalance
    <3> QED BY <3>1, <3>2
  <2>2. /\ rest \in UNION {[S -> Nat] : S \in SUBSET Rows} /\ DOMAIN rest \subseteq DOMAIN rows
        /\ next.rows = rest
    <3>1. rows \in UNION {[S -> Nat] : S \in SUBSET Rows}
      BY <1>1 DEF CallRecords
    <3>2. next.rows = rest
      BY <1>1 DEF CallRecords
    <3> HIDE DEF rows, k, next
    <3>3. rest \in [DOMAIN rows \ {k} -> Nat] /\ DOMAIN rows \ {k} \subseteq Rows
      BY <3>1
    <3> QED BY <3>2, <3>3
  <2> DEFINE W == DOMAIN new
  <2>5. Writes(W, {k[2]}, {}, {}, {}, {k}) /\ (\A x : ReceiptRow(x) \notin W) /\ calls' \in Nat
    BY <1>1, <1>2, <1>4, WhatIsWritten, ReceiptUnwritten
  <2> HIDE DEF rest
  <2> HIDE DEF W, held, c
  <2>6. next \in CallRecords
    BY <1>1, <1>2, <1>4, <2>1, <2>2, <2>5 DEF CallRecords, Steps, Memory
  <2>7. StepsOf(next)
    BY <1>1, <1>2, <1>4, <2>1, <2>2, <2>5 DEF CallRecords, StepsOf, Releasing, Fulfilment
  <2>8. Memory(next)
    BY <1>1, <1>2, <1>4, <2>1, <2>2, <2>5 DEF CallRecords, StepsOf, Memory, Releasing, Fulfilment
  <2>9. Locks(W \cup held, next)
    BY <1>1, <1>2, <1>4, <2>1, <2>2, <2>5 DEF CallRecords, StepsOf, Memory, Writes, Locks, HasDeal, HasOrder, Releasing, Fulfilment
  <2> QED BY <1>1, <1>2, <1>4, <2>1, <2>2, <2>5, <2>6, <2>7, <2>8, <2>9, WritingTypes DEF W, held, FreeRows
<1> QED BY ZenonT(60), <1>3, <1>4, GiveBackEffect

LEMMA CloseTypes ==
  ASSUME TxTypes, NEW s \in Sessions, Close(s)
  PROVE  TxTypes'
<1> DEFINE c == call[s]
           d == c.order
           p == c.product
           held == DOMAIN mine[s]
<1>1. c \in CallRecords /\ StepsOf(c) /\ Memory(c) /\ Locks(held, c) /\ calls \in Nat
  BY LocalFacts
<1> DEFINE next == [c EXCEPT !.step = "commit"]
<1>2. c.step = "close" /\ d \in Orders /\ UNCHANGED <<calls, scenario>>
  BY CloseEffect
<1>3. CASE Rollback(s)
  BY <1>3, RollbackTypes
<1>4. CASE Free(s, OrderRow(d)) /\ Go(s, "commit") /\ OrderWritten(s, d, "CANCELLED", 1) /\ UNCHANGED db
  <2>1. Keep(s, next)
    BY <1>4 DEF Go
  <2>2. PICK new : Write(s, new) /\ Typed(new) /\ DOMAIN new = {OrderRow(d)}
    BY <1>4 DEF OrderWritten
  <2>3. FreeRows(s, {OrderRow(d)})
    BY <1>4, OwnRows
  <2> DEFINE W == DOMAIN new
  <2>5. Writes(W, {}, {d}, {}, {}, {}) /\ FreeRows(s, W) /\ (\A x : ReceiptRow(x) \notin W) /\ calls' \in Nat
    BY <1>1, <1>2, <2>2, <2>3, WhatIsWritten, ReceiptUnwritten
  <2> HIDE DEF W, held, c
  <2>6. next \in CallRecords
    BY <1>1, <1>2, <1>4, <2>1, <2>2, <2>5 DEF CallRecords, Steps, Memory
  <2>7. StepsOf(next)
    BY <1>1, <1>2, <1>4, <2>1, <2>2, <2>5 DEF CallRecords, StepsOf, Releasing, Fulfilment
  <2>8. Memory(next)
    BY <1>1, <1>2, <1>4, <2>1, <2>2, <2>5 DEF CallRecords, StepsOf, Memory, Releasing, Fulfilment
  <2>9. Locks(W \cup held, next)
    BY <1>1, <1>2, <1>4, <2>1, <2>2, <2>5 DEF CallRecords, StepsOf, Memory, Writes, Locks, HasDeal, HasOrder, Releasing, Fulfilment
  <2> QED BY <1>1, <1>2, <1>4, <2>1, <2>2, <2>5, <2>6, <2>7, <2>8, <2>9, WritingTypes DEF W, held, FreeRows
<1>5. CASE c.handler = "ttl" /\ Go(s, "commit") /\ UNCHANGED <<db, mine>>
  <2>1. Keep(s, next)
    BY <1>5 DEF Go
  <2> HIDE DEF held, c
  <2>6. next \in CallRecords
    BY <1>1, <1>2, <1>5, <2>1 DEF CallRecords, Steps, Memory
  <2>7. StepsOf(next)
    BY <1>1, <1>2, <1>5, <2>1 DEF CallRecords, StepsOf, Releasing, Fulfilment
  <2>8. Memory(next)
    BY <1>1, <1>2, <1>5, <2>1 DEF CallRecords, StepsOf, Memory, Releasing, Fulfilment
  <2>9. Locks(held, next)
    BY <1>1, <1>2, <1>5, <2>1 DEF CallRecords, StepsOf, Memory, Locks, HasDeal, HasOrder, Releasing, Fulfilment
  <2> QED BY <1>1, <1>2, <1>5, <2>1, <2>6, <2>7, <2>8, <2>9, ReadingTypes DEF held
<1> QED BY <1>3, <1>4, <1>5, CloseEffect

LEMMA RevertTypes ==
  ASSUME TxTypes, NEW s \in Sessions, Revert(s)
  PROVE  TxTypes'
<1> DEFINE c == call[s]
           d == c.order
           p == c.product
           held == DOMAIN mine[s]
<1>1. c \in CallRecords /\ StepsOf(c) /\ Memory(c) /\ Locks(held, c) /\ calls \in Nat
  BY LocalFacts
<1> DEFINE next == [c EXCEPT !.step = "commit"]
<1>2. c.step = "revert" /\ d \in Orders /\ UNCHANGED <<db, calls, scenario>> /\ Keep(s, next)
  BY RevertEffect DEF Go
<1>3. CASE UNCHANGED mine
  <2> HIDE DEF held, c
  <2>6. next \in CallRecords
    BY <1>1, <1>2, <1>3 DEF CallRecords, Steps, Memory
  <2>7. StepsOf(next)
    BY <1>1, <1>2, <1>3 DEF CallRecords, StepsOf, Releasing, Fulfilment
  <2>8. Memory(next)
    BY <1>1, <1>2, <1>3 DEF CallRecords, StepsOf, Memory, Releasing, Fulfilment
  <2>9. Locks(held, next)
    BY <1>1, <1>2, <1>3 DEF CallRecords, StepsOf, Memory, Locks, HasDeal, HasOrder, Releasing, Fulfilment
  <2> QED BY <1>1, <1>2, <1>3, <2>6, <2>7, <2>8, <2>9, ReadingTypes DEF held
<1>4. CASE Free(s, OrderRow(d)) /\ OrderWritten(s, d, "WAITING_STOCK", 1)
  <2>2. PICK new : Write(s, new) /\ Typed(new) /\ DOMAIN new = {OrderRow(d)}
    BY <1>4 DEF OrderWritten
  <2>3. FreeRows(s, {OrderRow(d)})
    BY <1>4, OwnRows
  <2> DEFINE W == DOMAIN new
  <2>5. Writes(W, {}, {d}, {}, {}, {}) /\ FreeRows(s, W) /\ (\A x : ReceiptRow(x) \notin W) /\ calls' \in Nat
    BY <1>1, <1>2, <2>2, <2>3, WhatIsWritten, ReceiptUnwritten
  <2> HIDE DEF W, held, c
  <2>6. next \in CallRecords
    BY <1>1, <1>2, <1>4, <2>2, <2>5 DEF CallRecords, Steps, Memory
  <2>7. StepsOf(next)
    BY <1>1, <1>2, <1>4, <2>2, <2>5 DEF CallRecords, StepsOf, Releasing, Fulfilment
  <2>8. Memory(next)
    BY <1>1, <1>2, <1>4, <2>2, <2>5 DEF CallRecords, StepsOf, Memory, Releasing, Fulfilment
  <2>9. Locks(W \cup held, next)
    BY <1>1, <1>2, <1>4, <2>2, <2>5 DEF CallRecords, StepsOf, Memory, Writes, Locks, HasDeal, HasOrder, Releasing, Fulfilment
  <2> QED BY <1>1, <1>2, <1>4, <2>2, <2>5, <2>6, <2>7, <2>8, <2>9, WritingTypes DEF W, held, FreeRows
<1> QED BY <1>3, <1>4, RevertEffect

LEMMA PromiseTypes ==
  ASSUME TxTypes, NEW s \in Sessions, Promise(s)
  PROVE  TxTypes'
<1> DEFINE c == call[s]
           d == c.order
           p == c.product
           held == DOMAIN mine[s]
<1>1. c \in CallRecords /\ StepsOf(c) /\ Memory(c) /\ Locks(held, c) /\ calls \in Nat
  BY LocalFacts
<1> DEFINE next == [c EXCEPT !.step = "next"]
<1>2. c.step = "promise" /\ d \in Orders /\ UNCHANGED <<db, calls, scenario>> /\ Keep(s, next)
  BY PromiseEffect DEF Go
<1>3. Free(s, OrderRow(d)) /\ OrderWritten(s, d, "WAITING_PAYMENT", 1)
  BY PromiseEffect
<1>4. PICK new : Write(s, new) /\ Typed(new) /\ DOMAIN new = {OrderRow(d)}
  BY <1>3 DEF OrderWritten
<1>4a. FreeRows(s, {OrderRow(d)})
  BY <1>3, OwnRows
<1> DEFINE W == DOMAIN new
<1>5. Writes(W, {}, {d}, {}, {}, {}) /\ FreeRows(s, W) /\ (\A x : ReceiptRow(x) \notin W) /\ calls' \in Nat
  BY <1>1, <1>2, <1>4, <1>4a, WhatIsWritten, ReceiptUnwritten
<1> HIDE DEF W, held, c
<1>6. next \in CallRecords
  BY <1>1, <1>2, <1>4, <1>5 DEF CallRecords, Steps, Memory
<1>7. StepsOf(next)
  BY <1>1, <1>2, <1>4, <1>5 DEF CallRecords, StepsOf, Releasing, Fulfilment
<1>8. Memory(next)
  BY <1>1, <1>2, <1>4, <1>5 DEF CallRecords, StepsOf, Memory, Releasing, Fulfilment
<1>9. Locks(W \cup held, next)
  BY <1>1, <1>2, <1>4, <1>5 DEF CallRecords, StepsOf, Memory, Writes, Locks, HasDeal, HasOrder, Releasing, Fulfilment
<1> QED BY <1>1, <1>2, <1>4, <1>5, <1>6, <1>7, <1>8, <1>9, WritingTypes DEF W, held, FreeRows

LEMMA LockTypes ==
  ASSUME TxTypes, NEW s \in Sessions, Lock(s)
  PROVE  TxTypes'
<1> DEFINE c == call[s]
           d == c.order
           p == c.product
           held == DOMAIN mine[s]
<1>1. c \in CallRecords /\ StepsOf(c) /\ Memory(c) /\ Locks(held, c) /\ calls \in Nat
  BY LocalFacts
<1>2. c.step = "lock" /\ d \in Orders /\ c.handler \in Fulfilment /\ UNCHANGED <<db, calls, scenario>>
  BY ZenonT(60), LockEffect
<1>2a. BothLocks # OneLock /\ OneLock # <<>> /\ BothLocks # <<>>
  BY DEF BothLocks, OneLock
<1>3. ASSUME c.locks = BothLocks, Free(s, DealRow(d)), Keep(s, [c EXCEPT !.locks = OneLock, !.step = "lock"]),
             NEW new, Write(s, new), Typed(new), DOMAIN new = {DealRow(d)}
      PROVE  TxTypes'
  <2> DEFINE next == [c EXCEPT !.locks = OneLock, !.step = "lock"]
  <2>1. FreeRows(s, {DealRow(d)})
    BY <1>3, OwnRows
  <2> DEFINE W == DOMAIN new
  <2>5. Writes(W, {}, {}, {d}, {}, {}) /\ FreeRows(s, W) /\ (\A x : ReceiptRow(x) \notin W) /\ calls' \in Nat
    BY <1>1, <1>2, <1>3, <2>1, WhatIsWritten, ReceiptUnwritten
  <2> HIDE DEF W, held, c
  <2>5a. OneLock \in LockLists
    BY DEF LockLists
  <2>6. next \in CallRecords
    BY ZenonT(60), <1>1, <2>5a DEF CallRecords, Steps
  <2>7. StepsOf(next)
    BY <1>1, <1>2, <1>2a, <1>3, <2>5 DEF CallRecords, StepsOf, Releasing, Fulfilment
  <2>8. Memory(next)
    BY <1>1, <1>2, <1>2a, <1>3, <2>5 DEF CallRecords, StepsOf, Memory, Releasing, Fulfilment
  <2>9. Locks(W \cup held, next)
    BY <1>1, <1>2, <1>2a, <1>3, <2>5 DEF CallRecords, StepsOf, Memory, Writes, Locks, HasDeal, HasOrder, Releasing, Fulfilment
  <2> QED BY <1>1, <1>2, <1>2a, <1>3, <2>5, <2>6, <2>7, <2>8, <2>9, WritingTypes DEF W, held, FreeRows
<1>4. ASSUME c.locks = OneLock, Free(s, OrderRow(d)),
             Keep(s, [c EXCEPT !.locks = <<>>, !.step = AfterLocks(c.handler)]),
             NEW new, Write(s, new), Typed(new), DOMAIN new = {OrderRow(d)}
      PROVE  TxTypes'
  <2>1. PICK step \in {"settle", "check", "supervise"} :
          /\ Keep(s, [c EXCEPT !.locks = <<>>, !.step = step])
          /\ step = "settle" <=> c.handler = "confirm"
          /\ step = "check" <=> c.handler = "deliver"
    <3>1. AfterLocks(c.handler) \in {"settle", "check", "supervise"}
      BY DEF AfterLocks
    <3>2. AfterLocks(c.handler) = "settle" <=> c.handler = "confirm"
      BY DEF AfterLocks
    <3>3. AfterLocks(c.handler) = "check" <=> c.handler = "deliver"
      BY DEF AfterLocks
    <3> QED BY <1>4, <3>1, <3>2, <3>3
  <2> DEFINE none == <<>>
             next == [c EXCEPT !.locks = none, !.step = step]
  <2>1a. none \in LockLists /\ none = <<>> /\ step \in Steps
    BY <2>1 DEF LockLists, Steps
  <2> HIDE DEF none
  <2>2. FreeRows(s, {OrderRow(d)})
    BY <1>4, OwnRows
  <2> DEFINE W == DOMAIN new
  <2>5. Writes(W, {}, {d}, {}, {}, {}) /\ FreeRows(s, W) /\ (\A x : ReceiptRow(x) \notin W) /\ calls' \in Nat
    BY <1>1, <1>2, <1>4, <2>2, WhatIsWritten, ReceiptUnwritten
  <2> HIDE DEF W, held, c
  <2>6. next \in CallRecords
    BY <1>1, <2>1a DEF CallRecords
  <2>7. StepsOf(next)
    BY <1>1, <1>2, <1>2a, <1>4, <2>1, <2>1a, <2>5 DEF CallRecords, StepsOf, Releasing, Fulfilment
  <2>8. Memory(next)
    BY <1>1, <1>2, <1>2a, <1>4, <2>1, <2>1a, <2>5 DEF CallRecords, StepsOf, Memory, Releasing, Fulfilment
  <2>9. Locks(W \cup held, next)
    BY <1>1, <1>2, <1>2a, <1>4, <2>1, <2>1a, <2>5 DEF CallRecords, StepsOf, Memory, Writes, Locks, HasDeal, HasOrder, Releasing, Fulfilment
  <2> QED BY <1>1, <1>2, <1>2a, <1>4, <2>1, <2>1a, <2>5, <2>6, <2>7, <2>8, <2>9, WritingTypes DEF W, held, FreeRows
<1> QED BY ZenonT(60), <1>3, <1>4, LockEffect

LEMMA SettleTypes ==
  ASSUME TxTypes, NEW s \in Sessions, Settle(s)
  PROVE  TxTypes'
<1> DEFINE c == call[s]
           d == c.order
           p == c.product
           held == DOMAIN mine[s]
<1>1. c \in CallRecords /\ StepsOf(c) /\ Memory(c) /\ Locks(held, c) /\ calls \in Nat
  BY LocalFacts
<1> DEFINE k == c.payment
           next == [c EXCEPT !.step = "commit"]
<1>2. /\ c.step = "settle" /\ d \in Orders /\ k \in Payments /\ d = k[1] /\ c.handler = "confirm"
      /\ UNCHANGED <<calls, scenario>>
  BY SettleEffect
<1>3. CASE Rollback(s)
  BY <1>3, RollbackTypes
<1>4. ASSUME Go(s, "commit"), UNCHANGED db, NEW new, Write(s, new), Typed(new),
             \/ DOMAIN new = {PaymentRow(k), OrderRow(d)}
             \/ DOMAIN new = {PaymentRow(k), DealRow(d), OrderRow(d)}
      PROVE  TxTypes'
  <2>1. Keep(s, next)
    BY <1>4 DEF Go
  <2>2. FreeRows(s, DOMAIN new)
    <3>1. FreeRows(s, {PaymentRow(k)})
      BY <1>2, FreePayment DEF HasOrder, Fulfilment
    <3>2. {DealRow(d), OrderRow(d)} \subseteq DOMAIN mine[s]
      BY <1>1, <1>2 DEF Locks, HasOrder, HasDeal, Fulfilment
    <3>3. DOMAIN new \subseteq {PaymentRow(k)} \cup {DealRow(d), OrderRow(d)}
      BY <1>4
    <3>4. FreeRows(s, {PaymentRow(k)} \cup {DealRow(d), OrderRow(d)})
      BY <3>1, <3>2, OwnRows
    <3> QED BY <3>3, <3>4 DEF FreeRows
  <2> DEFINE W == DOMAIN new
  <2>5. (Writes(W, {}, {d}, {}, {k}, {}) \/ Writes(W, {}, {d}, {d}, {k}, {})) /\ (\A x : ReceiptRow(x) \notin W) /\ calls' \in Nat
    BY <1>1, <1>2, <1>4, WhatIsWritten, ReceiptUnwritten
  <2> HIDE DEF W, held, c
  <2>6. next \in CallRecords
    BY <1>1, <1>2, <1>4, <2>1, <2>2, <2>5 DEF CallRecords, Steps, Memory
  <2>7. StepsOf(next)
    BY <1>1, <1>2, <1>4, <2>1, <2>2, <2>5 DEF CallRecords, StepsOf, Releasing, Fulfilment
  <2>8. Memory(next)
    BY <1>1, <1>2, <1>4, <2>1, <2>2, <2>5 DEF CallRecords, StepsOf, Memory, Releasing, Fulfilment
  <2>9. Locks(W \cup held, next)
    BY <1>1, <1>2, <1>4, <2>1, <2>2, <2>5 DEF CallRecords, StepsOf, Memory, Writes, Locks, HasDeal, HasOrder, Releasing, Fulfilment
  <2> QED BY <1>1, <1>2, <1>4, <2>1, <2>2, <2>5, <2>6, <2>7, <2>8, <2>9, WritingTypes DEF W, held, FreeRows
<1> QED BY <1>3, <1>4, SettleEffect

LEMMA CheckTypes ==
  ASSUME TxTypes, NEW s \in Sessions, Check(s)
  PROVE  TxTypes'
<1> DEFINE c == call[s]
           d == c.order
           p == c.product
           held == DOMAIN mine[s]
<1>1. c \in CallRecords /\ StepsOf(c) /\ Memory(c) /\ Locks(held, c) /\ calls \in Nat
  BY LocalFacts
<1> DEFINE next == [c EXCEPT !.step = "goods", !.products = {q \in Products : c.quantity[q] > 0}]
<1>2. c.step = "check" /\ d \in Orders /\ c.handler = "deliver" /\ UNCHANGED <<calls, scenario>>
  BY CheckEffect
<1>3. CASE Rollback(s)
  BY <1>3, RollbackTypes
<1>4. ASSUME Keep(s, next), UNCHANGED db, NEW new, Write(s, new), Typed(new), DOMAIN new = {OrderRow(d)}
      PROVE  TxTypes'
  <2>2. FreeRows(s, {OrderRow(d)})
    BY <1>1, <1>2, OwnRows DEF Locks, HasOrder, Fulfilment
  <2> DEFINE W == DOMAIN new
  <2>5. Writes(W, {}, {d}, {}, {}, {}) /\ FreeRows(s, W) /\ (\A x : ReceiptRow(x) \notin W) /\ calls' \in Nat
    BY <1>1, <1>2, <1>4, <2>2, WhatIsWritten, ReceiptUnwritten
  <2> HIDE DEF W, held, c
  <2>6. next \in CallRecords
    BY <1>1, <1>2, <1>4, <2>5 DEF CallRecords, Steps, Memory
  <2>7. StepsOf(next)
    BY <1>1, <1>2, <1>4, <2>5 DEF CallRecords, StepsOf, Releasing, Fulfilment
  <2>8. Memory(next)
    BY <1>1, <1>2, <1>4, <2>5 DEF CallRecords, StepsOf, Memory, Releasing, Fulfilment
  <2>9. Locks(W \cup held, next)
    BY <1>1, <1>2, <1>4, <2>5 DEF CallRecords, StepsOf, Memory, Writes, Locks, HasDeal, HasOrder, Releasing, Fulfilment
  <2> QED BY <1>1, <1>2, <1>4, <2>5, <2>6, <2>7, <2>8, <2>9, WritingTypes DEF W, held, FreeRows
<1> QED BY ZenonT(60), <1>3, <1>4, CheckEffect

LEMMA ConsumeTypes ==
  ASSUME TxTypes, NEW s \in Sessions, Consume(s)
  PROVE  TxTypes'
<1> DEFINE c == call[s]
           d == c.order
           p == c.product
           held == DOMAIN mine[s]
<1>1. c \in CallRecords /\ StepsOf(c) /\ Memory(c) /\ Locks(held, c) /\ calls \in Nat
  BY LocalFacts
<1> DEFINE used == {k \in DOMAIN c.rows : Taken(c.rows, k, c.quantity[p]) > 0}
           next == [c EXCEPT !.products = c.products \ {p}, !.step = "goods"]
<1>2. /\ c.step = "consume" /\ p \in Products /\ p \in c.products /\ used \subseteq Rows
      /\ UNCHANGED <<calls, scenario>> /\ c.handler = "deliver"
      /\ \A k \in used : k[2] = p
  <2>1. \A k \in used : k \in DOMAIN c.rows
    OBVIOUS
  <2>2. c.step = "consume" /\ p \in Products /\ p \in c.products /\ used \subseteq Rows
    BY ZenonT(60), ConsumeEffect
  <2>3. UNCHANGED <<calls, scenario>> /\ c.handler = "deliver"
    BY ZenonT(60), ConsumeEffect
  <2> HIDE DEF used
  <2> QED BY <1>1, <2>1, <2>2, <2>3 DEF Memory
<1>3. CASE Rollback(s)
  BY <1>3, RollbackTypes
<1>4. ASSUME Free(s, BalanceRow(p)), UNCHANGED db, Keep(s, next), NEW new, Write(s, new), Typed(new),
             DOMAIN new = {BalanceRow(p)} \cup {ReservationRow(k) : k \in used}
      PROVE  TxTypes'
  <2> HIDE DEF used
  <2>2. FreeRows(s, {BalanceRow(p)} \cup {ReservationRow(k) : k \in used})
    BY <1>2, <1>4, FreeBalance
  <2> DEFINE W == DOMAIN new
  <2>5. Writes(W, {p}, {}, {}, {}, used) /\ FreeRows(s, W) /\ (\A x : ReceiptRow(x) \notin W) /\ calls' \in Nat
    BY <1>1, <1>2, <1>4, <2>2, WhatIsWritten, ReceiptUnwritten
  <2> HIDE DEF W, held, c
  <2>6. next \in CallRecords
    BY <1>1, <1>2, <1>4, <2>5 DEF CallRecords, Steps, Memory
  <2>7. StepsOf(next)
    BY <1>1, <1>2, <1>4, <2>5 DEF CallRecords, StepsOf, Releasing, Fulfilment
  <2>8. Memory(next)
    BY <1>1, <1>2, <1>4, <2>5 DEF CallRecords, StepsOf, Memory, Releasing, Fulfilment
  <2>9. Locks(W \cup held, next)
    BY <1>1, <1>2, <1>4, <2>5 DEF CallRecords, StepsOf, Memory, Writes, Locks, HasDeal, HasOrder, Releasing, Fulfilment
  <2> QED BY <1>1, <1>2, <1>4, <2>5, <2>6, <2>7, <2>8, <2>9, WritingTypes DEF W, held, FreeRows
<1> QED BY ZenonT(60), <1>3, <1>4, ConsumeEffect

LEMMA ShipTypes ==
  ASSUME TxTypes, NEW s \in Sessions, Ship(s)
  PROVE  TxTypes'
<1> DEFINE c == call[s]
           d == c.order
           p == c.product
           held == DOMAIN mine[s]
<1>1. c \in CallRecords /\ StepsOf(c) /\ Memory(c) /\ Locks(held, c) /\ calls \in Nat
  BY LocalFacts
<1> DEFINE next == [c EXCEPT !.step = "commit"]
<1>2. c.step = "ship" /\ d \in Orders /\ c.handler = "deliver" /\ UNCHANGED <<db, calls, scenario>> /\ Keep(s, next)
  BY ShipEffect DEF Go
<1>3. PICK new : Write(s, new) /\ Typed(new) /\ DOMAIN new = {DealRow(d), OrderRow(d)}
  BY ShipEffect
<1>4. FreeRows(s, {DealRow(d), OrderRow(d)})
  BY <1>1, <1>2, OwnRows DEF Locks, HasOrder, HasDeal, Fulfilment
<1> DEFINE W == DOMAIN new
<1>5. Writes(W, {}, {d}, {d}, {}, {}) /\ FreeRows(s, W) /\ (\A x : ReceiptRow(x) \notin W) /\ calls' \in Nat
  BY <1>1, <1>2, <1>3, <1>4, WhatIsWritten, ReceiptUnwritten
<1> HIDE DEF W, held, c
<1>6. next \in CallRecords
  BY <1>1, <1>2, <1>3, <1>5 DEF CallRecords, Steps, Memory
<1>7. StepsOf(next)
  BY <1>1, <1>2, <1>3, <1>5 DEF CallRecords, StepsOf, Releasing, Fulfilment
<1>8. Memory(next)
  BY <1>1, <1>2, <1>3, <1>5 DEF CallRecords, StepsOf, Memory, Releasing, Fulfilment
<1>9. Locks(W \cup held, next)
  BY <1>1, <1>2, <1>3, <1>5 DEF CallRecords, StepsOf, Memory, Writes, Locks, HasDeal, HasOrder, Releasing, Fulfilment
<1> QED BY <1>1, <1>2, <1>3, <1>5, <1>6, <1>7, <1>8, <1>9, WritingTypes DEF W, held, FreeRows

LEMMA SuperviseTypes ==
  ASSUME TxTypes, NEW s \in Sessions, Supervise(s)
  PROVE  TxTypes'
<1> DEFINE c == call[s]
           d == c.order
           p == c.product
           held == DOMAIN mine[s]
<1>1. c \in CallRecords /\ StepsOf(c) /\ Memory(c) /\ Locks(held, c) /\ calls \in Nat
  BY LocalFacts
<1> DEFINE next == [c EXCEPT !.step = "commit"]
<1>2. c.step = "supervise" /\ d \in Orders /\ c.handler = "supervisor" /\ UNCHANGED <<db, calls, scenario>> /\ Keep(s, next)
  BY SuperviseEffect DEF Go
<1>3. PICK new : Write(s, new) /\ Typed(new) /\ DOMAIN new = {DealRow(d), OrderRow(d)}
  BY SuperviseEffect
<1>4. FreeRows(s, {DealRow(d), OrderRow(d)})
  BY <1>1, <1>2, OwnRows DEF Locks, HasOrder, HasDeal, Fulfilment
<1> DEFINE W == DOMAIN new
<1>5. Writes(W, {}, {d}, {d}, {}, {}) /\ FreeRows(s, W) /\ (\A x : ReceiptRow(x) \notin W) /\ calls' \in Nat
  BY <1>1, <1>2, <1>3, <1>4, WhatIsWritten, ReceiptUnwritten
<1> HIDE DEF W, held, c
<1>6. next \in CallRecords
  BY <1>1, <1>2, <1>3, <1>5 DEF CallRecords, Steps, Memory
<1>7. StepsOf(next)
  BY <1>1, <1>2, <1>3, <1>5 DEF CallRecords, StepsOf, Releasing, Fulfilment
<1>8. Memory(next)
  BY <1>1, <1>2, <1>3, <1>5 DEF CallRecords, StepsOf, Memory, Releasing, Fulfilment
<1>9. Locks(W \cup held, next)
  BY <1>1, <1>2, <1>3, <1>5 DEF CallRecords, StepsOf, Memory, Writes, Locks, HasDeal, HasOrder, Releasing, Fulfilment
<1> QED BY <1>1, <1>2, <1>3, <1>5, <1>6, <1>7, <1>8, <1>9, WritingTypes DEF W, held, FreeRows

LEMMA PutTypes ==
  ASSUME TxTypes, NEW s \in Sessions, Put(s)
  PROVE  TxTypes'
<1> DEFINE c == call[s]
           d == c.order
           p == c.product
           held == DOMAIN mine[s]
<1>1. c \in CallRecords /\ StepsOf(c) /\ Memory(c) /\ Locks(held, c) /\ calls \in Nat
  BY LocalFacts
<1> DEFINE next == [c EXCEPT !.step = "list"]
<1>2. c.step = "put" /\ p \in Products /\ c.handler = "receive" /\ UNCHANGED <<calls, scenario>>
  BY PutEffect
<1>3. CASE Rollback(s)
  BY <1>3, RollbackTypes
<1>4. ASSUME Free(s, BalanceRow(p)), UNCHANGED db, Go(s, "list"), NEW new, Write(s, new), Typed(new),
             DOMAIN new = {BalanceRow(p)}
      PROVE  TxTypes'
  <2>1. Keep(s, next)
    BY <1>4 DEF Go
  <2>2. FreeRows(s, {BalanceRow(p)})
    BY <1>4, OwnRows
  <2> DEFINE W == DOMAIN new
  <2>5. Writes(W, {p}, {}, {}, {}, {}) /\ FreeRows(s, W) /\ (\A x : ReceiptRow(x) \notin W) /\ calls' \in Nat
    BY <1>1, <1>2, <1>4, <2>2, WhatIsWritten, ReceiptUnwritten
  <2> HIDE DEF W, held, c
  <2>6. next \in CallRecords
    BY <1>1, <1>2, <1>4, <2>1, <2>5 DEF CallRecords, Steps, Memory
  <2>7. StepsOf(next)
    BY <1>1, <1>2, <1>4, <2>1, <2>5 DEF CallRecords, StepsOf, Releasing, Fulfilment
  <2>8. Memory(next)
    BY <1>1, <1>2, <1>4, <2>1, <2>5 DEF CallRecords, StepsOf, Memory, Releasing, Fulfilment
  <2>9. Locks(W \cup held, next)
    BY <1>1, <1>2, <1>4, <2>1, <2>5 DEF CallRecords, StepsOf, Memory, Writes, Locks, HasDeal, HasOrder, Releasing, Fulfilment
  <2> QED BY <1>1, <1>2, <1>4, <2>1, <2>5, <2>6, <2>7, <2>8, <2>9, WritingTypes DEF W, held, FreeRows
<1> QED BY <1>3, <1>4, PutEffect

LEMMA IdleFields ==
  /\ Idle \in CallRecords
  /\ Idle.handler = "none" /\ Idle.step = "idle" /\ Idle.products = {} /\ DOMAIN Idle.rows = {}
  /\ Idle.locks = <<>> /\ Idle.waiting = {} /\ Idle.verdict = "none"
<1>1. Idle \in CallRecords
  BY IdleTypes DEF LocalTypes, Shape
<1>2. DOMAIN Nothing = {}
  BY DEF Nothing
<1> QED BY <1>1, <1>2 DEF Idle

LEMMA StartCancelTypes ==
  ASSUME TxTypes, NEW s \in Sessions, NEW d \in Orders, StartCancel(s, d)
  PROVE  TxTypes'
<1> DEFINE next == [Idle EXCEPT !.handler = "cancel", !.order = d, !.step = "readRows",
                            !.version = db[OrderRow(d)].version]
<1>1. Start(s, next) /\ UNCHANGED mine
  BY DEF StartCancel
<1>2. db[OrderRow(d)].version \in Nat
  <2>1. db[OrderRow(d)] \in OrderRecords
    BY KnownRows, TypedValues DEF TxTypes, SessionsTyped
  <2> QED BY <2>1 DEF OrderRecords
<1>3. next \in CallRecords
  BY <1>2, IdleFields DEF CallRecords, Steps, Handlers, Releasing, Fulfilment
<1>4. StepsOf(next)
  BY <1>2, IdleFields DEF CallRecords, StepsOf, Releasing, Fulfilment
<1>5. Memory(next)
  BY <1>2, IdleFields DEF CallRecords, Memory, Releasing, Fulfilment
<1>6. Locks({}, next)
  BY <1>2, IdleFields DEF CallRecords, Locks, HasDeal, HasOrder, Releasing, Fulfilment
<1> QED BY <1>1, <1>3, <1>4, <1>5, <1>6, StartingTypes

LEMMA StartTtlTypes ==
  ASSUME TxTypes, NEW s \in Sessions, NEW d \in Orders, StartTtl(s, d)
  PROVE  TxTypes'
<1> DEFINE next == [Idle EXCEPT !.handler = "ttl", !.order = d, !.step = "readRows",
                            !.version = db[OrderRow(d)].version]
<1>1. Start(s, next) /\ UNCHANGED mine
  BY DEF StartTtl
<1>2. db[OrderRow(d)].version \in Nat
  <2>1. db[OrderRow(d)] \in OrderRecords
    BY KnownRows, TypedValues DEF TxTypes, SessionsTyped
  <2> QED BY <2>1 DEF OrderRecords
<1>3. next \in CallRecords
  BY <1>2, IdleFields DEF CallRecords, Steps, Handlers, Releasing, Fulfilment
<1>4. StepsOf(next)
  BY <1>2, IdleFields DEF CallRecords, StepsOf, Releasing, Fulfilment
<1>5. Memory(next)
  BY <1>2, IdleFields DEF CallRecords, Memory, Releasing, Fulfilment
<1>6. Locks({}, next)
  BY <1>2, IdleFields DEF CallRecords, Locks, HasDeal, HasOrder, Releasing, Fulfilment
<1> QED BY <1>1, <1>3, <1>4, <1>5, <1>6, StartingTypes

LEMMA StartExpireTypes ==
  ASSUME TxTypes, NEW s \in Sessions, NEW k \in Rows, StartExpire(s, k)
  PROVE  TxTypes'
<1> DEFINE rows == Row(k, db[ReservationRow(k)].quantity)
           next == [Idle EXCEPT !.handler = "expire", !.order = k[1], !.step = "recheck",
                            !.rows = rows]
<1>1. Start(s, next) /\ UNCHANGED mine
  BY DEF StartExpire
<1>2. rows \in UNION {[S -> Nat] : S \in SUBSET Rows} /\ k[1] \in Orders /\ DOMAIN rows = {k}
  <2>1. db[ReservationRow(k)] \in ReservationRecords
    BY KnownRows, TypedValues DEF TxTypes, SessionsTyped
  <2>2. db[ReservationRow(k)].quantity \in Nat
    BY <2>1 DEF ReservationRecords
  <2>3. rows \in [{k} -> Nat]
    BY <2>2 DEF Row
  <2>4. {k} \in SUBSET Rows
    OBVIOUS
  <2>5. k[1] \in Orders
    BY DEF Rows
  <2> HIDE DEF rows
  <2> QED BY <2>3, <2>4, <2>5
<1> HIDE DEF rows
<1>3. next \in CallRecords
  BY <1>2, IdleFields DEF CallRecords, Steps, Handlers, Releasing, Fulfilment
<1>4. StepsOf(next)
  BY <1>2, IdleFields DEF CallRecords, StepsOf, Releasing, Fulfilment
<1>5. Memory(next)
  BY <1>2, IdleFields DEF CallRecords, Memory, Releasing, Fulfilment
<1>6. Locks({}, next)
  BY <1>2, IdleFields DEF CallRecords, Locks, HasDeal, HasOrder, Releasing, Fulfilment
<1> QED BY <1>1, <1>3, <1>4, <1>5, <1>6, StartingTypes

LEMMA StartConfirmTypes ==
  ASSUME TxTypes, NEW s \in Sessions, NEW k \in Payments, NEW verdict \in {"CONFIRMED", "REJECTED"}, StartConfirm(s, k, verdict)
  PROVE  TxTypes'
<1> DEFINE next == [Idle EXCEPT !.handler = "confirm", !.order = k[1], !.step = "readOrder",
                            !.payment = k, !.verdict = verdict]
<1>1. Start(s, next) /\ UNCHANGED mine
  BY DEF StartConfirm
<1>2. k[1] \in Orders
  BY DEF Payments
<1>3. next \in CallRecords
  BY <1>2, IdleFields DEF CallRecords, Steps, Handlers, Releasing, Fulfilment
<1>4. StepsOf(next)
  BY <1>2, IdleFields DEF CallRecords, StepsOf, Releasing, Fulfilment
<1>5. Memory(next)
  BY <1>2, IdleFields DEF CallRecords, Memory, Releasing, Fulfilment
<1>6. Locks({}, next)
  BY <1>2, IdleFields DEF CallRecords, Locks, HasDeal, HasOrder, Releasing, Fulfilment
<1> QED BY <1>1, <1>3, <1>4, <1>5, <1>6, StartingTypes

LEMMA StartDeliverTypes ==
  ASSUME TxTypes, NEW s \in Sessions, NEW d \in Orders, NEW quantity \in [Products -> 0..MaxQuantity], StartDeliver(s, d, quantity)
  PROVE  TxTypes'
<1> DEFINE locks == FulfilmentLocks("deliver")
           next == [Idle EXCEPT !.handler = "deliver", !.order = d, !.step = "lock", !.locks = locks, !.quantity = quantity]
<1>1. Start(s, next) /\ UNCHANGED mine
  BY DEF StartDeliver
<1>2. locks = BothLocks /\ locks \in LockLists /\ locks # <<>> /\ BothLocks # OneLock /\ quantity \in [Products -> Nat]
  <2>1. MaxQuantity \in Nat
    BY SizesAssumption
  <2> QED BY <2>1 DEF LockLists, FulfilmentLocks, BothLocks, OneLock
<1> HIDE DEF locks
<1>3. next \in CallRecords
  BY ZenonT(60), <1>2, IdleFields DEF CallRecords, Steps, Handlers, Releasing, Fulfilment
<1>4. StepsOf(next)
  BY <1>2, IdleFields DEF CallRecords, StepsOf, Releasing, Fulfilment
<1>5. Memory(next)
  BY <1>2, IdleFields DEF CallRecords, Memory, Releasing, Fulfilment
<1>6. Locks({}, next)
  BY <1>2, IdleFields DEF CallRecords, Locks, HasDeal, HasOrder, Releasing, Fulfilment
<1> QED BY <1>1, <1>3, <1>4, <1>5, <1>6, StartingTypes

LEMMA StartSupervisorTypes ==
  ASSUME TxTypes, NEW s \in Sessions, NEW d \in Orders, StartSupervisor(s, d)
  PROVE  TxTypes'
<1> DEFINE locks == FulfilmentLocks("supervisor")
           next == [Idle EXCEPT !.handler = "supervisor", !.order = d, !.step = "lock", !.locks = locks]
<1>1. Start(s, next) /\ UNCHANGED mine
  BY DEF StartSupervisor
<1>2. locks = BothLocks /\ locks \in LockLists /\ locks # <<>> /\ BothLocks # OneLock
  BY DEF LockLists, FulfilmentLocks, BothLocks, OneLock
<1> HIDE DEF locks
<1>3. next \in CallRecords
  BY ZenonT(60), <1>2, IdleFields DEF CallRecords, Steps, Handlers, Releasing, Fulfilment
<1>4. StepsOf(next)
  BY <1>2, IdleFields DEF CallRecords, StepsOf, Releasing, Fulfilment
<1>5. Memory(next)
  BY <1>2, IdleFields DEF CallRecords, Memory, Releasing, Fulfilment
<1>6. Locks({}, next)
  BY <1>2, IdleFields DEF CallRecords, Locks, HasDeal, HasOrder, Releasing, Fulfilment
<1> QED BY <1>1, <1>3, <1>4, <1>5, <1>6, StartingTypes

LEMMA StartCreateTypes ==
  ASSUME TxTypes, NEW s \in Sessions, NEW d \in Orders, StartCreate(s, d)
  PROVE  /\ TxTypes'
         /\ \E new : /\ Write(s, new) /\ Typed(new) /\ DOMAIN new = {OrderRow(d)}
                     /\ new[OrderRow(d)] = NewOrder("WAITING_PAYMENT", NumOrders + calls + 1, 0)
                     /\ new[OrderRow(d)] \in OrderRecords
<1> DEFINE next == [Idle EXCEPT !.handler = "create", !.order = d, !.step = "reserve", !.products = Wanted(d)]
           v == NewOrder("WAITING_PAYMENT", NumOrders + calls + 1, 0)
           new == Row(OrderRow(d), v)
<1>1. Start(s, next) /\ Free(s, OrderRow(d)) /\ Write(s, new)
  BY DEF StartCreate
<1>2. Wanted(d) \subseteq Products /\ calls \in Nat /\ calls' = calls + 1 /\ UNCHANGED <<db, scenario>> /\ Keep(s, next)
  BY <1>1, LocalFacts, ScenarioType DEF Start
<1>3. v \in OrderRecords
  <2>1. NumOrders + calls + 1 \in Nat /\ TotalAmount \in Nat
    BY <1>2, LocalFacts, ScenarioType
  <2> QED BY <2>1, NewOrderType DEF OrderStatuses
<1> HIDE DEF v
<1>4. Typed(new) /\ DOMAIN new = {OrderRow(d)} /\ new[OrderRow(d)] = v
  BY <1>3, TypedRows, RowDomain
<1> DEFINE W == DOMAIN new
           held == DOMAIN mine[s]
<1>5. Writes(W, {}, {d}, {}, {}, {}) /\ (\A x : ReceiptRow(x) \notin W) /\ calls' \in Nat
  BY <1>2, <1>4, WhatIsWritten, ReceiptUnwritten
<1>6. held = {}
  BY <1>1, LocalFacts DEF Start, At, Locks
<1>7. FreeRows(s, {OrderRow(d)})
  BY <1>1, OwnRows
<1> HIDE DEF new
<1>8. next \in CallRecords
  BY <1>2, IdleFields DEF CallRecords, Steps, Handlers, Releasing, Fulfilment
<1>9. StepsOf(next)
  BY <1>2, IdleFields DEF CallRecords, StepsOf, Releasing, Fulfilment
<1>10. Memory(next)
  BY <1>2, IdleFields DEF CallRecords, Memory, Releasing, Fulfilment
<1>11. Locks(W \cup held, next)
  <2> HIDE DEF W, held
  <2> QED BY <1>2, <1>5, <1>6, IdleFields DEF CallRecords, Writes, Locks, HasDeal, HasOrder, Releasing, Fulfilment
<1>12. TxTypes'
  BY <1>1, <1>2, <1>4, <1>5, <1>7, <1>8, <1>9, <1>10, <1>11, WritingTypes DEF FreeRows
<1> QED BY <1>1, <1>3, <1>4, <1>12 DEF v

LEMMA StartReceiveTypes ==
  ASSUME TxTypes, NEW s \in Sessions, NEW p \in Products, StartReceive(s, p)
  PROVE  /\ TxTypes'
         /\ \E new : /\ Write(s, new) /\ Typed(new) /\ DOMAIN new = {ReceiptRow(p)}
                     /\ new[ReceiptRow(p)] = db[ReceiptRow(p)] + ReceiptQuantity
<1> DEFINE next == [Idle EXCEPT !.handler = "receive", !.product = p, !.step = "arrive"]
           v == db[ReceiptRow(p)] + ReceiptQuantity
           new == Row(ReceiptRow(p), v)
<1>1. Start(s, next) /\ Free(s, ReceiptRow(p)) /\ Write(s, new)
  BY DEF StartReceive
<1>2. calls \in Nat /\ calls' = calls + 1 /\ UNCHANGED <<db, scenario>> /\ Keep(s, next)
  BY <1>1, LocalFacts DEF Start
<1>3. v \in Nat
  <2>1. db[ReceiptRow(p)] \in Nat /\ ReceiptQuantity \in Nat
    BY KnownRows, TypedValues, LocalFacts, ScenarioType DEF TxTypes, SessionsTyped
  <2> QED BY <2>1
<1> HIDE DEF v
<1>4. Typed(new) /\ DOMAIN new = {ReceiptRow(p)} /\ new[ReceiptRow(p)] = v
  BY <1>3, TypedRows, RowDomain
<1> DEFINE W == DOMAIN new
           held == DOMAIN mine[s]
<1>5. Writes(W, {}, {}, {}, {}, {}) /\ W = {ReceiptRow(p)} /\ calls' \in Nat
  BY <1>2, <1>4, WhatIsWritten
<1>6. held = {}
  BY <1>1, LocalFacts DEF Start, At, Locks
<1>7. FreeRows(s, {ReceiptRow(p)})
  BY <1>1, OwnRows
<1> HIDE DEF new
<1>8. next \in CallRecords
  BY <1>2, IdleFields DEF CallRecords, Steps, Handlers, Releasing, Fulfilment
<1>9. StepsOf(next)
  BY <1>2, IdleFields DEF CallRecords, StepsOf, Releasing, Fulfilment
<1>10. Memory(next)
  BY <1>2, IdleFields DEF CallRecords, Memory, Releasing, Fulfilment
<1>11. Locks(W \cup held, next)
  <2> HIDE DEF W, held
  <2> QED BY <1>2, <1>5, <1>6, IdleFields DEF CallRecords, Writes, Locks, HasDeal, HasOrder, Releasing, Fulfilment
<1>12. TxTypes'
  BY <1>1, <1>2, <1>4, <1>5, <1>7, <1>8, <1>9, <1>10, <1>11, WritingTypes DEF FreeRows
<1> QED BY <1>1, <1>3, <1>4, <1>12 DEF v

\* The clock moves on: the rows are older, otherwise as they were.
Aged(old, new) ==
  /\ DOMAIN new = DOMAIN old
  /\ \A p \in Products : new[BalanceRow(p)] = old[BalanceRow(p)]
  /\ \A d \in Orders : new[DealRow(d)] = old[DealRow(d)]
  /\ \A k \in Payments : new[PaymentRow(k)] = old[PaymentRow(k)]
  /\ \A p \in Products : new[ReceiptRow(p)] = old[ReceiptRow(p)]
  /\ \A d \in Orders : OrderChanged(old[OrderRow(d)], new[OrderRow(d)], old[OrderRow(d)].status, 0)
  /\ \A k \in Rows : /\ new[ReservationRow(k)] \in ReservationRecords
                     /\ new[ReservationRow(k)].status = old[ReservationRow(k)].status
                     /\ new[ReservationRow(k)].quantity = old[ReservationRow(k)].quantity

LEMMA ThreeDaysEffect ==
  ASSUME TxTypes, ThreeDaysPass
  PROVE  TxTypes' /\ Aged(db, db') /\ UNCHANGED <<mine, call, calls, scenario>>
<1> DEFINE R == {ReservationRow(k) : k \in Rows} \cup {OrderRow(d) : d \in Orders}
           new == [r \in R |-> [db[r] EXCEPT !.old = TRUE]]
<1>1. db' = Over(new, db) /\ UNCHANGED <<mine, call, calls, scenario>>
  BY DEF ThreeDaysPass
<1>2. DOMAIN db = AllRows /\ Typed(db)
  BY DEF TxTypes, SessionsTyped
<1>3. /\ \A d \in Orders : OrderRow(d) \in R /\ new[OrderRow(d)] = [db[OrderRow(d)] EXCEPT !.old = TRUE]
      /\ \A k \in Rows : ReservationRow(k) \in R
                         /\ new[ReservationRow(k)] = [db[ReservationRow(k)] EXCEPT !.old = TRUE]
      /\ DOMAIN new = R
  OBVIOUS
<1>4. /\ \A p : BalanceRow(p) \notin R
      /\ \A d : DealRow(d) \notin R
      /\ \A k : PaymentRow(k) \notin R
      /\ \A p : ReceiptRow(p) \notin R
  BY RowKeys
<1>5. R \subseteq AllRows
  BY DEF AllRows
<1> HIDE DEF new
<1>6. \A d \in Orders : OrderChanged(db[OrderRow(d)], new[OrderRow(d)], db[OrderRow(d)].status, 0)
  <2> TAKE d \in Orders
  <2> DEFINE o == db[OrderRow(d)]
  <2>1. o \in OrderRecords
    BY <1>2, KnownRows, TypedValues
  <2>2. new[OrderRow(d)] = [o EXCEPT !.old = TRUE]
    BY <1>3
  <2> HIDE DEF o
  <2>3. o.version + 0 = o.version
    BY <2>1 DEF OrderRecords
  <2>4. OrderChanged(o, new[OrderRow(d)], o.status, 0)
    BY <2>1, <2>2, <2>3 DEF OrderRecords, OrderChanged
  <2> QED BY <2>4 DEF o
<1>7. \A k \in Rows : /\ new[ReservationRow(k)] \in ReservationRecords
                      /\ new[ReservationRow(k)].status = db[ReservationRow(k)].status
                      /\ new[ReservationRow(k)].quantity = db[ReservationRow(k)].quantity
  <2> TAKE k \in Rows
  <2> DEFINE r == db[ReservationRow(k)]
  <2>1. r \in ReservationRecords
    BY <1>2, KnownRows, TypedValues
  <2>2. new[ReservationRow(k)] = [r EXCEPT !.old = TRUE]
    BY <1>3
  <2> HIDE DEF r
  <2>4. /\ new[ReservationRow(k)] \in ReservationRecords
        /\ new[ReservationRow(k)].status = r.status /\ new[ReservationRow(k)].quantity = r.quantity
    BY <2>1, <2>2 DEF ReservationRecords
  <2> QED BY <2>4 DEF r
<1>8. Typed(new)
  <2>1. \A r \in R : r \in AllRows /\ new[r] \in Values(r[1])
    <3> SUFFICES ASSUME NEW r \in R PROVE r \in AllRows /\ new[r] \in Values(r[1])
      OBVIOUS
    <3>1. CASE \E d \in Orders : r = OrderRow(d)
      <4>1. PICK d \in Orders : r = OrderRow(d)
        BY <3>1
      <4>2. new[r] \in OrderRecords
        BY <1>6, <4>1 DEF OrderChanged
      <4> QED BY <1>5, <4>1, <4>2, RowKeys, ValuesOfKinds
    <3>2. CASE \E k \in Rows : r = ReservationRow(k)
      <4>1. PICK k \in Rows : r = ReservationRow(k)
        BY <3>2
      <4>2. new[r] \in ReservationRecords
        BY <1>7, <4>1
      <4> QED BY <1>5, <4>1, <4>2, RowKeys, ValuesOfKinds
    <3> QED BY <3>1, <3>2
  <2> QED BY <1>3, <2>1 DEF Typed
<1>9. DOMAIN db' = DOMAIN db /\ Typed(db')
  <2>1. DOMAIN db' = DOMAIN new \cup DOMAIN db
    BY <1>1, OverDomain
  <2>2. Typed(db')
    BY <1>1, <1>2, <1>8, TypedOver
  <2> QED BY <1>2, <1>3, <1>5, <2>1, <2>2
<1>10. /\ \A r \in R : db'[r] = new[r]
       /\ \A r \in AllRows : r \notin R => db'[r] = db[r]
  BY <1>1, <1>2, <1>3, OverDomain
<1> HIDE DEF R
<1>11. Aged(db, db')
  BY <1>3, <1>4, <1>6, <1>7, <1>9, <1>10, KnownRows DEF Aged
<1>12. TxTypes'
  BY <1>1, <1>2, <1>9 DEF TxTypes, SessionsTyped, Exclusive
<1> QED BY <1>1, <1>11, <1>12

\* The end of a deadlock is a rollback.
LEMMA NextTypes ==
  ASSUME TxTypes, [Next]_vars
  PROVE  TxTypes'
<1>1. CASE UNCHANGED vars
  BY <1>1 DEF vars, TxTypes, SessionsTyped, Exclusive
<1>2. CASE ThreeDaysPass
  BY <1>2, ThreeDaysEffect
<1>3. ASSUME NEW s \in Sessions, StartCall(s)
      PROVE  TxTypes'
  <2>1. ASSUME NEW d \in Orders,
               \/ StartCreate(s, d) \/ StartCancel(s, d) \/ StartTtl(s, d) \/ StartSupervisor(s, d)
               \/ \E quantity \in [Products -> 0..MaxQuantity] : StartDeliver(s, d, quantity)
        PROVE  TxTypes'
    BY <2>1, StartCreateTypes, StartCancelTypes, StartTtlTypes, StartSupervisorTypes, StartDeliverTypes
  <2>2. ASSUME NEW k \in Rows, StartExpire(s, k)
        PROVE  TxTypes'
    BY <2>2, StartExpireTypes
  <2>3. ASSUME NEW k \in Payments, NEW verdict \in {"CONFIRMED", "REJECTED"}, StartConfirm(s, k, verdict)
        PROVE  TxTypes'
    BY <2>3, StartConfirmTypes
  <2>4. ASSUME NEW p \in Products, StartReceive(s, p)
        PROVE  TxTypes'
    BY <2>4, StartReceiveTypes
  <2> QED BY <1>3, <2>1, <2>2, <2>3, <2>4 DEF StartCall
<1>4. ASSUME NEW s \in Sessions, SessionStep(s)
      PROVE  TxTypes'
  <2>1. CASE ReadBalance(s) \/ Claim(s) \/ Shortage(s)
    BY <2>1, ReadBalanceTypes, ClaimTypes, ShortageTypes
  <2>2. CASE ReadRows(s) \/ ReadReleased(s) \/ GiveBack(s) \/ Close(s)
    BY <2>2, ReadRowsTypes, ReadReleasedTypes, GiveBackTypes, CloseTypes
  <2>3. CASE Recheck(s) \/ Count(s) \/ Revert(s)
    BY <2>3, RecheckTypes, CountTypes, RevertTypes
  <2>4. CASE ReadOrder(s) \/ Lock(s) \/ Settle(s)
    BY <2>4, ReadOrderTypes, LockTypes, SettleTypes
  <2>5. CASE Check(s) \/ ReadGoods(s) \/ ReadStock(s) \/ Consume(s) \/ Ship(s) \/ Supervise(s)
    BY <2>5, CheckTypes, ReadGoodsTypes, ReadStockTypes, ConsumeTypes, ShipTypes, SuperviseTypes
  <2>6. CASE ReadArrival(s) \/ Put(s) \/ ListWaiting(s) \/ NextWaiting(s) \/ Promise(s)
    BY <2>6, ReadArrivalTypes, PutTypes, ListWaitingTypes, NextWaitingTypes, PromiseTypes
  <2>7. CASE Commit(s) \/ DeadlockVictim(s)
    BY <2>7, CommitTypes, RollbackTypes DEF DeadlockVictim
  <2> QED BY <1>4, <2>1, <2>2, <2>3, <2>4, <2>5, <2>6, <2>7 DEF SessionStep
<1> QED BY <1>1, <1>2, <1>3, <1>4 DEF Next

\* Whatever runs together: the rows hold what their tables may hold, a session has written the rows
\* that its handler has come to, a reservation only with its balance, and no row is written by two.
THEOREM TxTypesCorrect == Spec => []TxTypes
<1>1. Init => TxTypes
  BY InitTypes
<1>2. TxTypes /\ [Next]_vars => TxTypes'
  BY NextTypes
<1> QED BY <1>1, <1>2, PTL DEF Spec

-----------------------------------------------------------------------------
\* Deadlocks of payments, deliveries and the supervisor.

\* What a fulfilment session may wait for: its locks, and goods.
LEMMA FulfilmentNeeds ==
  ASSUME TxTypes, NEW s \in Sessions, call[s].handler \in Fulfilment, Needs(s) # {}
  PROVE  \/ /\ At(s, "lock") /\ call[s].locks = BothLocks /\ Needs(s) = {DealRow(call[s].order)}
         \/ /\ At(s, "lock") /\ call[s].locks = OneLock /\ Needs(s) = {OrderRow(call[s].order)}
         \/ /\ At(s, "consume") /\ call[s].handler = "deliver" /\ call[s].product \in Products
            /\ Needs(s) = {BalanceRow(call[s].product)}
<1> DEFINE c == call[s]
<1>1. StepsOf(c) /\ Memory(c)
  BY LocalFacts
<1>2. c.step \notin {"claim", "giveBack", "put", "close", "revert", "promise"}
  BY <1>1 DEF StepsOf, Fulfilment, Releasing
<1>3. CASE c.step = "lock"
  <2>1. Needs(s) = {LockedRow(s)}
    BY <1>3 DEF Needs, At
  <2>2. c.locks \in {BothLocks, OneLock}
    BY <1>1, <1>3 DEF Memory
  <2>3. Head(BothLocks) = "deal" /\ Head(OneLock) = "order"
    BY DEF BothLocks, OneLock
  <2>4. c.locks = BothLocks => LockedRow(s) = DealRow(c.order)
    BY <2>3 DEF LockedRow
  <2>5. c.locks = OneLock => LockedRow(s) = OrderRow(c.order)
    BY <2>3 DEF LockedRow
  <2> QED BY <1>3, <2>1, <2>2, <2>4, <2>5 DEF At
<1>4. CASE c.step = "consume"
  <2>1. c.handler = "deliver" /\ c.product \in Products
    BY <1>1, <1>4 DEF StepsOf, Memory
  <2>2. Consumable(s) => Needs(s) = {BalanceRow(c.product)}
    BY <1>4 DEF Needs, At
  <2>3. ~Consumable(s) => Needs(s) = {}
    BY <1>4 DEF Needs, At
  <2> QED BY <1>4, <2>1, <2>2, <2>3 DEF At
<1>5. CASE c.step \notin {"lock", "consume"}
  <2>1. Needs(s) = {}
    BY <1>2, <1>5 DEF Needs, At
  <2> QED BY <2>1
<1> QED BY <1>3, <1>4, <1>5

LEMMA DeadlockStep ==
  ASSUME TxTypes
  PROVE  OnlyGoodsDeadlock
<1> SUFFICES ASSUME NEW S \in SUBSET {s \in Sessions : call[s].handler \in Fulfilment},
                    S # {}, Deadlocked(S)
             PROVE  \E s, t \in S : /\ call[s].order # call[t].order
                                    /\ At(s, "consume") /\ At(t, "consume")
  BY DEF OnlyGoodsDeadlock, Fulfilment
<1>1. \A s \in S : s \in Sessions /\ call[s].handler \in Fulfilment /\ LocalTypes(mine[s], call[s])
  BY DEF TxTypes, SessionsTyped
<1>2. \A s \in S : Locks(DOMAIN mine[s], call[s]) /\ StepsOf(call[s]) /\ Memory(call[s])
  BY <1>1 DEF LocalTypes, Shape
<1>3. \A s \in S : \E t \in S \ {s} : Needs(s) # {} /\ Needs(s) \cap DOMAIN mine[t] # {}
  BY DEF Deadlocked
<1>4. \A s, t \in S : s # t => DOMAIN mine[s] \cap DOMAIN mine[t] = {}
  BY <1>1 DEF TxTypes, Exclusive
<1>5. \A s \in S : call[s].order \in Orders
  BY <1>1, <1>2 DEF Memory, Fulfilment
\* A fulfilment session that has the order has the deal.
<1>6. \A t \in S, d \in Orders : OrderRow(d) \in DOMAIN mine[t] => DealRow(d) \in DOMAIN mine[t] /\ d = call[t].order
  <2> SUFFICES ASSUME NEW t \in S, NEW d \in Orders, OrderRow(d) \in DOMAIN mine[t]
               PROVE  DealRow(d) \in DOMAIN mine[t] /\ d = call[t].order
    OBVIOUS
  <2>1. d = call[t].order
    BY <1>1, <1>2 DEF Locks, Fulfilment
  <2>2. HasOrder(call[t])
    BY <1>1, <1>2, <2>1 DEF Locks
  <2>3. HasDeal(call[t])
    BY <2>2 DEF HasOrder, HasDeal
  <2> QED BY <1>1, <1>2, <2>1, <2>3 DEF Locks
\* So nobody waits for an order.
<1>7. \A s \in S : ~ (At(s, "lock") /\ call[s].locks = OneLock)
  <2> SUFFICES ASSUME NEW s \in S, At(s, "lock"), call[s].locks = OneLock
               PROVE  FALSE
    OBVIOUS
  <2>1. PICK t \in S \ {s} : Needs(s) # {} /\ Needs(s) \cap DOMAIN mine[t] # {}
    BY <1>3
  <2>2. OneLock # BothLocks
    BY DEF OneLock, BothLocks
  <2>3. OrderRow(call[s].order) \in DOMAIN mine[t]
    BY <1>1, <2>1, <2>2, FulfilmentNeeds DEF At
  <2>4. DealRow(call[s].order) \in DOMAIN mine[t]
    BY <1>5, <1>6, <2>3
  <2>5. DealRow(call[s].order) \in DOMAIN mine[s]
    BY <1>1, <1>2, <1>5, <2>2 DEF Locks, HasDeal, At
  <2> QED BY <1>4, <2>4, <2>5
\* Who is waited for has come to the goods.
<1>8. \A s \in S : \E t \in S \ {s} : /\ Needs(s) \cap DOMAIN mine[t] # {}
                                     /\ At(t, "consume") /\ call[t].handler = "deliver"
  <2> TAKE s \in S
  <2>1. PICK t \in S \ {s} : Needs(s) # {} /\ Needs(s) \cap DOMAIN mine[t] # {}
    BY <1>3
  <2>2. Needs(t) # {}
    BY <1>3
  <2>3. ~ (At(t, "lock") /\ call[t].locks = BothLocks)
    <3> SUFFICES ASSUME At(t, "lock"), call[t].locks = BothLocks
                 PROVE  FALSE
      OBVIOUS
    <3>1. \A d \in Orders : DealRow(d) \notin DOMAIN mine[t]
      BY <1>2 DEF Locks, HasDeal, At
    <3>2. \A p \in Products : BalanceRow(p) \notin DOMAIN mine[t]
      BY <1>1, <1>2 DEF Locks, At, Fulfilment
    <3> QED BY <1>1, <1>5, <1>7, <2>1, <3>1, <3>2, FulfilmentNeeds
  <2> QED BY <1>1, <1>7, <2>1, <2>2, <2>3, FulfilmentNeeds
<1>9. PICK s \in S : At(s, "consume") /\ call[s].handler = "deliver"
  BY <1>8
<1>10. PICK t \in S \ {s} : At(t, "consume") /\ call[t].handler = "deliver"
  BY <1>8
<1>11. OrderRow(call[s].order) \in DOMAIN mine[s] /\ OrderRow(call[t].order) \in DOMAIN mine[t]
  BY <1>1, <1>2, <1>9, <1>10 DEF Locks, HasOrder, At, Fulfilment
<1>12. call[s].order # call[t].order
  BY <1>4, <1>11
<1> QED BY <1>9, <1>10, <1>12

\* Payments, deliveries and the supervisor cannot deadlock on the locks of deals and orders, however
\* many of them run: among any of them that wait for each other, two are deliveries of different
\* orders that have come to their goods.
THEOREM FulfilmentDeadlocksOverGoods == Spec => []OnlyGoodsDeadlock
BY TxTypesCorrect, DeadlockStep, PTL
-----------------------------------------------------------------------------
\* What a transaction has made of the rows it holds, compared with the
\* committed ones.  All of it depends on committed rows that nobody else can
\* write: it survives the commits of the others.

Waiting == {"WAITING_PAYMENT", "WAITING_STOCK"}

\* Statuses and versions of orders: a change of status comes with a new version.
OrderStep(c, old, new) ==
  /\ new.status # "NONE" /\ new.version >= old.version
  /\ new.version = old.version /\ old.status # "NONE" => new.status = old.status
  /\ c.handler = "create" => new.status \in Waiting /\ old.status = "NONE"
  /\ c.handler = "receive" => new.status = "WAITING_PAYMENT"
  /\ c.handler \in {"cancel", "ttl"} =>
       new.status = "CANCELLED" /\ old.status \in Waiting /\ new.version > old.version
  /\ c.handler = "expire" => new.status = "WAITING_STOCK" /\ old.status \in Waiting
  /\ c.handler \in {"confirm", "supervisor"} => new.status \in {old.status, "COMPLETED"}
  /\ c.handler \in {"confirm", "deliver"} /\ c.step # "commit" =>
       new.status = old.status /\ new.version = old.version
  /\ c.handler = "deliver" /\ c.step = "commit" =>
       new.status \in {"SHIPPED", "PARTIALLY_SHIPPED", "COMPLETED"} /\ new.version > old.version

\* Handlers that compare the version of the order they have read.
Versioned(c) == c.handler \in {"cancel", "ttl"} \/ (c.handler = "confirm" /\ c.step \in {"lock", "settle"})

OrderLocal(base, own, c) ==
  /\ \A d \in Orders : OrderRow(d) \in DOMAIN own => OrderStep(c, base[OrderRow(d)], own[OrderRow(d)])
  /\ c.handler \in Fulfilment \cup {"cancel", "ttl"} => base[OrderRow(c.order)].status # "NONE"
  /\ Versioned(c) => c.version <= base[OrderRow(c.order)].version
  /\ Versioned(c) /\ base[OrderRow(c.order)].version = c.version =>
       IF c.handler = "confirm" THEN base[OrderRow(c.order)].status # "CANCELLED"
       ELSE base[OrderRow(c.order)].status \in Waiting
  /\ c.handler = "confirm" /\ c.step = "commit" => base[OrderRow(c.order)].status # "CANCELLED"

OrderBase(base) ==
  \A d \in Orders : base[OrderRow(d)].status = "NONE" =>
    /\ base[OrderRow(d)].version = 0 /\ base[OrderRow(d)].paidAmount = 0
    /\ \A p \in Products : base[OrderRow(d)].delivered[p] = 0

\* Goods: what leaves the balances is delivered, what came in is on hand.
Sent(c) == c.handler = "deliver" /\ c.step \in {"goods", "stock", "consume", "ship", "commit"}
Arriving(c) == c.step \in {"arrive", "put"}

OnHand(base, own, p) == Value(base, own, BalanceRow(p)).onHand - base[BalanceRow(p)].onHand
SentOut(base, own, d, p) == Value(base, own, OrderRow(d)).delivered[p] - base[OrderRow(d)].delivered[p]
CameIn(base, own, p) == Value(base, own, ReceiptRow(p)) - base[ReceiptRow(p)]

Balanced(balance) ==
  balance.available = balance.onHand - balance.reserved /\ balance.available >= 0

GoodsLocal(base, own, c) ==
  /\ \A p \in Products :
       /\ BalanceRow(p) \in DOMAIN own => Balanced(own[BalanceRow(p)])
       /\ BalanceRow(p) \in DOMAIN own /\ c.handler = "deliver" => OnHand(base, own, p) = 0 - c.quantity[p]
       /\ c.handler \notin {"deliver", "receive"} => OnHand(base, own, p) = 0
       /\ c.handler = "receive" => OnHand(base, own, p) = IF Arriving(c) THEN 0 ELSE CameIn(base, own, p)
       /\ c.handler = "receive" => CameIn(base, own, p) >= 0
       /\ Arriving(c) => CameIn(base, own, p) = IF p = c.product THEN ReceiptQuantity ELSE 0
  /\ c.handler = "receive" => \E p \in Products : CameIn(base, own, p) > 0
  /\ \A d \in Orders, p \in Products :
       SentOut(base, own, d, p) = IF Sent(c) /\ d = c.order THEN c.quantity[p] ELSE 0

Delivered(base, p) == SumUpTo([d \in Orders |-> base[OrderRow(d)].delivered[p]], NumOrders)

GoodsBase(stock, base) ==
  \A p \in Products :
    /\ Balanced(base[BalanceRow(p)])
    /\ base[BalanceRow(p)].onHand + Delivered(base, p) = stock[p] + base[ReceiptRow(p)]

\* Payments: only a confirmation that is through changes what is paid.
Paying(c) == c.handler = "confirm" /\ c.step = "commit"

PaidOrder(order, paid) ==
  /\ order.paidAmount = paid /\ paid <= TotalAmount
  /\ order.paymentStatus = calculatePaymentStatus(paid)
  /\ (\E p \in Products : order.delivered[p] > 0) => order.paymentStatus = "PAID"

PaidLocal(base, own, c) ==
  /\ \A d \in Orders : OrderRow(d) \in DOMAIN own =>
       LET old == base[OrderRow(d)]
           new == own[OrderRow(d)]
       IN  /\ Paying(c) => PaidOrder(new, Confirmed([k \in Payments |-> Value(base, own, PaymentRow(k))], d))
           /\ ~Paying(c) => new.paidAmount = old.paidAmount
           /\ c.handler # "confirm" => new.paymentStatus = old.paymentStatus
  /\ Sent(c) => own[OrderRow(c.order)].paymentStatus = "PAID"

PaidBase(base) ==
  \A d \in Orders : PaidOrder(base[OrderRow(d)], Confirmed([k \in Payments |-> base[PaymentRow(k)]], d))

\* Reservations: what a transaction holds for the orders, row by row.
RowHeld(row) == IF row.status = "ACTIVE" THEN row.quantity ELSE 0
HeldRows(base, own) == [k \in Rows |-> RowHeld(Value(base, own, ReservationRow(k)))]
HeldFor(held, d, p) == SumUpTo([n \in 1..NumRows |-> held[<<d, p, n>>]], NumRows)
HeldAll(held, p) == SumUpTo([d \in Orders |-> HeldFor(held, d, p)], NumOrders)

NoJobs(handlers) == handlers \cap {"expire", "ttl"} = {}
NoReceipts(base) == \A p \in Products : base[ReceiptRow(p)] = 0

\* The order is as it was when it was read, or held.
Fresh(base, own, c) ==
  IF c.step = "commit" THEN OrderRow(c.order) \in DOMAIN own
  ELSE base[OrderRow(c.order)].version = c.version

RowsLocal(base, own, c) ==
  \A k \in Rows : ReservationRow(k) \in DOMAIN own =>
    LET old == base[ReservationRow(k)]
        new == own[ReservationRow(k)]
    IN  /\ new.status = "ACTIVE" =>
             old.status = "ACTIVE" \/ (old.status = "NONE" /\ c.handler \in {"create", "receive"})
        /\ c.handler = "create" => k[1] = c.order
        /\ old.status # "NONE" => c.handler \in Releasing \cup {"deliver"} /\ k[1] = c.order

\* cancelOrder and the jobs: the rows still listed, and those that are not.
ListLocal(handlers, base, own, c) ==
  /\ c.handler \in {"cancel", "ttl"} => \A k \in DOMAIN c.rows : ReservationRow(k) \notin DOMAIN own
  /\ c.handler = "cancel" /\ NoJobs(handlers) /\ Fresh(base, own, c) =>
       \A k \in DOMAIN c.rows : base[ReservationRow(k)].status = "ACTIVE"
                                /\ base[ReservationRow(k)].quantity = c.rows[k]
  /\ c.handler \in {"cancel", "ttl"} /\ c.step # "readRows" /\ NoReceipts(base) /\ Fresh(base, own, c) =>
       \A k \in Rows : k[1] = c.order /\ Value(base, own, ReservationRow(k)).status = "ACTIVE" =>
         k \in DOMAIN c.rows

LedgerLocal(handlers, base, own, c) ==
  /\ c.handler \in handlers \cup {"none"}
  /\ NoJobs(handlers) /\ (c.handler = "cancel" => Fresh(base, own, c)) =>
       \A p \in Products : BalanceRow(p) \in DOMAIN own =>
         own[BalanceRow(p)].reserved = HeldAll(HeldRows(base, own), p)
  /\ c.step \in {"stock", "consume"} =>
       SumUpTo(Listed(c.rows, c.order, c.product), NumRows) >= c.quantity[c.product]

LedgerBase(handlers, base) ==
  NoJobs(handlers) => \A p \in Products : base[BalanceRow(p)].reserved = HeldAll(HeldRows(base, Nothing), p)

ClosedBase(base) ==
  NoReceipts(base) => \A d \in Orders :
    /\ base[OrderRow(d)].status \in Waiting \cup {"NONE", "CANCELLED"} =>
         \A p \in Products : base[OrderRow(d)].delivered[p] = 0
    /\ base[OrderRow(d)].status = "CANCELLED" =>
         \A k \in Rows : k[1] = d => base[ReservationRow(k)].status # "ACTIVE"

Local(sc, base, own, c) ==
  /\ OrderLocal(base, own, c)
  /\ GoodsLocal(base, own, c)
  /\ PaidLocal(base, own, c)
  /\ RowsLocal(base, own, c)
  /\ ListLocal(sc.handlers, base, own, c)
  /\ LedgerLocal(sc.handlers, base, own, c)

Base(sc, base) ==
  /\ OrderBase(base)
  /\ GoodsBase(sc.stock, base)
  /\ PaidBase(base)
  /\ LedgerBase(sc.handlers, base)
  /\ ClosedBase(base)

TxSound ==
  /\ TxTypes
  /\ Base(scenario, db)
  /\ \A s \in Sessions : Local(scenario, db, mine[s], call[s])

-----------------------------------------------------------------------------
\* What a statement changes of a transaction, and what it leaves.

SameRow(own, own2, r) ==
  (r \in DOMAIN own2 <=> r \in DOMAIN own) /\ (r \in DOMAIN own => own2[r] = own[r])

Still(own, own2, kinds) == \A r : r[1] \in kinds => SameRow(own, own2, r)

\* The call goes on.
Goes(c, c2) ==
  /\ c.step \notin {"idle", "commit"}
  /\ c2.handler = c.handler /\ c2.quantity = c.quantity
  /\ c2.payment = c.payment /\ c2.verdict = c.verdict
  /\ c.handler # "receive" => c2.order = c.order
  /\ c.step # "readOrder" => c2.version = c.version

\* An order keeps what was paid for it and what it was sent.
MoneyKept(old, new) == new.paidAmount = old.paidAmount /\ new.paymentStatus = old.paymentStatus
MoneyStill(base, own, own2) ==
  \A d \in Orders :
    /\ OrderRow(d) \in DOMAIN own => OrderRow(d) \in DOMAIN own2
    /\ MoneyKept(Value(base, own, OrderRow(d)), Value(base, own2, OrderRow(d)))
DeliveredStill(base, own, own2) ==
  \A d \in Orders : Value(base, own2, OrderRow(d)).delivered = Value(base, own, OrderRow(d)).delivered

TypedBase(base) == DOMAIN base = AllRows /\ Typed(base)

LEMMA ValueTypes ==
  ASSUME NEW base, NEW own, TypedBase(base), Typed(own)
  PROVE  /\ \A p \in Products : /\ base[BalanceRow(p)] \in Balances
                                /\ Value(base, own, BalanceRow(p)) \in Balances
         /\ \A d \in Orders : /\ base[OrderRow(d)] \in OrderRecords
                              /\ Value(base, own, OrderRow(d)) \in OrderRecords
         /\ \A k \in Payments : /\ base[PaymentRow(k)] \in PaymentStatuses
                                /\ Value(base, own, PaymentRow(k)) \in PaymentStatuses
         /\ \A k \in Rows : /\ base[ReservationRow(k)] \in ReservationRecords
                            /\ Value(base, own, ReservationRow(k)) \in ReservationRecords
         /\ \A p \in Products : base[ReceiptRow(p)] \in Nat /\ Value(base, own, ReceiptRow(p)) \in Nat
<1>1. \A r \in AllRows : base[r] \in Values(r[1]) /\ Value(base, own, r) \in Values(r[1])
  BY DEF Typed, TypedBase, Value
<1> QED BY <1>1, RowKeys, KnownRows, ValuesOfKinds

LEMMA StillValues ==
  ASSUME NEW base, NEW own, NEW own2, NEW kinds, Still(own, own2, kinds)
  PROVE  \A r : r[1] \in kinds => Value(base, own2, r) = Value(base, own, r)
BY DEF Still, SameRow, Value

LEMMA StillKinds ==
  ASSUME NEW own, NEW own2, NEW kinds, Still(own, own2, kinds)
  PROVE  \A part \in SUBSET kinds : Still(own, own2, part)
BY DEF Still

LEMMA StillRows ==
  ASSUME NEW own, NEW own2, NEW kinds, Still(own, own2, kinds)
  PROVE  /\ "balance" \in kinds => \A x : SameRow(own, own2, BalanceRow(x))
         /\ "order" \in kinds => \A x : SameRow(own, own2, OrderRow(x))
         /\ "payment" \in kinds => \A x : SameRow(own, own2, PaymentRow(x))
         /\ "reservation" \in kinds => \A x : SameRow(own, own2, ReservationRow(x))
         /\ "receipt" \in kinds => \A x : SameRow(own, own2, ReceiptRow(x))
BY RowKeys DEF Still

\* A statement leaves the rows that it does not write.
LEMMA WriteStill ==
  ASSUME TxTypes, NEW s \in Sessions, NEW new, Write(s, new)
  PROVE  /\ \A kinds : (\A r \in DOMAIN new : r[1] \notin kinds) => Still(mine[s], mine'[s], kinds)
         /\ \A r : r \notin DOMAIN new => SameRow(mine[s], mine'[s], r)
         /\ \A r \in DOMAIN new : r \in DOMAIN mine'[s] /\ mine'[s][r] = new[r]
<1>1. mine'[s] = Over(new, mine[s])
  BY WriteValue
<1> QED BY <1>1 DEF Still, SameRow, Over

-----------------------------------------------------------------------------
\* Statements that leave a part of the transaction alone.

LEMMA OrderQuiet ==
  ASSUME NEW base, NEW own, NEW own2, NEW c, NEW c2, OrderLocal(base, own, c),
         Still(own, own2, {"order"}), Goes(c, c2), c.handler # "confirm", c.step # "readOrder",
         c.handler \in Fulfilment => c2.step # "commit"
  PROVE  OrderLocal(base, own2, c2)
<1>1. \A d \in Orders : SameRow(own, own2, OrderRow(d))
  BY StillRows
<1>2. \A old, new : OrderStep(c, old, new) => OrderStep(c2, old, new)
  BY DEF OrderStep, Goes, Fulfilment
<1>3. \A d \in Orders : OrderRow(d) \in DOMAIN own2 => OrderStep(c2, base[OrderRow(d)], own2[OrderRow(d)])
  BY <1>1, <1>2 DEF OrderLocal, SameRow
<1> QED BY <1>3 DEF OrderLocal, Goes, Versioned, Fulfilment

LEMMA OrderWrites ==
  ASSUME NEW base, NEW own, NEW own2, NEW c, NEW c2, OrderLocal(base, own, c),
         Goes(c, c2), c.step # "readOrder", NEW d \in Orders, d = c.order,
         \A e \in Orders : e # d => SameRow(own, own2, OrderRow(e)),
         \A e \in Orders : OrderRow(e) \in DOMAIN own => e = d \/ c.handler = "receive",
         OrderStep(c2, base[OrderRow(d)], own2[OrderRow(d)]),
         c.handler = "confirm" => c.step \in {"lock", "settle"},
         c.handler = "confirm" /\ c2.step = "commit" => base[OrderRow(d)].status # "CANCELLED"
  PROVE  OrderLocal(base, own2, c2)
<1>1. c.handler = "receive" => \A old, new : OrderStep(c, old, new) => OrderStep(c2, old, new)
  BY DEF OrderStep, Goes, Fulfilment
<1>2. \A e \in Orders : OrderRow(e) \in DOMAIN own2 => OrderStep(c2, base[OrderRow(e)], own2[OrderRow(e)])
  BY <1>1 DEF OrderLocal, SameRow
<1> QED BY <1>2 DEF OrderLocal, Goes, Versioned, Fulfilment

LEMMA StillPlain ==
  ASSUME NEW base, NEW own, NEW own2, Still(own, own2, {"order"})
  PROVE  MoneyStill(base, own, own2) /\ DeliveredStill(base, own, own2)
<1>1. \A d \in Orders : SameRow(own, own2, OrderRow(d))
  BY StillRows
<1> QED BY <1>1 DEF MoneyStill, DeliveredStill, MoneyKept, SameRow, Value

LEMMA GoodsQuiet ==
  ASSUME NEW base, NEW own, NEW own2, NEW c, NEW c2, GoodsLocal(base, own, c),
         Still(own, own2, {"balance", "receipt"}), DeliveredStill(base, own, own2),
         c2.handler = c.handler, c2.quantity = c.quantity, c.handler = "deliver" => c2.order = c.order,
         Sent(c2) <=> Sent(c), Arriving(c2) <=> Arriving(c), Arriving(c) => c2.product = c.product
  PROVE  GoodsLocal(base, own2, c2)
<1>1. \A p \in Products : SameRow(own, own2, BalanceRow(p)) /\ SameRow(own, own2, ReceiptRow(p))
  BY StillRows
<1>2. \A p \in Products : /\ OnHand(base, own2, p) = OnHand(base, own, p)
                          /\ CameIn(base, own2, p) = CameIn(base, own, p)
  BY <1>1 DEF OnHand, CameIn, SameRow, Value
<1>3. \A d \in Orders, p \in Products : SentOut(base, own2, d, p) = SentOut(base, own, d, p)
  BY DEF SentOut, DeliveredStill
<1>4. \A d \in Orders, p \in Products :
        SentOut(base, own2, d, p) = IF Sent(c2) /\ d = c2.order THEN c2.quantity[p] ELSE 0
  BY <1>3 DEF GoodsLocal, Sent
<1>5. \A p \in Products :
       /\ BalanceRow(p) \in DOMAIN own2 => Balanced(own2[BalanceRow(p)])
       /\ BalanceRow(p) \in DOMAIN own2 /\ c2.handler = "deliver" => OnHand(base, own2, p) = 0 - c2.quantity[p]
  BY <1>1, <1>2 DEF GoodsLocal, SameRow
<1>6. \A p \in Products :
       /\ c2.handler \notin {"deliver", "receive"} => OnHand(base, own2, p) = 0
       /\ c2.handler = "receive" => OnHand(base, own2, p) = IF Arriving(c2) THEN 0 ELSE CameIn(base, own2, p)
       /\ c2.handler = "receive" => CameIn(base, own2, p) >= 0
       /\ Arriving(c2) => CameIn(base, own2, p) = IF p = c2.product THEN ReceiptQuantity ELSE 0
  BY <1>2 DEF GoodsLocal
<1>7. c2.handler = "receive" => \E p \in Products : CameIn(base, own2, p) > 0
  BY <1>2 DEF GoodsLocal
<1> QED BY <1>4, <1>5, <1>6, <1>7 DEF GoodsLocal

LEMMA PaidQuiet ==
  ASSUME NEW base, NEW own, NEW own2, NEW c, NEW c2, PaidLocal(base, own, c),
         MoneyStill(base, own, own2), c2.handler = c.handler, c.handler = "deliver" => c2.order = c.order,
         ~Paying(c), ~Paying(c2), Sent(c2) => Sent(c),
         Sent(c) => c.order \in Orders /\ OrderRow(c.order) \in DOMAIN own
  PROVE  PaidLocal(base, own2, c2)
<1>1. ASSUME NEW d \in Orders, OrderRow(d) \in DOMAIN own2
      PROVE  /\ own2[OrderRow(d)].paidAmount = base[OrderRow(d)].paidAmount
             /\ c2.handler # "confirm" => own2[OrderRow(d)].paymentStatus = base[OrderRow(d)].paymentStatus
  <2>1. MoneyKept(Value(base, own, OrderRow(d)), own2[OrderRow(d)])
    BY <1>1 DEF MoneyStill, Value
  <2>2. CASE OrderRow(d) \in DOMAIN own
    BY <2>1, <2>2 DEF PaidLocal, MoneyKept, Value
  <2>3. CASE OrderRow(d) \notin DOMAIN own
    BY <2>1, <2>3 DEF MoneyKept, Value
  <2> QED BY <2>2, <2>3
<1>2. Sent(c2) => own2[OrderRow(c2.order)].paymentStatus = "PAID"
  BY DEF Sent, PaidLocal, MoneyStill, MoneyKept, Value
<1> QED BY <1>1, <1>2 DEF PaidLocal

LEMMA RowsQuiet ==
  ASSUME NEW base, NEW own, NEW own2, NEW c, NEW c2, RowsLocal(base, own, c),
         Still(own, own2, {"reservation"}), Goes(c, c2)
  PROVE  RowsLocal(base, own2, c2)
<1>1. \A k \in Rows : SameRow(own, own2, ReservationRow(k))
  BY StillRows
<1> QED BY <1>1 DEF RowsLocal, SameRow, Goes, Releasing

LEMMA ListOther ==
  ASSUME NEW handlers, NEW base, NEW own, NEW c, c.handler \notin {"cancel", "ttl"}
  PROVE  ListLocal(handlers, base, own, c)
BY DEF ListLocal

LEMMA ListQuiet ==
  ASSUME NEW handlers, NEW base, NEW own, NEW own2, NEW c, NEW c2, ListLocal(handlers, base, own, c),
         Still(own, own2, {"reservation"}), Goes(c, c2), c.step # "readRows", c2.rows = c.rows,
         Fresh(base, own2, c2) => Fresh(base, own, c)
  PROVE  ListLocal(handlers, base, own2, c2)
<1>1. \A k \in Rows : SameRow(own, own2, ReservationRow(k))
  BY StillRows
<1>2. \A x : SameRow(own, own2, ReservationRow(x))
  BY StillRows
<1>3. \A k \in Rows : Value(base, own2, ReservationRow(k)) = Value(base, own, ReservationRow(k))
  BY <1>1 DEF Value, SameRow
<1> QED BY <1>2, <1>3 DEF ListLocal, SameRow, Goes

\* What is held depends on the rows of reservations only.
LEMMA HeldSame ==
  ASSUME NEW base, NEW own, NEW own2, Still(own, own2, {"reservation"})
  PROVE  HeldRows(base, own2) = HeldRows(base, own)
<1>1. \A k \in Rows : Value(base, own2, ReservationRow(k)) = Value(base, own, ReservationRow(k))
  BY StillRows DEF SameRow, Value
<1> QED BY <1>1 DEF HeldRows

LEMMA LedgerQuiet ==
  ASSUME NEW handlers, NEW base, NEW own, NEW own2, NEW c, NEW c2, LedgerLocal(handlers, base, own, c),
         Still(own, own2, {"reservation"}), Still(own, own2, {"balance"}), c2.handler = c.handler,
         c.handler = "cancel" => (Fresh(base, own2, c2) => Fresh(base, own, c)),
         c2.step \in {"stock", "consume"} =>
           SumUpTo(Listed(c2.rows, c2.order, c2.product), NumRows) >= c2.quantity[c2.product]
  PROVE  LedgerLocal(handlers, base, own2, c2)
<1>1. \A p \in Products : SameRow(own, own2, BalanceRow(p))
  BY StillRows
<1>2. HeldRows(base, own2) = HeldRows(base, own)
  BY HeldSame
<1> QED BY <1>1, <1>2 DEF LedgerLocal, SameRow

-----------------------------------------------------------------------------
\* A statement of s that keeps its part of the invariant, and leaves the others alone.

Continues(s) ==
  /\ UNCHANGED <<db, scenario>>
  /\ \A t \in Sessions \ {s} : mine'[t] = mine[t] /\ call'[t] = call[t]
  /\ Local(scenario, db, mine'[s], call'[s])

LEMMA SoundFacts ==
  ASSUME TxSound, NEW s \in Sessions
  PROVE  /\ TxTypes /\ TypedBase(db) /\ Typed(mine[s]) /\ Local(scenario, db, mine[s], call[s])
         /\ call[s] \in CallRecords /\ StepsOf(call[s]) /\ Memory(call[s])
         /\ Locks(DOMAIN mine[s], call[s])
         /\ scenario \in Scenarios /\ Base(scenario, db)
BY LocalFacts DEF TxSound, TxTypes, SessionsTyped, TypedBase

LEMMA ContinuesReading ==
  ASSUME TxTypes, NEW s \in Sessions, NEW c2, Keep(s, c2), UNCHANGED <<db, mine, scenario>>,
         Local(scenario, db, mine[s], c2)
  PROVE  Continues(s)
<1>1. call'[s] = c2 /\ \A t \in Sessions \ {s} : call'[t] = call[t]
  BY LocalFacts DEF Keep
<1> QED BY <1>1 DEF Continues

LEMMA ContinuesWriting ==
  ASSUME TxTypes, NEW s \in Sessions, NEW new, NEW c2, Write(s, new), Keep(s, c2), UNCHANGED <<db, scenario>>,
         Local(scenario, db, mine'[s], c2)
  PROVE  Continues(s)
<1>1. call'[s] = c2 /\ \A t \in Sessions \ {s} : call'[t] = call[t]
  BY LocalFacts DEF Keep
<1>2. \A t \in Sessions \ {s} : mine'[t] = mine[t]
  BY LocalFacts DEF Write
<1> QED BY <1>1, <1>2 DEF Continues

\* Statements that write nothing and remember nothing the invariant speaks of.
Silent(c, c2) ==
  /\ Goes(c, c2) /\ c.handler # "confirm"
  /\ c.handler \in Fulfilment => c2.step # "commit"
  /\ Sent(c2) <=> Sent(c)
  /\ Arriving(c2) <=> Arriving(c)
  /\ Arriving(c) => c2.product = c.product
  /\ c.handler \in {"cancel", "ttl"} => c.step # "readRows" /\ c2.rows = c.rows /\ c2.step # "commit"
  /\ c2.step = "consume" => c.step = "stock" /\ c2.rows = c.rows /\ c2.product = c.product
  /\ c2.step # "stock"

LEMMA SilentLocal ==
  ASSUME NEW sc, NEW base, NEW own, NEW c, NEW c2, Local(sc, base, own, c), StepsOf(c),
         Silent(c, c2), Sent(c) => c.order \in Orders /\ OrderRow(c.order) \in DOMAIN own
  PROVE  Local(sc, base, own, c2)
<1>1. \A kinds : Still(own, own, kinds)
  BY DEF Still, SameRow
<1>2. Goes(c, c2) /\ c.step # "readOrder" /\ c.handler # "confirm" /\ c2.handler = c.handler
  BY DEF Silent, StepsOf, Goes
<1>3. OrderLocal(base, own, c2)
  BY <1>1, <1>2, OrderQuiet DEF Local, Silent
<1>4. MoneyStill(base, own, own) /\ DeliveredStill(base, own, own)
  BY <1>1, StillPlain
<1>5. GoodsLocal(base, own, c2)
  <2>1. /\ c2.quantity = c.quantity /\ (c.handler = "deliver" => c2.order = c.order)
        /\ GoodsLocal(base, own, c) /\ Still(own, own, {"balance", "receipt"})
    BY <1>1, <1>2 DEF Goes, Local
  <2>2. /\ Sent(c2) <=> Sent(c)
        /\ Arriving(c2) <=> Arriving(c)
        /\ Arriving(c) => c2.product = c.product
    BY DEF Silent
  <2> QED BY <1>2, <1>4, <2>1, <2>2, GoodsQuiet
<1>6. PaidLocal(base, own, c2)
  <2>1. /\ (c.handler = "deliver" => c2.order = c.order)
        /\ PaidLocal(base, own, c) /\ ~Paying(c) /\ ~Paying(c2)
    BY <1>2 DEF Goes, Local, Paying
  <2> QED BY <1>2, <1>4, <2>1, PaidQuiet DEF Silent
<1>7. RowsLocal(base, own, c2)
  BY <1>1, <1>2, RowsQuiet DEF Local
<1>8. c.handler \in {"cancel", "ttl"} => (Fresh(base, own, c2) <=> Fresh(base, own, c))
  BY <1>2 DEF Fresh, Goes, Silent
<1>9. ListLocal(sc.handlers, base, own, c2)
  <2>1. CASE c.handler \in {"cancel", "ttl"}
    BY <1>1, <1>2, <1>8, <2>1, ListQuiet DEF Local, Silent
  <2>2. CASE c.handler \notin {"cancel", "ttl"}
    BY <1>2, <2>2, ListOther
  <2> QED BY <2>1, <2>2
<1>10. LedgerLocal(sc.handlers, base, own, c2)
  <2>1. c2.step \in {"stock", "consume"} =>
          SumUpTo(Listed(c2.rows, c2.order, c2.product), NumRows) >= c2.quantity[c2.product]
    <3> SUFFICES ASSUME c2.step = "consume"
                 PROVE  SumUpTo(Listed(c2.rows, c2.order, c2.product), NumRows) >= c2.quantity[c2.product]
      BY DEF Silent
    <3>1. /\ c.step = "stock" /\ c2.rows = c.rows /\ c2.product = c.product
          /\ c2.order = c.order /\ c2.quantity = c.quantity
      BY DEF Silent, Goes, StepsOf
    <3> QED BY <3>1 DEF Local, LedgerLocal
  <2> QED BY <1>1, <1>2, <1>8, <2>1, LedgerQuiet DEF Local
<1> QED BY <1>3, <1>5, <1>6, <1>7, <1>9, <1>10 DEF Local

LEMMA SilentStep ==
  ASSUME TxSound, NEW s \in Sessions, NEW c2, Keep(s, c2), UNCHANGED <<db, mine, scenario>>,
         Silent(call[s], c2)
  PROVE  Continues(s)
<1> DEFINE c == call[s]
<1>1. Local(scenario, db, mine[s], c) /\ StepsOf(c) /\ Locks(DOMAIN mine[s], c) /\ Memory(c) /\ TxTypes
  BY SoundFacts
<1>2. Sent(c) => c.order \in Orders /\ OrderRow(c.order) \in DOMAIN mine[s]
  BY <1>1 DEF Sent, Memory, Locks, HasOrder, Fulfilment
<1>3. Local(scenario, db, mine[s], c2)
  <2> HIDE DEF c
  <2> QED BY <1>1, <1>2, SilentLocal DEF c
<1> QED BY <1>1, <1>3, ContinuesReading

\* The steps of the calls that are silent.
LEMMA SilentSteps ==
  ASSUME TxSound, NEW s \in Sessions,
         \/ ReadBalance(s) \/ ReadReleased(s) \/ (Recheck(s) /\ ~Rollback(s)) \/ Count(s) \/ ReadStock(s)
         \/ ReadArrival(s) \/ ListWaiting(s) \/ NextWaiting(s)
  PROVE  Continues(s)
<1> DEFINE c == call[s]
<1>1. c \in CallRecords /\ StepsOf(c)
  BY SoundFacts
<1>2. CASE ReadBalance(s)
  <2>1. PICK p \in c.products :
          Keep(s, [c EXCEPT !.product = p, !.step = "claim", !.seen = Read(s, BalanceRow(p)).version])
    BY <1>2 DEF ReadBalance
  <2>2. c.step = "reserve" /\ UNCHANGED <<db, mine, scenario>>
    BY <1>2 DEF ReadBalance, At, Statement
  <2> DEFINE next == [c EXCEPT !.product = p, !.step = "claim", !.seen = Read(s, BalanceRow(p)).version]
  <2>3. Silent(c, next)
    <3> HIDE DEF c
    <3> QED BY <1>1, <2>2 DEF CallRecords, StepsOf, Silent, Goes, Sent, Arriving, Fulfilment
  <2> QED BY <2>1, <2>2, <2>3, SilentStep
<1>3. CASE ReadReleased(s)
  <2>1. c.step = "release" /\ UNCHANGED <<db, mine, scenario>>
    BY <1>3 DEF ReadReleased, At, Statement
  <2>2. ASSUME NEW step \in {"count", "close"}, Keep(s, [c EXCEPT !.step = step])
        PROVE  Continues(s)
    <3> DEFINE next == [c EXCEPT !.step = step]
    <3>1. Silent(c, next)
      <4> HIDE DEF c
      <4> QED BY <1>1, <2>1 DEF CallRecords, StepsOf, Silent, Goes, Sent, Arriving, Fulfilment, Releasing
    <3> QED BY <2>1, <2>2, <3>1, SilentStep
  <2>3. ASSUME NEW k \in DOMAIN c.rows,
               Keep(s, [c EXCEPT !.row = k, !.step = "giveBack", !.seen = Read(s, BalanceRow(k[2])).version])
        PROVE  Continues(s)
    <3> DEFINE next == [c EXCEPT !.row = k, !.step = "giveBack", !.seen = Read(s, BalanceRow(k[2])).version]
    <3>1. Silent(c, next)
      <4> HIDE DEF c
      <4> QED BY <1>1, <2>1 DEF CallRecords, StepsOf, Silent, Goes, Sent, Arriving, Fulfilment, Releasing
    <3> QED BY <2>1, <2>3, <3>1, SilentStep
  <2> QED BY <1>3, <2>2, <2>3 DEF ReadReleased, Go
<1>4. CASE Recheck(s) /\ ~Rollback(s)
  <2>1. c.step = "recheck" /\ UNCHANGED <<db, mine, scenario>> /\ Keep(s, [c EXCEPT !.step = "release"])
    BY <1>4 DEF Recheck, At, Statement, Go
  <2> DEFINE next == [c EXCEPT !.step = "release"]
  <2>2. Silent(c, next)
    <3> HIDE DEF c
    <3> QED BY <1>1, <2>1 DEF CallRecords, StepsOf, Silent, Goes, Sent, Arriving, Fulfilment
  <2> QED BY <2>1, <2>2, SilentStep
<1>5. CASE Count(s)
  <2>1. c.step = "count" /\ UNCHANGED <<db, mine, scenario>>
    BY <1>5 DEF Count, At, Statement
  <2>2. PICK step \in {"revert", "commit"} : Keep(s, [c EXCEPT !.step = step])
    <3>1. CASE DOMAIN ActiveRows(s, c.order, Products) = {}
      BY <1>5, <3>1 DEF Count, Go
    <3>2. CASE DOMAIN ActiveRows(s, c.order, Products) # {}
      BY <1>5, <3>2 DEF Count, Go
    <3> QED BY <3>1, <3>2
  <2> DEFINE next == [c EXCEPT !.step = step]
  <2>3. Silent(c, next)
    <3> HIDE DEF c
    <3> QED BY <1>1, <2>1 DEF CallRecords, StepsOf, Silent, Goes, Sent, Arriving, Fulfilment
  <2> QED BY <2>1, <2>2, <2>3, SilentStep
<1>6. CASE ReadStock(s)
  <2> DEFINE next == [c EXCEPT !.step = "consume", !.seen = Read(s, BalanceRow(c.product)).version]
  <2>1. c.step = "stock" /\ UNCHANGED <<db, mine, scenario>> /\ Keep(s, next)
    BY <1>6 DEF ReadStock, At, Statement
  <2>2. Silent(c, next)
    <3> HIDE DEF c
    <3> QED BY <1>1, <2>1 DEF CallRecords, StepsOf, Silent, Goes, Sent, Arriving, Fulfilment
  <2> QED BY <2>1, <2>2, SilentStep
<1>7. CASE ReadArrival(s)
  <2> DEFINE next == [c EXCEPT !.step = "put", !.seen = Read(s, BalanceRow(c.product)).version]
  <2>1. c.step = "arrive" /\ UNCHANGED <<db, mine, scenario>> /\ Keep(s, next)
    BY <1>7 DEF ReadArrival, At, Statement
  <2>2. Silent(c, next)
    <3> HIDE DEF c
    <3> QED BY <1>1, <2>1 DEF CallRecords, StepsOf, Silent, Goes, Sent, Arriving, Fulfilment
  <2> QED BY <2>1, <2>2, SilentStep
<1>8. CASE ListWaiting(s)
  <2> DEFINE waiting == {d \in Orders : Read(s, OrderRow(d)).status = "WAITING_STOCK"}
             next == [c EXCEPT !.step = "next", !.waiting = waiting]
  <2>1. c.step = "list" /\ UNCHANGED <<db, mine, scenario>> /\ Keep(s, next)
    BY <1>8 DEF ListWaiting, At, Statement
  <2>2. Silent(c, next)
    <3> HIDE DEF c, waiting
    <3> QED BY <1>1, <2>1 DEF CallRecords, StepsOf, Silent, Goes, Sent, Arriving, Fulfilment
  <2> QED BY <2>1, <2>2, SilentStep
<1>9. CASE NextWaiting(s)
  <2>1. c.step = "next" /\ UNCHANGED <<db, mine, scenario>>
    BY <1>9 DEF NextWaiting, At, Statement
  <2>2. ASSUME Keep(s, [c EXCEPT !.step = "commit"])
        PROVE  Continues(s)
    <3> DEFINE next == [c EXCEPT !.step = "commit"]
    <3>1. Silent(c, next)
      <4> HIDE DEF c
      <4> QED BY <1>1, <2>1 DEF CallRecords, StepsOf, Silent, Goes, Sent, Arriving, Fulfilment
    <3> QED BY <2>1, <2>2, <3>1, SilentStep
  <2>3. ASSUME NEW d \in c.waiting,
               Keep(s, [c EXCEPT !.order = d, !.waiting = @ \ {d}, !.products = Wanted(d), !.step = "reserve"])
        PROVE  Continues(s)
    <3> DEFINE next == [c EXCEPT !.order = d, !.waiting = @ \ {d}, !.products = Wanted(d), !.step = "reserve"]
    <3>1. Silent(c, next)
      <4> HIDE DEF c
      <4> QED BY <1>1, <2>1 DEF CallRecords, StepsOf, Silent, Goes, Sent, Arriving, Fulfilment
    <3> QED BY <2>1, <2>3, <3>1, SilentStep
  <2> QED BY <1>9, <2>2, <2>3 DEF NextWaiting, Go
<1> QED BY <1>2, <1>3, <1>4, <1>5, <1>6, <1>7, <1>8, <1>9

-----------------------------------------------------------------------------
\* Reading statements of which the invariant speaks.

\* Without the balance, no row of a reservation has been written.
LEMMA NoReservations ==
  ASSUME TxTypes, NEW s \in Sessions, \A p \in Products : BalanceRow(p) \notin DOMAIN mine[s]
  PROVE  \A x : ReservationRow(x) \notin DOMAIN mine[s]
<1> SUFFICES ASSUME NEW x, ReservationRow(x) \in DOMAIN mine[s]
             PROVE  FALSE
  OBVIOUS
<1>1. x \in Rows
  BY LocalFacts, TypedValues
<1>2. BalanceRow(x[2]) \in DOMAIN mine[s]
  BY <1>1, LocalFacts DEF Locks
<1> QED BY <1>1, <1>2 DEF Rows

LEMMA ReadRowsSound ==
  ASSUME TxSound, NEW s \in Sessions, ReadRows(s)
  PROVE  Continues(s)
<1> DEFINE c == call[s]
           own == mine[s]
           rows == ActiveRows(s, c.order, Products)
           next == [c EXCEPT !.rows = rows, !.step = "release"]
<1>1. /\ TxTypes /\ Local(scenario, db, own, c) /\ StepsOf(c) /\ Locks(DOMAIN own, c)
      /\ c \in CallRecords
  BY SoundFacts
<1>2. c.step = "readRows" /\ Keep(s, next) /\ UNCHANGED <<db, mine, scenario>> /\ c.handler \in {"cancel", "ttl"}
  BY <1>1 DEF ReadRows, At, Statement, StepsOf
<1>3. \A x : ReservationRow(x) \notin DOMAIN own
  BY <1>1, <1>2, NoReservations DEF Locks
<1>4. /\ DOMAIN rows = {j \in Rows : j[1] = c.order /\ db[ReservationRow(j)].status = "ACTIVE"}
      /\ \A k \in DOMAIN rows : rows[k] = db[ReservationRow(k)].quantity
  <2>1. \A j : Read(s, ReservationRow(j)) = db[ReservationRow(j)]
    BY <1>3 DEF Read
  <2>2. \A j \in Rows : j[2] \in Products
    BY DEF Rows
  <2> DEFINE d == c.order
  <2> HIDE DEF d
  <2>3. /\ DOMAIN ActiveRows(s, d, Products)
             = {j \in Rows : /\ j[1] = d /\ j[2] \in Products /\ Read(s, ReservationRow(j)).status = "ACTIVE"}
        /\ \A k \in DOMAIN ActiveRows(s, d, Products) :
             ActiveRows(s, d, Products)[k] = Read(s, ReservationRow(k)).quantity
    BY <1>1, ActiveRowsType DEF ActiveRows
  <2> QED BY <2>1, <2>2, <2>3 DEF d
<1> HIDE DEF c, own, rows
<1>5. /\ Goes(c, next) /\ next.rows = rows /\ next.order = c.order /\ next.handler = c.handler
      /\ next.step = "release"
  BY <1>1, <1>2 DEF CallRecords, Goes
<1>6. \A kinds : Still(own, own, kinds)
  BY DEF Still, SameRow
<1>7. OrderLocal(db, own, next)
  BY <1>1, <1>2, <1>5, <1>6, OrderQuiet DEF Local, Fulfilment
<1>8. MoneyStill(db, own, own) /\ DeliveredStill(db, own, own)
  BY <1>6, StillPlain
<1>9. /\ ~Sent(c) /\ ~Sent(next) /\ ~Arriving(c) /\ ~Arriving(next) /\ ~Paying(c) /\ ~Paying(next)
  BY <1>2, <1>5 DEF Sent, Arriving, Paying
<1>10. GoodsLocal(db, own, next)
  <2>1. next.quantity = c.quantity /\ GoodsLocal(db, own, c)
    BY <1>1, <1>5 DEF Goes, Local
  <2> QED BY <1>2, <1>5, <1>6, <1>8, <1>9, <2>1, GoodsQuiet
<1>11. PaidLocal(db, own, next)
  BY <1>1, <1>2, <1>5, <1>8, <1>9, PaidQuiet DEF Local
<1>12. RowsLocal(db, own, next)
  BY <1>1, <1>5, <1>6, RowsQuiet DEF Local
<1>13. ListLocal(scenario.handlers, db, own, next)
  <2>1. \A k \in Rows : Value(db, own, ReservationRow(k)) = db[ReservationRow(k)]
    BY <1>3 DEF Value
  <2> QED BY <1>3, <1>4, <1>5, <2>1 DEF ListLocal
<1>14. LedgerLocal(scenario.handlers, db, own, next)
  <2>1. \A p \in Products : BalanceRow(p) \notin DOMAIN own
    BY <1>1, <1>2 DEF Locks
  <2> QED BY <1>1, <1>5, <2>1 DEF LedgerLocal, Local
<1>15. Local(scenario, db, own, next)
  BY <1>7, <1>10, <1>11, <1>12, <1>13, <1>14 DEF Local
<1> QED BY <1>1, <1>2, <1>15, ContinuesReading DEF own, c

\* A confirmation has written nothing when it reads its order.
LEMMA ReadOrderSound ==
  ASSUME TxSound, NEW s \in Sessions, ReadOrder(s)
  PROVE  Rollback(s) \/ Continues(s)
<1> SUFFICES ASSUME ~Rollback(s)
             PROVE  Continues(s)
  OBVIOUS
<1> DEFINE c == call[s]
           own == mine[s]
           order == Read(s, OrderRow(c.order))
           next == [c EXCEPT !.version = order.version, !.cached = order.paymentStatus,
                             !.step = "lock", !.locks = FulfilmentLocks("confirm")]
<1>1. /\ TxTypes /\ Local(scenario, db, own, c) /\ StepsOf(c) /\ Locks(DOMAIN own, c) /\ Memory(c)
      /\ c \in CallRecords
  BY SoundFacts
<1>2. /\ c.step = "readOrder" /\ order.status # "CANCELLED" /\ Keep(s, next)
      /\ UNCHANGED <<db, mine, scenario>> /\ c.handler = "confirm"
  BY <1>1 DEF ReadOrder, At, Statement, StepsOf
<1>3. c.order \in Orders
  BY <1>1, <1>2 DEF Memory
<1>4. \A d \in Orders : OrderRow(d) \notin DOMAIN own
  BY <1>1, <1>2, <1>3 DEF Locks, HasOrder, Fulfilment
<1>5. order = db[OrderRow(c.order)] /\ order \in OrderRecords
  BY <1>1, <1>3, <1>4, ReadTypes DEF Read
<1> HIDE DEF c, own, order
<1>6. /\ next.handler = "confirm" /\ next.step = "lock" /\ next.order = c.order /\ next.quantity = c.quantity
      /\ next.version = order.version
  BY <1>1, <1>2 DEF CallRecords
<1>7. \A kinds : Still(own, own, kinds)
  BY DEF Still, SameRow
<1>8. OrderLocal(db, own, next)
  BY <1>1, <1>2, <1>4, <1>5, <1>6 DEF OrderLocal, Local, Versioned, OrderRecords, Fulfilment
<1>9. MoneyStill(db, own, own) /\ DeliveredStill(db, own, own)
  BY <1>7, StillPlain
<1>10. /\ ~Sent(c) /\ ~Sent(next) /\ ~Arriving(c) /\ ~Arriving(next) /\ ~Paying(c) /\ ~Paying(next)
  BY <1>2, <1>6 DEF Sent, Arriving, Paying
<1>11. GoodsLocal(db, own, next)
  <2>1. GoodsLocal(db, own, c)
    BY <1>1 DEF Local
  <2> QED BY <1>2, <1>6, <1>7, <1>9, <1>10, <2>1, GoodsQuiet
<1>12. PaidLocal(db, own, next)
  BY <1>1, <1>2, <1>6, <1>9, <1>10, PaidQuiet DEF Local
<1>13. RowsLocal(db, own, next)
  BY <1>1, <1>2, <1>6 DEF Local, RowsLocal, Releasing
<1>14. ListLocal(scenario.handlers, db, own, next)
  BY <1>6, ListOther
<1>15. LedgerLocal(scenario.handlers, db, own, next)
  <2>1. \A p \in Products : BalanceRow(p) \notin DOMAIN own
    BY <1>1, <1>2 DEF Locks
  <2> QED BY <1>1, <1>2, <1>6, <2>1 DEF LedgerLocal, Local
<1>16. Local(scenario, db, own, next)
  BY <1>8, <1>11, <1>12, <1>13, <1>14, <1>15 DEF Local
<1> QED BY <1>1, <1>2, <1>16, ContinuesReading DEF own, c

\* The listed rows suffice for the delivery.
LEMMA ReadGoodsSound ==
  ASSUME TxSound, NEW s \in Sessions, ReadGoods(s)
  PROVE  Rollback(s) \/ Continues(s)
<1> DEFINE c == call[s]
           own == mine[s]
<1>1. /\ TxTypes /\ Local(scenario, db, own, c) /\ StepsOf(c) /\ Locks(DOMAIN own, c) /\ Memory(c)
      /\ c \in CallRecords
  BY SoundFacts
<1>2. c.step = "goods" /\ c.handler = "deliver"
  BY <1>1 DEF ReadGoods, At, StepsOf
<1>3. ASSUME Keep(s, [c EXCEPT !.step = "ship"]), UNCHANGED <<db, mine, scenario>>
      PROVE  Continues(s)
  <2> DEFINE next == [c EXCEPT !.step = "ship"]
  <2>1. Silent(c, next)
    <3> HIDE DEF c
    <3> QED BY <1>1, <1>2 DEF CallRecords, Silent, Goes, Sent, Arriving, Fulfilment
  <2> QED BY <1>3, <2>1, SilentStep
<1>4. ASSUME NEW p \in c.products, NEW rows,
             SumUpTo(Listed(rows, c.order, p), NumRows) >= c.quantity[p],
             Keep(s, [c EXCEPT !.step = "stock", !.product = p, !.rows = rows]), UNCHANGED <<db, mine, scenario>>
      PROVE  Continues(s)
  <2> DEFINE next == [c EXCEPT !.step = "stock", !.product = p, !.rows = rows]
  <2> HIDE DEF c, own
  <2>1. /\ Goes(c, next) /\ next.step = "stock" /\ next.rows = rows /\ next.product = p
        /\ next.order = c.order /\ next.quantity = c.quantity /\ next.handler = "deliver"
    BY <1>1, <1>2 DEF CallRecords, Goes
  <2>2. \A kinds : Still(own, own, kinds)
    BY DEF Still, SameRow
  <2>3. OrderLocal(db, own, next)
    <3>1. OrderLocal(db, own, c) /\ Still(own, own, {"order"})
      BY <1>1, <2>2 DEF Local
    <3>2. /\ c.handler # "confirm" /\ c.step # "readOrder" /\ Goes(c, next)
          /\ c.handler \in Fulfilment => next.step # "commit"
      BY <1>2, <2>1
    <3> HIDE DEF next
    <3> QED BY <3>1, <3>2, OrderQuiet
  <2>4. MoneyStill(db, own, own) /\ DeliveredStill(db, own, own)
    BY <2>2, StillPlain
  <2>5. Sent(c) /\ Sent(next) /\ ~Arriving(c) /\ ~Arriving(next) /\ ~Paying(c) /\ ~Paying(next)
    BY <1>2, <2>1 DEF Sent, Arriving, Paying
  <2>6. GoodsLocal(db, own, next)
    <3>1. GoodsLocal(db, own, c)
      BY <1>1 DEF Local
    <3> QED BY <1>2, <2>1, <2>2, <2>4, <2>5, <3>1, GoodsQuiet
  <2>7. PaidLocal(db, own, next)
    <3>1. c.order \in Orders /\ OrderRow(c.order) \in DOMAIN own /\ PaidLocal(db, own, c)
      BY <1>1, <1>2 DEF Memory, Locks, HasOrder, Fulfilment, Local
    <3> QED BY <1>2, <2>1, <2>4, <2>5, <3>1, PaidQuiet
  <2>8. RowsLocal(db, own, next)
    BY <1>1, <2>1, <2>2, RowsQuiet DEF Local
  <2>9. ListLocal(scenario.handlers, db, own, next)
    BY <2>1, ListOther
  <2>10. LedgerLocal(scenario.handlers, db, own, next)
    BY ZenonT(60), <1>1, <1>2, <1>4, <2>1, <2>2, LedgerQuiet DEF Local
  <2>11. Local(scenario, db, own, next)
    BY <2>3, <2>6, <2>7, <2>8, <2>9, <2>10 DEF Local
  <2> QED BY <1>1, <1>4, <2>11, ContinuesReading DEF own, c
<1> QED BY <1>3, <1>4 DEF ReadGoods, Go, Statement

-----------------------------------------------------------------------------
\* Statements that write orders.

\* What such a statement leaves of the other parts.
LEMMA OrderStatement ==
  ASSUME NEW sc, NEW base, NEW own, NEW own2, NEW c, NEW c2, Local(sc, base, own, c),
         Still(own, own2, {"balance", "reservation", "receipt"}), DeliveredStill(base, own, own2),
         OrderLocal(base, own2, c2), PaidLocal(base, own2, c2),
         Goes(c, c2), c.step # "readRows", c2.step \notin {"stock", "consume"},
         c.handler = "deliver" => (Sent(c2) <=> Sent(c)), ~Arriving(c), ~Arriving(c2),
         c.handler \in {"cancel", "ttl"} => c2.rows = c.rows /\ (Fresh(base, own2, c2) => Fresh(base, own, c))
  PROVE  Local(sc, base, own2, c2)
<1>1. \A part \in SUBSET {"balance", "reservation", "receipt"} : Still(own, own2, part)
  BY StillKinds
<1>2. Still(own, own2, {"balance", "receipt"}) /\ Still(own, own2, {"reservation"}) /\ Still(own, own2, {"balance"})
  BY <1>1
<1>3. GoodsLocal(base, own2, c2)
  <2>1. /\ c2.handler = c.handler /\ c2.quantity = c.quantity /\ (c.handler = "deliver" => c2.order = c.order)
        /\ (Sent(c2) <=> Sent(c)) /\ GoodsLocal(base, own, c)
    BY DEF Goes, Local, Sent
  <2> QED BY <1>2, <2>1, GoodsQuiet
<1>4. RowsLocal(base, own2, c2)
  BY <1>2, RowsQuiet DEF Local
<1>5. ListLocal(sc.handlers, base, own2, c2)
  <2>1. CASE c.handler \in {"cancel", "ttl"}
    BY <1>2, <2>1, ListQuiet DEF Local
  <2>2. CASE c.handler \notin {"cancel", "ttl"}
    BY <2>2, ListOther DEF Goes
  <2> QED BY <2>1, <2>2
<1>6. LedgerLocal(sc.handlers, base, own2, c2)
  <2>1. c2.handler = c.handler /\ LedgerLocal(sc.handlers, base, own, c)
    BY DEF Goes, Local
  <2> QED BY <1>2, <2>1, LedgerQuiet
<1> QED BY <1>3, <1>4, <1>5, <1>6 DEF Local

\* A row of an order, or of an order and its deal, is written.
LEMMA OrderWriteStill ==
  ASSUME TxTypes, NEW s \in Sessions, NEW new, Write(s, new), NEW d \in Orders,
         OrderRow(d) \in DOMAIN new, \A r \in DOMAIN new : r = OrderRow(d) \/ r[1] \in {"deal", "payment"}
  PROVE  /\ Still(mine[s], mine'[s], {"balance", "reservation", "receipt"})
         /\ \A e : e # d => SameRow(mine[s], mine'[s], OrderRow(e))
         /\ OrderRow(d) \in DOMAIN mine'[s] /\ mine'[s][OrderRow(d)] = new[OrderRow(d)]
         /\ \A e : OrderRow(e) \in DOMAIN mine'[s] <=> OrderRow(e) \in DOMAIN mine[s] \/ e = d
         /\ Value(db, mine'[s], OrderRow(d)) = new[OrderRow(d)]
         /\ \A e : e # d => Value(db, mine'[s], OrderRow(e)) = Read(s, OrderRow(e))
<1>1. \A r \in DOMAIN new : r[1] \notin {"balance", "reservation", "receipt"}
  BY RowKeys
<1>2. \A e : e # d => OrderRow(e) \notin DOMAIN new
  BY RowKeys
<1>3. Still(mine[s], mine'[s], {"balance", "reservation", "receipt"})
  BY <1>1, WriteStill
<1>4. \A e : e # d => SameRow(mine[s], mine'[s], OrderRow(e))
  BY <1>2, WriteStill
<1>5. OrderRow(d) \in DOMAIN mine'[s] /\ mine'[s][OrderRow(d)] = new[OrderRow(d)]
  BY WriteStill
<1> QED BY <1>3, <1>4, <1>5 DEF SameRow, Value, Read

LEMMA PlainWrite ==
  ASSUME TxTypes, NEW s \in Sessions, NEW d \in Orders,
         OrderRow(d) \in DOMAIN mine'[s],
         \A e : e # d => SameRow(mine[s], mine'[s], OrderRow(e)),
         NEW new, Value(db, mine'[s], OrderRow(d)) = new,
         \A e : e # d => Value(db, mine'[s], OrderRow(e)) = Read(s, OrderRow(e))
  PROVE  /\ MoneyKept(Read(s, OrderRow(d)), new) => MoneyStill(db, mine[s], mine'[s])
         /\ new.delivered = Read(s, OrderRow(d)).delivered => DeliveredStill(db, mine[s], mine'[s])
<1>1. \A e \in Orders : OrderRow(e) \in DOMAIN mine[s] => OrderRow(e) \in DOMAIN mine'[s]
  BY DEF SameRow
<1>2. \A r : Read(s, r) = Value(db, mine[s], r)
  BY ReadTypes
<1>3. \A e : MoneyKept(Read(s, OrderRow(e)), Read(s, OrderRow(e)))
  BY DEF MoneyKept
<1> QED BY <1>1, <1>2, <1>3 DEF MoneyStill, DeliveredStill

\* What s reads of an order: the committed row, or a step of its own from there.
LEMMA OrderReached ==
  ASSUME TxSound, NEW s \in Sessions, NEW d \in Orders
  PROVE  /\ db[OrderRow(d)] \in OrderRecords /\ Read(s, OrderRow(d)) \in OrderRecords
         /\ OrderRow(d) \notin DOMAIN mine[s] => Read(s, OrderRow(d)) = db[OrderRow(d)]
         /\ OrderRow(d) \in DOMAIN mine[s] => OrderStep(call[s], db[OrderRow(d)], Read(s, OrderRow(d)))
<1>1. TypedBase(db) /\ Local(scenario, db, mine[s], call[s]) /\ TxTypes
  BY SoundFacts
<1>2. db[OrderRow(d)] \in OrderRecords /\ Read(s, OrderRow(d)) \in OrderRecords
  BY <1>1, KnownRows, TypedValues, ReadTypes DEF TypedBase
<1> QED BY <1>1, <1>2 DEF Read, Local, OrderLocal

\* An order is written, and nothing else of it than its status.
LEMMA OrderWrittenSound ==
  ASSUME TxSound, NEW s \in Sessions, NEW c2, NEW d \in Orders, d = call[s].order, NEW status, NEW bump,
         OrderWritten(s, d, status, bump), Keep(s, c2), UNCHANGED <<db, scenario>>,
         Goes(call[s], c2), call[s].step # "readRows", c2.step \notin {"stock", "consume"},
         call[s].handler \in Releasing \cup {"create", "receive"},
         ~Arriving(call[s]), ~Arriving(c2), c2.rows = call[s].rows,
         call[s].handler \in {"cancel", "ttl"} => Fresh(db, mine[s], call[s]),
         \A new : OrderChanged(Read(s, OrderRow(d)), new, status, bump) => OrderStep(c2, db[OrderRow(d)], new)
  PROVE  Continues(s)
<1> DEFINE c == call[s]
           own == mine[s]
           own2 == mine'[s]
<1>1. TxTypes /\ Local(scenario, db, own, c) /\ Locks(DOMAIN own, c) /\ StepsOf(c)
  BY SoundFacts
<1>2. PICK new : /\ Write(s, new) /\ Typed(new) /\ DOMAIN new = {OrderRow(d)}
                 /\ OrderChanged(Read(s, OrderRow(d)), new[OrderRow(d)], status, bump)
  BY DEF OrderWritten
<1>3. /\ Still(own, own2, {"balance", "reservation", "receipt"})
      /\ \A e : e # d => SameRow(own, own2, OrderRow(e))
      /\ OrderRow(d) \in DOMAIN own2 /\ own2[OrderRow(d)] = new[OrderRow(d)]
      /\ Value(db, own2, OrderRow(d)) = new[OrderRow(d)]
      /\ \A e : e # d => Value(db, own2, OrderRow(e)) = Read(s, OrderRow(e))
  <2>1. OrderRow(d) \in DOMAIN new /\ \A r \in DOMAIN new : r = OrderRow(d) \/ r[1] \in {"deal", "payment"}
    BY <1>2
  <2> QED BY <1>1, <1>2, <2>1, OrderWriteStill
<1>4. MoneyStill(db, own, own2) /\ DeliveredStill(db, own, own2)
  <2>1. /\ MoneyKept(Read(s, OrderRow(d)), new[OrderRow(d)])
        /\ new[OrderRow(d)].delivered = Read(s, OrderRow(d)).delivered
    BY <1>2 DEF OrderChanged, MoneyKept
  <2> QED BY <1>1, <1>3, <2>1, PlainWrite
<1>5. OrderStep(c2, db[OrderRow(d)], own2[OrderRow(d)])
  BY <1>2, <1>3
<1> HIDE DEF c, own, own2
<1>a. /\ Goes(c, c2) /\ c.step # "readRows" /\ d = c.order /\ c.handler \in Releasing \cup {"create", "receive"}
      /\ ~Arriving(c) /\ c2.rows = c.rows
      /\ c.handler \in {"cancel", "ttl"} => Fresh(db, own, c)
  BY DEF c, own
<1>6. /\ c.handler \notin Fulfilment /\ c.step # "readOrder" /\ c.handler # "confirm"
      /\ c.handler # "deliver" /\ c2.handler = c.handler
  BY <1>1, <1>a DEF Goes, Releasing, Fulfilment, StepsOf
<1>7. \A e \in Orders : OrderRow(e) \in DOMAIN own => e = d \/ c.handler = "receive"
  BY <1>1, <1>a DEF Locks
<1>8. OrderLocal(db, own2, c2)
  <2>1. OrderLocal(db, own, c)
    BY <1>1 DEF Local
  <2> QED BY <1>3, <1>5, <1>6, <1>7, <1>a, <2>1, OrderWrites
<1>9. ~Paying(c) /\ ~Paying(c2) /\ ~Sent(c) /\ ~Sent(c2)
  BY <1>6 DEF Paying, Sent
<1>10. PaidLocal(db, own2, c2)
  <2>1. PaidLocal(db, own, c)
    BY <1>1 DEF Local
  <2> QED BY <1>4, <1>6, <1>9, <2>1, PaidQuiet
<1>11. Local(scenario, db, own2, c2)
  BY <1>1, <1>3, <1>4, <1>6, <1>8, <1>10, <1>a, OrderStatement
<1> QED BY <1>1, <1>2, <1>11, ContinuesWriting DEF own2

LEMMA ShortageSound ==
  ASSUME TxSound, NEW s \in Sessions, Shortage(s)
  PROVE  Continues(s)
<1> DEFINE c == call[s]
           d == c.order
<1>1. TxTypes /\ Locks(DOMAIN mine[s], c) /\ StepsOf(c) /\ c \in CallRecords
  BY SoundFacts
<1>2. /\ c.step = "claim" /\ d \in Orders /\ UNCHANGED <<db, scenario>>
      /\ \/ c.handler = "create" /\ Keep(s, [c EXCEPT !.step = "commit"]) /\ OrderWritten(s, d, "WAITING_STOCK", 0)
         \/ c.handler = "receive" /\ Keep(s, [c EXCEPT !.step = "next"]) /\ UNCHANGED mine
  BY <1>1, ShortageEffect DEF Go
<1>3. CASE c.handler = "create" /\ Keep(s, [c EXCEPT !.step = "commit"]) /\ OrderWritten(s, d, "WAITING_STOCK", 0)
  <2> DEFINE next == [c EXCEPT !.step = "commit"]
             old == db[OrderRow(d)]
             cur == Read(s, OrderRow(d))
  <2>1. OrderStep(c, old, cur) /\ old \in OrderRecords /\ cur \in OrderRecords
    BY <1>1, <1>2, <1>3, OrderReached DEF Locks
  <2> HIDE DEF c, old, cur
  <2>2. /\ Goes(c, next) /\ next.step = "commit" /\ next.handler = "create" /\ next.rows = c.rows
        /\ ~Arriving(c) /\ ~Arriving(next)
    BY <1>1, <1>2, <1>3 DEF CallRecords, Goes, Arriving
  <2>3. \A new : OrderChanged(cur, new, "WAITING_STOCK", 0) => OrderStep(next, old, new)
    BY <1>3, <2>1, <2>2 DEF OrderStep, OrderChanged, OrderRecords, Waiting
  <2> QED BY <1>2, <1>3, <2>2, <2>3, OrderWrittenSound DEF c, old, cur
<1>4. CASE c.handler = "receive" /\ Keep(s, [c EXCEPT !.step = "next"]) /\ UNCHANGED mine
  <2> DEFINE next == [c EXCEPT !.step = "next"]
  <2>1. Silent(c, next)
    <3> HIDE DEF c
    <3> QED BY <1>1, <1>2, <1>4 DEF CallRecords, Silent, Goes, Sent, Arriving, Fulfilment
  <2> QED BY <1>2, <1>4, <2>1, SilentStep
<1> QED BY <1>2, <1>3, <1>4

LEMMA RevertSound ==
  ASSUME TxSound, NEW s \in Sessions, Revert(s)
  PROVE  Continues(s)
<1> DEFINE c == call[s]
           d == c.order
           next == [c EXCEPT !.step = "commit"]
           old == db[OrderRow(d)]
           cur == Read(s, OrderRow(d))
<1>1. TxTypes /\ Locks(DOMAIN mine[s], c) /\ StepsOf(c) /\ c \in CallRecords
  BY SoundFacts
<1>2. /\ c.step = "revert" /\ d \in Orders /\ UNCHANGED <<db, scenario>> /\ Keep(s, next)
      /\ \/ UNCHANGED mine
         \/ Revertible(s) /\ OrderWritten(s, d, "WAITING_STOCK", 1)
  BY <1>1, RevertEffect DEF Go
<1>3. CASE UNCHANGED mine
  <2>1. Silent(c, next)
    <3> HIDE DEF c
    <3> QED BY <1>1, <1>2 DEF CallRecords, Silent, Goes, Sent, Arriving, Fulfilment, StepsOf
  <2> QED BY <1>2, <1>3, <2>1, SilentStep
<1>4. CASE Revertible(s) /\ OrderWritten(s, d, "WAITING_STOCK", 1)
  <2>1. c.handler = "expire" /\ OrderRow(d) \notin DOMAIN mine[s] /\ cur.status \in Waiting
    BY <1>1, <1>2, <1>4 DEF StepsOf, Locks, Releasing, Revertible, Waiting
  <2>2. cur = old /\ old \in OrderRecords
    BY <1>2, <2>1, OrderReached
  <2> HIDE DEF c, old, cur
  <2>3. /\ Goes(c, next) /\ next.step = "commit" /\ next.handler = "expire" /\ next.rows = c.rows
        /\ ~Arriving(c) /\ ~Arriving(next) /\ c.handler \in Releasing
    BY <1>1, <1>2, <2>1 DEF CallRecords, Goes, Arriving, Releasing
  <2>4. \A new : OrderChanged(cur, new, "WAITING_STOCK", 1) => OrderStep(next, old, new)
    BY <2>1, <2>2, <2>3 DEF OrderStep, OrderChanged, OrderRecords, Waiting
  <2> QED BY <1>2, <1>4, <2>1, <2>3, <2>4, OrderWrittenSound DEF c, old, cur
<1> QED BY <1>2, <1>3, <1>4

LEMMA PromiseSound ==
  ASSUME TxSound, NEW s \in Sessions, Promise(s)
  PROVE  Continues(s)
<1> DEFINE c == call[s]
           d == c.order
           next == [c EXCEPT !.step = "next"]
           old == db[OrderRow(d)]
           cur == Read(s, OrderRow(d))
<1>1. TxTypes /\ Locks(DOMAIN mine[s], c) /\ StepsOf(c) /\ c \in CallRecords
  BY SoundFacts
<1>2. /\ c.step = "promise" /\ d \in Orders /\ UNCHANGED <<db, scenario>> /\ Keep(s, next)
      /\ OrderWritten(s, d, "WAITING_PAYMENT", 1)
  BY <1>1, PromiseEffect DEF Go
<1>3. c.handler = "receive"
  BY <1>1, <1>2 DEF StepsOf
<1>4. old \in OrderRecords /\ cur \in OrderRecords /\ cur.version >= old.version
  BY <1>2, OrderReached DEF OrderStep, OrderRecords
<1> HIDE DEF c, old, cur
<1>5. /\ Goes(c, next) /\ next.step = "next" /\ next.handler = "receive" /\ next.rows = c.rows
      /\ ~Arriving(c) /\ ~Arriving(next)
  BY <1>1, <1>2, <1>3 DEF CallRecords, Goes, Arriving
<1>6. \A new : OrderChanged(cur, new, "WAITING_PAYMENT", 1) => OrderStep(next, old, new)
  BY <1>3, <1>4, <1>5 DEF OrderStep, OrderChanged, OrderRecords, Waiting
<1> QED BY <1>2, <1>3, <1>5, <1>6, OrderWrittenSound DEF c, old, cur

LEMMA CloseSound ==
  ASSUME TxSound, NEW s \in Sessions, Close(s)
  PROVE  Rollback(s) \/ Continues(s)
<1> DEFINE c == call[s]
           own == mine[s]
           d == c.order
           next == [c EXCEPT !.step = "commit"]
           old == db[OrderRow(d)]
           cur == Read(s, OrderRow(d))
<1>1. /\ TxTypes /\ Local(scenario, db, own, c) /\ Locks(DOMAIN own, c) /\ StepsOf(c) /\ c \in CallRecords
  BY SoundFacts
<1>2. /\ c.step = "close" /\ d \in Orders /\ UNCHANGED scenario
      /\ \/ Rollback(s)
         \/ /\ SameVersion(s) /\ UNCHANGED db /\ Keep(s, next) /\ OrderWritten(s, d, "CANCELLED", 1)
         \/ c.handler = "ttl" /\ Keep(s, next) /\ UNCHANGED <<db, mine>>
  BY <1>1, CloseEffect DEF Go
<1>3. c.handler \in {"cancel", "ttl"} /\ OrderRow(d) \notin DOMAIN own
  BY <1>1, <1>2 DEF StepsOf, Locks, Releasing
<1>4. cur = old /\ old \in OrderRecords
  BY <1>2, <1>3, OrderReached
<1>5. CASE SameVersion(s) /\ UNCHANGED db /\ Keep(s, next) /\ OrderWritten(s, d, "CANCELLED", 1)
  <2>1. old.version = c.version
    BY <1>4, <1>5 DEF SameVersion
  <2>2. old.status \in Waiting
    BY <1>1, <1>3, <2>1 DEF Local, OrderLocal, Versioned
  <2>3. Fresh(db, own, c)
    BY <1>2, <2>1 DEF Fresh
  <2> HIDE DEF c, old, cur, own
  <2>4. /\ Goes(c, next) /\ next.step = "commit" /\ next.handler = c.handler /\ next.rows = c.rows
        /\ ~Arriving(c) /\ ~Arriving(next) /\ c.handler \in Releasing
    BY <1>1, <1>2, <1>3 DEF CallRecords, Goes, Arriving, Releasing
  <2>5. \A new : OrderChanged(cur, new, "CANCELLED", 1) => OrderStep(next, old, new)
    BY <1>3, <1>4, <2>2, <2>4 DEF OrderStep, OrderChanged, OrderRecords, Waiting
  <2> QED BY <1>2, <1>5, <2>3, <2>4, <2>5, OrderWrittenSound DEF c, old, cur, own
<1>6. CASE c.handler = "ttl" /\ Keep(s, next) /\ UNCHANGED <<db, mine>>
  <2> HIDE DEF c, own, old, cur
  <2>1. /\ Goes(c, next) /\ next.step = "commit" /\ next.handler = "ttl" /\ next.rows = c.rows /\ next.order = d
        /\ ~Arriving(c) /\ ~Arriving(next) /\ ~Paying(c) /\ ~Paying(next) /\ ~Sent(c) /\ ~Sent(next)
    BY <1>1, <1>2, <1>6 DEF CallRecords, Goes, Arriving, Paying, Sent
  <2>2. ~Fresh(db, own, next)
    BY <1>3, <2>1 DEF Fresh
  <2>3. \A kinds : Still(own, own, kinds)
    BY DEF Still, SameRow
  <2>4. MoneyStill(db, own, own) /\ DeliveredStill(db, own, own)
    BY <2>3, StillPlain
  <2>5. OrderLocal(db, own, next)
    BY <1>1, <1>2, <1>6, <2>1, <2>3, OrderQuiet DEF Local, Fulfilment
  <2>6. PaidLocal(db, own, next)
    BY <1>1, <1>6, <2>1, <2>4, PaidQuiet DEF Local
  <2>7. Local(scenario, db, own, next)
    BY <1>1, <1>2, <1>6, <2>1, <2>2, <2>3, <2>4, <2>5, <2>6, OrderStatement
  <2> QED BY <1>1, <1>2, <1>6, <2>7, ContinuesReading DEF own
<1> QED BY <1>2, <1>5, <1>6

-----------------------------------------------------------------------------
\* Payments, deliveries and the supervisor write their order.

LEMMA LockSound ==
  ASSUME TxSound, NEW s \in Sessions, Lock(s)
  PROVE  Continues(s)
<1> DEFINE c == call[s]
           own == mine[s]
           own2 == mine'[s]
           d == c.order
           old == db[OrderRow(d)]
           cur == Read(s, OrderRow(d))
<1>1. /\ TxTypes /\ Local(scenario, db, own, c) /\ Locks(DOMAIN own, c) /\ StepsOf(c) /\ c \in CallRecords
  BY SoundFacts
<1>2. /\ c.step = "lock" /\ d \in Orders /\ c.handler \in Fulfilment /\ UNCHANGED <<db, scenario>>
      /\ \/ /\ Keep(s, [c EXCEPT !.locks = OneLock, !.step = "lock"])
            /\ \E new : Write(s, new) /\ Typed(new) /\ DOMAIN new = {DealRow(d)}
         \/ /\ Keep(s, [c EXCEPT !.locks = <<>>, !.step = AfterLocks(c.handler)])
            /\ \E new :
                 /\ Write(s, new) /\ Typed(new) /\ DOMAIN new = {OrderRow(d)}
                 /\ \/ c.handler # "confirm" /\ new[OrderRow(d)] = Read(s, OrderRow(d))
                    \/ /\ c.handler = "confirm"
                       /\ OrderTouched(Read(s, OrderRow(d)), new[OrderRow(d)], c.cached)
  BY ZenonT(60), <1>1, LockEffect
<1>3. \A e \in Orders : OrderRow(e) \notin DOMAIN own
  BY <1>1, <1>2 DEF Locks, HasOrder, Fulfilment
<1>4. cur = old /\ old \in OrderRecords
  BY <1>2, <1>3, OrderReached
<1>5. OrderLocal(db, own, c) /\ PaidLocal(db, own, c) /\ old.status # "NONE"
  BY <1>1, <1>2 DEF Local, OrderLocal
<1>6. ~Sent(c) /\ ~Arriving(c) /\ ~Paying(c) /\ c.handler \notin {"cancel", "ttl"} /\ c.handler # "receive"
  BY <1>2 DEF Sent, Arriving, Paying, Fulfilment
<1>7. CASE /\ Keep(s, [c EXCEPT !.locks = OneLock, !.step = "lock"])
           /\ \E new : Write(s, new) /\ Typed(new) /\ DOMAIN new = {DealRow(d)}
  <2> DEFINE next == [c EXCEPT !.locks = OneLock, !.step = "lock"]
  <2>1. PICK new : Write(s, new) /\ Typed(new) /\ DOMAIN new = {DealRow(d)}
    BY <1>7
  <2>2. \A kinds : "deal" \notin kinds => Still(own, own2, kinds)
    <3>1. \A r \in DOMAIN new : r[1] = "deal"
      BY <2>1, RowKeys
    <3> QED BY <1>1, <2>1, <3>1, WriteStill
  <2>3. Still(own, own2, {"balance", "reservation", "receipt"}) /\ Still(own, own2, {"order"})
    BY <2>2
  <2> HIDE DEF c, own, own2, old, cur
  <2>4. /\ Goes(c, next) /\ next.step = "lock" /\ next.handler = c.handler /\ next.order = d
        /\ next.version = c.version /\ ~Sent(next) /\ ~Arriving(next) /\ ~Paying(next)
    BY <1>1, <1>2 DEF CallRecords, Goes, Sent, Arriving, Paying
  <2>5. MoneyStill(db, own, own2) /\ DeliveredStill(db, own, own2)
    BY <2>3, StillPlain
  <2>6. OrderLocal(db, own2, next)
    <3>1. \A e \in Orders : OrderRow(e) \notin DOMAIN own2
      BY <1>3, <2>3, StillRows DEF SameRow
    <3> QED BY <1>2, <1>5, <2>4, <3>1 DEF OrderLocal, Versioned
  <2>7. PaidLocal(db, own2, next)
    BY <1>5, <1>6, <2>4, <2>5, PaidQuiet
  <2>8. Local(scenario, db, own2, next)
    BY <1>1, <1>2, <1>6, <2>3, <2>4, <2>5, <2>6, <2>7, OrderStatement
  <2> QED BY <1>1, <1>2, <1>7, <2>1, <2>8, ContinuesWriting DEF own2, c
<1>8. ASSUME NEW new, Keep(s, [c EXCEPT !.locks = <<>>, !.step = AfterLocks(c.handler)]),
             Write(s, new), DOMAIN new = {OrderRow(d)},
             \/ c.handler # "confirm" /\ new[OrderRow(d)] = cur
             \/ c.handler = "confirm" /\ OrderTouched(cur, new[OrderRow(d)], c.cached)
      PROVE  Continues(s)
  <2> DEFINE step == AfterLocks(c.handler)
             next == [c EXCEPT !.locks = <<>>, !.step = step]
             o == new[OrderRow(d)]
  <2>1. /\ Still(own, own2, {"balance", "reservation", "receipt"})
        /\ \A e : e # d => SameRow(own, own2, OrderRow(e))
        /\ OrderRow(d) \in DOMAIN own2 /\ own2[OrderRow(d)] = o
        /\ Value(db, own2, OrderRow(d)) = o
        /\ \A e : OrderRow(e) \in DOMAIN own2 <=> OrderRow(e) \in DOMAIN own \/ e = d
        /\ \A e : e # d => Value(db, own2, OrderRow(e)) = Read(s, OrderRow(e))
    <3>1. OrderRow(d) \in DOMAIN new /\ \A r \in DOMAIN new : r = OrderRow(d) \/ r[1] \in {"deal", "payment"}
      BY <1>8
    <3> QED BY <1>1, <1>2, <1>8, <3>1, OrderWriteStill
  <2>2. /\ c.handler = "confirm" => step = "settle"
        /\ c.handler = "deliver" => step = "check"
        /\ c.handler = "supervisor" => step = "supervise"
    BY DEF AfterLocks
  <2>3. /\ o.status = old.status /\ o.version = old.version /\ o.delivered = old.delivered
        /\ o.paidAmount = old.paidAmount
        /\ c.handler # "confirm" => o.paymentStatus = old.paymentStatus
    BY <1>4, <1>8 DEF OrderTouched
  <2>4. DeliveredStill(db, own, own2)
    BY <1>1, <1>2, <1>4, <2>1, <2>3, PlainWrite
  <2>5. c.handler # "confirm" => MoneyStill(db, own, own2)
    <3>1. c.handler # "confirm" => MoneyKept(cur, o)
      BY <1>4, <2>3 DEF MoneyKept
    <3> QED BY <1>1, <1>2, <2>1, <3>1, PlainWrite
  <2> HIDE DEF c, own, own2, old, cur, step, o
  <2>6. /\ Goes(c, next) /\ next.step = step /\ next.handler = c.handler /\ next.order = d
        /\ next.version = c.version /\ ~Sent(next) /\ ~Arriving(next) /\ ~Paying(next)
        /\ step \in {"settle", "check", "supervise"}
    BY <1>1, <1>2, <2>2 DEF CallRecords, Goes, Sent, Arriving, Paying, Fulfilment
  <2>7. OrderStep(next, old, o)
    BY <1>2, <1>4, <1>5, <2>3, <2>6 DEF OrderStep, Fulfilment, OrderRecords
  <2>8. OrderLocal(db, own2, next)
    <3>1. /\ d = c.order /\ OrderStep(next, db[OrderRow(d)], own2[OrderRow(d)])
          /\ c.step # "readOrder" /\ (c.handler = "confirm" => c.step \in {"lock", "settle"})
          /\ (c.handler = "confirm" /\ next.step = "commit" => db[OrderRow(d)].status # "CANCELLED")
      BY <1>2, <2>1, <2>6, <2>7 DEF old
    <3> HIDE DEF next, d
    <3> QED BY <1>2, <1>3, <1>5, <2>1, <2>6, <3>1, OrderWrites
  <2>9. PaidLocal(db, own2, next)
    <3>1. CASE c.handler # "confirm"
      BY <1>5, <1>6, <2>5, <2>6, <3>1, PaidQuiet
    <3>2. CASE c.handler = "confirm"
      <4>1. \A e \in Orders : OrderRow(e) \in DOMAIN own2 => e = d
        BY <1>3, <2>1
      <4> QED BY <2>1, <2>3, <2>6, <3>2, <4>1 DEF PaidLocal, old
    <3> QED BY <3>1, <3>2
  <2>10. Local(scenario, db, own2, next)
    BY <1>1, <1>2, <1>6, <2>1, <2>4, <2>6, <2>8, <2>9, OrderStatement
  <2> QED BY <1>1, <1>2, <1>8, <2>10, ContinuesWriting DEF own2, c, step
<1> QED BY <1>2, <1>7, <1>8

\* Statements at the end of a delivery and of the supervisor: the order, and the deal.
LEMMA FinalizeSound ==
  ASSUME TxSound, NEW s \in Sessions, call[s].step \in {"ship", "supervise"}, NEW new, Write(s, new),
         Keep(s, [call[s] EXCEPT !.step = "commit"]), UNCHANGED <<db, scenario>>,
         NEW d \in Orders, d = call[s].order, DOMAIN new = {DealRow(d), OrderRow(d)},
         MoneyKept(Read(s, OrderRow(d)), new[OrderRow(d)]),
         new[OrderRow(d)].delivered = Read(s, OrderRow(d)).delivered,
         \A c2 : c2.handler = call[s].handler /\ c2.step = "commit" => OrderStep(c2, db[OrderRow(d)], new[OrderRow(d)])
  PROVE  Continues(s)
<1> DEFINE c == call[s]
           own == mine[s]
           own2 == mine'[s]
           next == [c EXCEPT !.step = "commit"]
<1>1. /\ TxTypes /\ Local(scenario, db, own, c) /\ Locks(DOMAIN own, c) /\ StepsOf(c) /\ c \in CallRecords
  BY SoundFacts
<1>2. /\ Still(own, own2, {"balance", "reservation", "receipt"})
      /\ \A e : e # d => SameRow(own, own2, OrderRow(e))
      /\ OrderRow(d) \in DOMAIN own2 /\ own2[OrderRow(d)] = new[OrderRow(d)]
      /\ Value(db, own2, OrderRow(d)) = new[OrderRow(d)]
      /\ \A e : e # d => Value(db, own2, OrderRow(e)) = Read(s, OrderRow(e))
  <2>1. OrderRow(d) \in DOMAIN new /\ \A r \in DOMAIN new : r = OrderRow(d) \/ r[1] \in {"deal", "payment"}
    BY RowKeys
  <2> QED BY <1>1, <2>1, OrderWriteStill
<1>3. MoneyStill(db, own, own2) /\ DeliveredStill(db, own, own2)
  BY <1>1, <1>2, PlainWrite
<1>a. c.step \in {"ship", "supervise"} /\ d = c.order
  OBVIOUS
<1>b. \A c2 : c2.handler = c.handler /\ c2.step = "commit" => OrderStep(c2, db[OrderRow(d)], own2[OrderRow(d)])
  BY <1>2
<1> HIDE DEF c, own, own2
<1>4. /\ c.handler \in {"deliver", "supervisor"} /\ c.step # "readOrder" /\ c.step # "readRows"
      /\ c.step = "ship" <=> c.handler = "deliver"
  BY <1>1, <1>a DEF StepsOf
<1>5. /\ Goes(c, next) /\ next.step = "commit" /\ next.handler = c.handler /\ next.order = c.order
      /\ ~Arriving(c) /\ ~Arriving(next) /\ ~Paying(c) /\ ~Paying(next)
      /\ Sent(next) <=> Sent(c)
  BY <1>1, <1>4, <1>a DEF CallRecords, Goes, Arriving, Paying, Sent
<1>6. \A e \in Orders : OrderRow(e) \in DOMAIN own => e = d
  BY <1>1, <1>4, <1>a DEF Locks
<1>7. OrderRow(d) \in DOMAIN own
  BY <1>1, <1>4, <1>a DEF Locks, HasOrder, Fulfilment
<1>8. OrderLocal(db, own2, next)
  <2>1. OrderStep(next, db[OrderRow(d)], own2[OrderRow(d)]) /\ OrderLocal(db, own, c)
    BY <1>1, <1>5, <1>b DEF Local
  <2> QED BY <1>2, <1>4, <1>5, <1>6, <1>a, <2>1, OrderWrites
<1>9. PaidLocal(db, own2, next)
  <2>1. PaidLocal(db, own, c)
    BY <1>1 DEF Local
  <2> QED BY <1>3, <1>5, <1>7, <1>a, <2>1, PaidQuiet
<1>10. Local(scenario, db, own2, next)
  BY <1>1, <1>2, <1>3, <1>4, <1>5, <1>8, <1>9, OrderStatement
<1> QED BY <1>1, <1>10, ContinuesWriting DEF own2, c

LEMMA ShipSound ==
  ASSUME TxSound, NEW s \in Sessions, Ship(s)
  PROVE  Continues(s)
<1> DEFINE c == call[s]
           d == c.order
           old == db[OrderRow(d)]
           cur == Read(s, OrderRow(d))
<1>1. /\ TxTypes /\ Locks(DOMAIN mine[s], c) /\ StepsOf(c)
  BY SoundFacts
<1>2. /\ c.step = "ship" /\ d \in Orders /\ c.handler = "deliver" /\ UNCHANGED <<db, scenario>>
      /\ Keep(s, [c EXCEPT !.step = "commit"])
  BY <1>1, ShipEffect DEF Go
<1>3. PICK new : /\ Write(s, new) /\ DOMAIN new = {DealRow(d), OrderRow(d)}
                 /\ \E shipped : /\ OrderChanged(cur, shipped, ShippedStatus(d, cur.delivered), 1)
                                 /\ PerhapsCompleted(shipped, new[OrderRow(d)])
  BY <1>1, ShipEffect
<1>4. PICK shipped : /\ OrderChanged(cur, shipped, ShippedStatus(d, cur.delivered), 1)
                     /\ PerhapsCompleted(shipped, new[OrderRow(d)])
  BY <1>3
<1>5. OrderRow(d) \in DOMAIN mine[s]
  BY <1>1, <1>2 DEF Locks, HasOrder, Fulfilment
<1>6. OrderStep(c, old, cur) /\ old \in OrderRecords /\ cur \in OrderRecords
  BY <1>2, <1>5, OrderReached
<1> DEFINE o == new[OrderRow(d)]
<1> HIDE DEF c, d, old, cur, o
<1>7. shipped.status \in {"SHIPPED", "PARTIALLY_SHIPPED"} /\ shipped \in OrderRecords
  BY <1>4 DEF OrderChanged, ShippedStatus
<1>8. /\ o.status \in {"SHIPPED", "PARTIALLY_SHIPPED", "COMPLETED"}
      /\ o.version >= cur.version + 1 /\ o \in OrderRecords
      /\ o.delivered = cur.delivered /\ MoneyKept(cur, o)
  BY <1>4, <1>6, <1>7 DEF OrderChanged, PerhapsCompleted, MoneyKept, OrderRecords, o
<1>9. \A c2 : c2.handler = c.handler /\ c2.step = "commit" => OrderStep(c2, old, o)
  <2>1. /\ o.status # "NONE" /\ o.version > old.version /\ old.version \in Nat /\ o.version \in Nat
    BY <1>6, <1>8 DEF OrderStep, OrderRecords
  <2> QED BY <1>2, <1>8, <2>1 DEF OrderStep
<1> QED BY <1>2, <1>3, <1>8, <1>9, FinalizeSound DEF c, d, old, cur, o

LEMMA SuperviseSound ==
  ASSUME TxSound, NEW s \in Sessions, Supervise(s)
  PROVE  Continues(s)
<1> DEFINE c == call[s]
           d == c.order
           old == db[OrderRow(d)]
           cur == Read(s, OrderRow(d))
<1>1. /\ TxTypes /\ Locks(DOMAIN mine[s], c) /\ StepsOf(c)
  BY SoundFacts
<1>2. /\ c.step = "supervise" /\ d \in Orders /\ c.handler = "supervisor" /\ UNCHANGED <<db, scenario>>
      /\ Keep(s, [c EXCEPT !.step = "commit"])
  BY <1>1, SuperviseEffect DEF Go
<1>3. PICK new : /\ Write(s, new) /\ DOMAIN new = {DealRow(d), OrderRow(d)}
                 /\ PerhapsCompleted(cur, new[OrderRow(d)])
  BY <1>1, SuperviseEffect
<1>4. OrderRow(d) \in DOMAIN mine[s]
  BY <1>1, <1>2 DEF Locks, HasOrder, Fulfilment
<1>5. OrderStep(c, old, cur) /\ old \in OrderRecords /\ cur \in OrderRecords
  BY <1>2, <1>4, OrderReached
<1> DEFINE o == new[OrderRow(d)]
<1> HIDE DEF c, d, old, cur, o
<1>6. PerhapsCompleted(cur, o)
  BY <1>3 DEF o
<1>7. o.delivered = cur.delivered /\ MoneyKept(cur, o)
  BY <1>6 DEF OrderChanged, PerhapsCompleted, MoneyKept
<1>8. \A c2 : c2.handler = c.handler /\ c2.step = "commit" => OrderStep(c2, old, o)
  BY <1>2, <1>5, <1>6 DEF OrderStep, OrderRecords, OrderChanged, PerhapsCompleted
<1> QED BY <1>2, <1>3, <1>7, <1>8, FinalizeSound DEF c, d, old, cur, o

-----------------------------------------------------------------------------
\* A payment is settled, a delivery is checked.

LEMMA ConfirmedSame ==
  ASSUME NEW f, NEW g, NEW d, NumPayments \in Nat,
         \A n \in 1..NumPayments : f[<<d, n>>] = "CONFIRMED" <=> g[<<d, n>>] = "CONFIRMED"
  PROVE  Confirmed(g, d) = Confirmed(f, d)
<1> DEFINE F == [n \in 1..NumPayments |-> IF f[<<d, n>>] = "CONFIRMED" THEN 1 ELSE 0]
           G == [n \in 1..NumPayments |-> IF g[<<d, n>>] = "CONFIRMED" THEN 1 ELSE 0]
<1>1. \A n \in 1..NumPayments : F[n] \in Int /\ G[n] = F[n]
  OBVIOUS
<1> HIDE DEF F, G
<1>2. SumUpTo(G, NumPayments) = SumUpTo(F, NumPayments)
  BY <1>1, SumSame
<1> QED BY <1>2 DEF Confirmed, F, G

LEMMA ConfirmedMore ==
  ASSUME NEW f, NEW g, NEW d, NumPayments \in Nat, NEW m \in 1..NumPayments,
         f[<<d, m>>] # "CONFIRMED", g[<<d, m>>] = "CONFIRMED",
         \A n \in 1..NumPayments : n # m => (f[<<d, n>>] = "CONFIRMED" <=> g[<<d, n>>] = "CONFIRMED")
  PROVE  Confirmed(g, d) = Confirmed(f, d) + 1
<1> DEFINE F == [n \in 1..NumPayments |-> IF f[<<d, n>>] = "CONFIRMED" THEN 1 ELSE 0]
           G == [n \in 1..NumPayments |-> IF g[<<d, n>>] = "CONFIRMED" THEN 1 ELSE 0]
<1>1. \A n \in 1..NumPayments : F[n] \in Int /\ G[n] \in Int /\ (n # m => G[n] = F[n])
  OBVIOUS
<1>2. F[m] = 0 /\ G[m] = 1
  OBVIOUS
<1>3. \A n \in 1..NumPayments : F[n] \in Nat
  OBVIOUS
<1>4. NumPayments \in 0..NumPayments
  OBVIOUS
<1> HIDE DEF F, G
<1>5. SumUpTo(G, NumPayments) = SumUpTo(F, NumPayments) - F[m] + G[m]
  BY <1>1, SumPoint
<1>6. SumUpTo(F, NumPayments) \in Nat
  BY <1>3, <1>4, SumNat
<1>7. SumUpTo(G, NumPayments) = SumUpTo(F, NumPayments) + 1
  BY <1>2, <1>5, <1>6
<1> QED BY <1>7 DEF Confirmed, F, G

\* The paid status of an order that is paid in full stays, whatever is paid on top.
LEMMA StaysPaid ==
  ASSUME TotalAmount \in Nat, NEW a \in Nat, NEW b \in Nat, a <= b, calculatePaymentStatus(a) = "PAID"
  PROVE  calculatePaymentStatus(b) = "PAID"
BY DEF calculatePaymentStatus

\* What an order has sent does not change before a delivery is checked.
LEMMA DeliveredSame ==
  ASSUME TxSound, NEW s \in Sessions, NEW d \in Orders, ~Sent(call[s])
  PROVE  Read(s, OrderRow(d)).delivered = db[OrderRow(d)].delivered
<1> DEFINE cur == Read(s, OrderRow(d)).delivered
           old == db[OrderRow(d)].delivered
<1>1. cur \in [Products -> Nat] /\ old \in [Products -> Nat]
  BY OrderReached DEF OrderRecords
<1>2. \A p \in Products : cur[p] - old[p] = 0
  <2>1. \A p \in Products : SentOut(db, mine[s], d, p) = 0
    BY SoundFacts DEF Local, GoodsLocal
  <2>2. Read(s, OrderRow(d)) = Value(db, mine[s], OrderRow(d))
    BY DEF Read, Value
  <2> QED BY <2>1, <2>2 DEF SentOut
<1> HIDE DEF cur, old
<1>3. \A p \in Products : cur[p] = old[p]
  BY <1>1, <1>2
<1>4. cur = old
  BY <1>1, <1>3
<1> QED BY <1>4 DEF cur, old

\* The amount that is written is that of the confirmed payments.
LEMMA SettledAmount ==
  ASSUME TxSound, NEW s \in Sessions, call[s].step = "settle", Acceptable(s),
         NEW own2, NEW d, NEW k, d = call[s].order, k = call[s].payment,
         PaymentRow(k) \in DOMAIN own2 /\ own2[PaymentRow(k)] = call[s].verdict,
         \A j : j # k => SameRow(mine[s], own2, PaymentRow(j))
  PROVE  LET paid == AmountPaid(s)
         IN  /\ d \in Orders /\ paid \in Nat /\ paid <= TotalAmount
             /\ paid = Confirmed([j \in Payments |-> Value(db, own2, PaymentRow(j))], d)
             /\ db[OrderRow(d)].paymentStatus = "PAID" => calculatePaymentStatus(paid) = "PAID"
<1> DEFINE c == call[s]
           before == [j \in Payments |-> db[PaymentRow(j)]]
           tried == [j \in Payments |-> IF j = k /\ c.verdict = "CONFIRMED"
                                        THEN "CONFIRMED" ELSE Read(s, PaymentRow(j))]
           after == [j \in Payments |-> Value(db, own2, PaymentRow(j))]
           paid == AmountPaid(s)
<1>1. /\ TxTypes /\ Locks(DOMAIN mine[s], c) /\ StepsOf(c) /\ Memory(c) /\ c \in CallRecords
      /\ Base(scenario, db) /\ scenario \in Scenarios
  BY SoundFacts
<1>2. NumPayments \in Nat /\ TotalAmount \in Nat
  BY <1>1, ScenarioType
<1>3. k \in Payments /\ d = k[1] /\ c.verdict \in {"CONFIRMED", "REJECTED"}
  BY <1>1 DEF StepsOf, Memory
<1>4. PICK m \in 1..NumPayments : k = <<d, m>> /\ d \in Orders
  BY <1>3 DEF Payments
<1>5. \A j \in Payments : Read(s, PaymentRow(j)) = db[PaymentRow(j)] /\ PaymentRow(j) \notin DOMAIN mine[s]
  BY <1>1 DEF Locks, Read
<1>6. db[PaymentRow(k)] = "PENDING" /\ (c.verdict = "CONFIRMED" => paid <= TotalAmount)
  BY <1>3, <1>5 DEF Acceptable
<1>7. \A n \in 1..NumPayments : <<d, n>> \in Payments
  BY <1>4 DEF Payments
<1>8. \A n \in 1..NumPayments : n # m => <<d, n>> # k
  BY <1>4
<1>9. /\ before[k] = "PENDING" /\ after[k] = c.verdict
      /\ tried[k] = IF c.verdict = "CONFIRMED" THEN "CONFIRMED" ELSE "PENDING"
      /\ \A j \in Payments : j # k => after[j] = before[j] /\ tried[j] = before[j]
  BY <1>3, <1>5, <1>6 DEF Value, SameRow
<1>10. paid = Confirmed(tried, d)
  BY <1>3 DEF AmountPaid
<1>11. PaidOrder(db[OrderRow(d)], Confirmed(before, d))
  BY <1>1, <1>4 DEF Base, PaidBase
<1>12. Confirmed(before, d) \in Nat /\ paid \in Nat
  BY <1>2, <1>10, ConfirmedNat
<1> HIDE DEF before, tried, after, paid, c
<1>13. Confirmed(after, d) = paid
  <2>1. \A n \in 1..NumPayments : tried[<<d, n>>] = "CONFIRMED" <=> after[<<d, n>>] = "CONFIRMED"
    <3> TAKE n \in 1..NumPayments
    <3>1. CASE n = m
      BY <1>3, <1>4, <1>9, <3>1
    <3>2. CASE n # m
      BY <1>7, <1>8, <1>9, <3>2
    <3> QED BY <3>1, <3>2
  <2> QED BY <1>2, <1>10, <2>1, ConfirmedSame
<1>14. Confirmed(before, d) <= paid /\ (c.verdict = "REJECTED" => paid = Confirmed(before, d))
  <2>1. \A n \in 1..NumPayments : n # m => tried[<<d, n>>] = before[<<d, n>>]
    BY <1>7, <1>8, <1>9
  <2>2. CASE c.verdict = "CONFIRMED"
    <3>1. before[<<d, m>>] # "CONFIRMED" /\ tried[<<d, m>>] = "CONFIRMED"
      BY <1>4, <1>9, <2>2
    <3>2. \A n \in 1..NumPayments :
            n # m => (before[<<d, n>>] = "CONFIRMED" <=> tried[<<d, n>>] = "CONFIRMED")
      BY <2>1
    <3>3. Confirmed(tried, d) = Confirmed(before, d) + 1
      BY ONLY <1>2, <3>1, <3>2, ConfirmedMore
    <3> QED BY <1>10, <1>12, <2>2, <3>3
  <2>3. CASE c.verdict = "REJECTED"
    <3>1. \A n \in 1..NumPayments : before[<<d, n>>] = "CONFIRMED" <=> tried[<<d, n>>] = "CONFIRMED"
      <4> TAKE n \in 1..NumPayments
      <4>1. CASE n = m
        BY <1>4, <1>9, <2>3, <4>1
      <4>2. CASE n # m
        BY <2>1, <4>2
      <4> QED BY <4>1, <4>2
    <3>2. Confirmed(tried, d) = Confirmed(before, d)
      BY <1>2, <3>1, ConfirmedSame
    <3> QED BY <1>10, <1>12, <3>2
  <2> QED BY <1>3, <2>2, <2>3
<1>15. paid <= TotalAmount
  BY <1>3, <1>6, <1>11, <1>14 DEF PaidOrder
<1>16. db[OrderRow(d)].paymentStatus = "PAID" => calculatePaymentStatus(paid) = "PAID"
  BY <1>2, <1>11, <1>12, <1>14, StaysPaid DEF PaidOrder
<1> QED BY <1>4, <1>12, <1>13, <1>15, <1>16 DEF paid, after

LEMMA SettleSound ==
  ASSUME TxSound, NEW s \in Sessions, Settle(s)
  PROVE  Rollback(s) \/ Continues(s)
<1> SUFFICES ASSUME ~Rollback(s)
             PROVE  Continues(s)
  OBVIOUS
<1> DEFINE c == call[s]
           own == mine[s]
           own2 == mine'[s]
           d == c.order
           k == c.payment
           old == db[OrderRow(d)]
           cur == Read(s, OrderRow(d))
           next == [c EXCEPT !.step = "commit"]
           amount == AmountPaid(s)
<1>1. /\ TxTypes /\ Local(scenario, db, own, c) /\ Locks(DOMAIN own, c) /\ StepsOf(c) /\ c \in CallRecords
      /\ Base(scenario, db)
  BY SoundFacts
<1>2. /\ c.step = "settle" /\ d \in Orders /\ k \in Payments /\ d = k[1] /\ c.handler = "confirm"
      /\ UNCHANGED <<db, scenario>> /\ Acceptable(s) /\ Keep(s, next)
  BY <1>1, SettleEffect DEF Go
<1>3. PICK new : /\ Write(s, new) /\ Typed(new)
                 /\ \/ DOMAIN new = {PaymentRow(k), OrderRow(d)}
                    \/ DOMAIN new = {PaymentRow(k), DealRow(d), OrderRow(d)}
                 /\ new[PaymentRow(k)] = c.verdict
                 /\ \E paid : /\ OrderPaid(cur, paid, amount)
                              /\ PerhapsCompleted(paid, new[OrderRow(d)])
  BY <1>1, SettleEffect
<1>4. PICK paid : OrderPaid(cur, paid, amount) /\ PerhapsCompleted(paid, new[OrderRow(d)])
  BY <1>3
<1> DEFINE o == new[OrderRow(d)]
<1>5. /\ Still(own, own2, {"balance", "reservation", "receipt"})
      /\ \A e : e # d => SameRow(own, own2, OrderRow(e))
      /\ OrderRow(d) \in DOMAIN own2 /\ own2[OrderRow(d)] = o
      /\ Value(db, own2, OrderRow(d)) = o
      /\ \A e : e # d => Value(db, own2, OrderRow(e)) = Read(s, OrderRow(e))
  <2>1. OrderRow(d) \in DOMAIN new /\ \A r \in DOMAIN new : r = OrderRow(d) \/ r[1] \in {"deal", "payment"}
    BY <1>3, RowKeys
  <2> QED BY <1>1, <1>2, <1>3, <2>1, OrderWriteStill
<1>6. /\ PaymentRow(k) \in DOMAIN own2 /\ own2[PaymentRow(k)] = c.verdict
      /\ \A j : j # k => SameRow(own, own2, PaymentRow(j))
  <2>1. \A j : j # k => PaymentRow(j) \notin DOMAIN new
    BY <1>3, RowKeys
  <2>2. PaymentRow(k) \in DOMAIN new
    BY <1>3
  <2> QED BY <1>1, <1>3, <2>1, <2>2, WriteStill
<1>7. /\ amount \in Nat /\ amount <= TotalAmount
      /\ amount = Confirmed([j \in Payments |-> Value(db, own2, PaymentRow(j))], d)
      /\ old.paymentStatus = "PAID" => calculatePaymentStatus(amount) = "PAID"
  BY <1>2, <1>6, SettledAmount
<1>8. OrderRow(d) \in DOMAIN own /\ \A e \in Orders : OrderRow(e) \in DOMAIN own => e = d
  BY <1>1, <1>2 DEF Locks, HasOrder, Fulfilment
<1>9. OrderStep(c, old, cur) /\ old \in OrderRecords /\ cur \in OrderRecords
  BY <1>2, <1>8, OrderReached
<1>10. cur.version = c.version
  BY <1>2 DEF Acceptable, SameVersion
<1>11. cur.delivered = old.delivered
  <2>1. ~Sent(c)
    BY <1>2 DEF Sent
  <2> QED BY <1>2, <2>1, DeliveredSame
<1>12. PaidOrder(old, Confirmed([j \in Payments |-> db[PaymentRow(j)]], d))
  BY <1>1, <1>2 DEF Base, PaidBase
<1>13. DeliveredStill(db, own, own2)
  <2>1. o.delivered = cur.delivered
    BY <1>4 DEF OrderPaid, PerhapsCompleted, OrderChanged
  <2> QED BY <1>1, <1>2, <1>5, <2>1, PlainWrite
<1> HIDE DEF c, own, own2, old, cur, amount, o, d, k
<1>14. /\ Goes(c, next) /\ next.step = "commit" /\ next.handler = "confirm" /\ next.order = d
       /\ ~Sent(c) /\ ~Sent(next) /\ ~Arriving(c) /\ ~Arriving(next) /\ Paying(next)
  BY <1>1, <1>2 DEF CallRecords, Goes, Sent, Arriving, Paying, d
<1>15. old.status # "CANCELLED" /\ old.status # "NONE"
  <2>1. cur.version = old.version
    BY <1>2, <1>9 DEF OrderStep
  <2>2. old.version = c.version /\ Versioned(c)
    BY <1>2, <1>10, <2>1 DEF Versioned
  <2>3. OrderLocal(db, own, c)
    BY <1>1 DEF Local
  <2> QED BY <1>2, <2>2, <2>3 DEF OrderLocal, Fulfilment, old, d
<1>16. paid \in OrderRecords /\ paid.status = old.status /\ paid.version = old.version + 1
       /\ paid.delivered = old.delivered /\ paid.paidAmount = amount
       /\ paid.paymentStatus = calculatePaymentStatus(amount)
  BY <1>2, <1>4, <1>9, <1>11 DEF OrderPaid, OrderStep
<1>17. /\ o.status \in {old.status, "COMPLETED"} /\ o.version > old.version
       /\ o.delivered = old.delivered /\ o.paidAmount = amount
       /\ o.paymentStatus = calculatePaymentStatus(amount)
       /\ o.version \in Nat /\ old.version \in Nat
  BY <1>4, <1>9, <1>16 DEF PerhapsCompleted, OrderChanged, OrderRecords, o
<1>18. OrderStep(next, old, o)
  BY <1>14, <1>15, <1>17 DEF OrderStep
<1>19. OrderLocal(db, own2, next)
  <2>1. OrderLocal(db, own, c) /\ d = c.order
    BY <1>1 DEF Local, d
  <2> QED BY <1>2, <1>5, <1>8, <1>14, <1>15, <1>18, <2>1, OrderWrites DEF old
<1>20. PaidLocal(db, own2, next)
  <2>1. \A e \in Orders : OrderRow(e) \in DOMAIN own2 => e = d
    BY <1>5, <1>8 DEF SameRow
  <2>2. PaidOrder(o, amount)
    BY <1>7, <1>12, <1>17 DEF PaidOrder
  <2> QED BY <1>5, <1>7, <1>14, <2>1, <2>2 DEF PaidLocal
<1>21. Local(scenario, db, own2, next)
  BY <1>1, <1>2, <1>5, <1>13, <1>14, <1>19, <1>20, OrderStatement
<1> QED BY <1>1, <1>2, <1>3, <1>21, ContinuesWriting DEF own2, c

LEMMA CheckSound ==
  ASSUME TxSound, NEW s \in Sessions, Check(s)
  PROVE  Rollback(s) \/ Continues(s)
<1> SUFFICES ASSUME ~Rollback(s)
             PROVE  Continues(s)
  OBVIOUS
<1> DEFINE c == call[s]
           own == mine[s]
           own2 == mine'[s]
           d == c.order
           old == db[OrderRow(d)]
           cur == Read(s, OrderRow(d))
           wanted == {p \in Products : c.quantity[p] > 0}
           next == [c EXCEPT !.step = "goods", !.products = wanted]
<1>1. /\ TxTypes /\ Local(scenario, db, own, c) /\ Locks(DOMAIN own, c) /\ StepsOf(c) /\ c \in CallRecords
  BY SoundFacts
<1>2. /\ c.step = "check" /\ d \in Orders /\ c.handler = "deliver"
      /\ UNCHANGED <<db, scenario>> /\ Deliverable(s, cur) /\ Keep(s, next)
  BY ZenonT(60), <1>1, CheckEffect
<1>3. PICK new : /\ Write(s, new) /\ Typed(new) /\ DOMAIN new = {OrderRow(d)}
                 /\ OrderDelivered(cur, new[OrderRow(d)],
                                   [p \in Products |-> cur.delivered[p] + c.quantity[p]])
  BY <1>1, <1>2, CheckEffect
<1> DEFINE o == new[OrderRow(d)]
<1>4. /\ Still(own, own2, {"balance", "reservation", "receipt"})
      /\ \A e : e # d => SameRow(own, own2, OrderRow(e))
      /\ OrderRow(d) \in DOMAIN own2 /\ own2[OrderRow(d)] = o
      /\ Value(db, own2, OrderRow(d)) = o
      /\ \A e : e # d => Value(db, own2, OrderRow(e)) = Read(s, OrderRow(e))
  <2>1. OrderRow(d) \in DOMAIN new /\ \A r \in DOMAIN new : r = OrderRow(d) \/ r[1] \in {"deal", "payment"}
    BY <1>3, RowKeys
  <2> QED BY <1>1, <1>2, <1>3, <2>1, OrderWriteStill
<1>5. OrderRow(d) \in DOMAIN own /\ \A e \in Orders : OrderRow(e) \in DOMAIN own => e = d
  BY <1>1, <1>2 DEF Locks, HasOrder, Fulfilment
<1>6. OrderStep(c, old, cur) /\ old \in OrderRecords /\ cur \in OrderRecords
  BY <1>2, <1>5, OrderReached
<1>7. ~Sent(c)
  BY <1>2 DEF Sent
<1>8. \A e \in Orders : Read(s, OrderRow(e)).delivered = db[OrderRow(e)].delivered
  BY <1>7, DeliveredSame
<1>9. \A p \in Products : BalanceRow(p) \notin DOMAIN own
  BY <1>1, <1>2 DEF Locks
<1>10. \A p \in Products : SameRow(own, own2, BalanceRow(p))
  BY <1>4, StillRows
<1>11. cur.paymentStatus = "PAID"
  BY <1>2 DEF Deliverable
<1>12. \A e \in Orders : db[OrderRow(e)].delivered \in [Products -> Nat]
  BY <1>1, OrderReached DEF OrderRecords
<1> HIDE DEF c, own, own2, old, cur, o, wanted, d
<1>13. /\ Goes(c, next) /\ next.step = "goods" /\ next.handler = "deliver" /\ next.order = d
       /\ next.quantity = c.quantity /\ c.quantity \in [Products -> Nat]
       /\ Sent(next) /\ ~Arriving(c) /\ ~Arriving(next) /\ ~Paying(c) /\ ~Paying(next)
  BY <1>1, <1>2 DEF CallRecords, Goes, Sent, Arriving, Paying, d
<1>14. /\ o.status = cur.status /\ o.version = cur.version /\ MoneyKept(cur, o)
       /\ o.delivered = [p \in Products |-> cur.delivered[p] + c.quantity[p]]
  BY <1>3 DEF OrderDelivered, MoneyKept, o
<1>15. OrderStep(next, old, o)
  BY <1>2, <1>6, <1>13, <1>14 DEF OrderStep
<1>16. OrderLocal(db, own2, next)
  <2>1. OrderLocal(db, own, c) /\ d = c.order
    BY <1>1 DEF Local, d
  <2> QED BY <1>2, <1>4, <1>5, <1>13, <1>15, <2>1, OrderWrites DEF old
<1>17. PaidLocal(db, own2, next)
  <2>1. \A e \in Orders : OrderRow(e) \in DOMAIN own2 => e = d
    BY <1>4, <1>5 DEF SameRow
  <2>2. cur.paidAmount = old.paidAmount /\ cur.paymentStatus = old.paymentStatus
    BY <1>1, <1>2, <1>5, <1>13 DEF Local, PaidLocal, Read, old, cur, own, Paying
  <2>3. o.paidAmount = old.paidAmount /\ o.paymentStatus = old.paymentStatus /\ o.paymentStatus = "PAID"
    BY <1>11, <1>14, <2>2 DEF MoneyKept
  <2> QED BY <1>4, <1>13, <2>1, <2>3 DEF PaidLocal, old
<1>18. GoodsLocal(db, own2, next)
  <2>1. \A p \in Products : BalanceRow(p) \notin DOMAIN own2
    BY <1>9, <1>10 DEF SameRow
  <2>2. ASSUME NEW e \in Orders, NEW p \in Products
        PROVE  SentOut(db, own2, e, p) = IF e = d THEN c.quantity[p] ELSE 0
    <3>1. CASE e = d
      <4>1. Value(db, own2, OrderRow(e)).delivered[p] = db[OrderRow(e)].delivered[p] + c.quantity[p]
        BY <1>4, <1>8, <1>14, <3>1 DEF cur
      <4>2. db[OrderRow(e)].delivered[p] \in Nat /\ c.quantity[p] \in Nat
        BY <1>12, <1>13
      <4> QED BY <3>1, <4>1, <4>2 DEF SentOut
    <3>2. CASE e # d
      <4>1. Value(db, own2, OrderRow(e)).delivered[p] = db[OrderRow(e)].delivered[p]
        BY <1>4, <1>8, <3>2
      <4>2. db[OrderRow(e)].delivered[p] \in Nat
        BY <1>12
      <4> QED BY <3>2, <4>1, <4>2 DEF SentOut
    <3> QED BY <3>1, <3>2
  <2> QED BY <1>13, <2>1, <2>2 DEF GoodsLocal
<1>19. RowsLocal(db, own2, next)
  <2>1. Still(own, own2, {"reservation"}) /\ RowsLocal(db, own, c)
    BY <1>1, <1>4, StillKinds DEF Local
  <2> QED BY <1>13, <2>1, RowsQuiet
<1>20. ListLocal(scenario.handlers, db, own2, next)
  BY <1>13, ListOther
<1>21. LedgerLocal(scenario.handlers, db, own2, next)
  <2>1. Still(own, own2, {"reservation"}) /\ Still(own, own2, {"balance"}) /\ LedgerLocal(scenario.handlers, db, own, c)
    BY <1>1, <1>4, StillKinds DEF Local
  <2> QED BY <1>2, <1>13, <2>1, LedgerQuiet
<1>22. Local(scenario, db, own2, next)
  BY <1>16, <1>17, <1>18, <1>19, <1>20, <1>21 DEF Local
<1> QED BY <1>1, <1>2, <1>3, <1>22, ContinuesWriting DEF own2, c

-----------------------------------------------------------------------------
\* What is held, when some of it changes.

LEMMA HeldForNat ==
  ASSUME NEW f \in [Rows -> Nat], NEW d \in Orders, NEW p \in Products
  PROVE  /\ HeldFor(f, d, p) \in Nat
         /\ \A n \in 1..NumRows : <<d, p, n>> \in Rows /\ f[<<d, p, n>>] \in Nat
<1> DEFINE F == [n \in 1..NumRows |-> f[<<d, p, n>>]]
<1>1. \A n \in 1..NumRows : <<d, p, n>> \in Rows
  BY DEF Rows
<1>2. \A n \in 1..NumRows : F[n] \in Nat
  BY <1>1
<1>3. NumRows \in Nat /\ NumRows \in 0..NumRows
  BY SizesAssumption
<1> HIDE DEF F
<1>4. SumUpTo(F, NumRows) \in Nat
  BY <1>2, <1>3, SumNat
<1> QED BY <1>1, <1>4 DEF HeldFor, F

LEMMA HeldForSame ==
  ASSUME NEW f \in [Rows -> Nat], NEW g \in [Rows -> Nat], NEW d \in Orders, NEW p \in Products,
         \A n \in 1..NumRows : g[<<d, p, n>>] = f[<<d, p, n>>]
  PROVE  HeldFor(g, d, p) = HeldFor(f, d, p)
<1> DEFINE F == [n \in 1..NumRows |-> f[<<d, p, n>>]]
           G == [n \in 1..NumRows |-> g[<<d, p, n>>]]
<1>1. F = G
  OBVIOUS
<1> QED BY <1>1 DEF HeldFor

\* Products are counted apart from each other.
LEMMA HeldOthers ==
  ASSUME NEW f \in [Rows -> Nat], NEW g \in [Rows -> Nat], NEW p \in Products,
         \A k \in Rows : k[2] = p => g[k] = f[k]
  PROVE  HeldAll(g, p) = HeldAll(f, p)
<1>1. \A d \in Orders : HeldFor(g, d, p) = HeldFor(f, d, p)
  <2> TAKE d \in Orders
  <2>1. \A n \in 1..NumRows : g[<<d, p, n>>] = f[<<d, p, n>>]
    BY DEF Rows
  <2> QED BY <2>1, HeldForSame
<1>2. [d \in Orders |-> HeldFor(g, d, p)] = [d \in Orders |-> HeldFor(f, d, p)]
  BY <1>1
<1> QED BY <1>2 DEF HeldAll

\* The rows of one order change by as much as t says.
RowsLess(f, g, d, p, t) ==
  /\ \A n \in 1..NumRows : t[n] \in Int /\ f[<<d, p, n>>] = g[<<d, p, n>>] + t[n]
  /\ \A k \in Rows : k[1] # d => g[k] = f[k]

LEMMA HeldLess ==
  ASSUME NEW f \in [Rows -> Nat], NEW g \in [Rows -> Nat], NEW d \in Orders, NEW p \in Products,
         NEW t, RowsLess(f, g, d, p, t)
  PROVE  HeldAll(g, p) = HeldAll(f, p) - SumUpTo(t, NumRows) /\ HeldAll(f, p) \in Int
<1> DEFINE F == [n \in 1..NumRows |-> f[<<d, p, n>>]]
           G == [n \in 1..NumRows |-> g[<<d, p, n>>]]
           FF == [e \in Orders |-> HeldFor(f, e, p)]
           GG == [e \in Orders |-> HeldFor(g, e, p)]
<1>1. NumRows \in Nat /\ NumOrders \in Nat /\ d \in 1..NumOrders /\ Orders = 1..NumOrders
  BY SizesAssumption DEF Orders
<1>2. \A n \in 1..NumRows : F[n] \in Int /\ G[n] \in Int /\ t[n] \in Int /\ F[n] = G[n] + t[n]
  BY HeldForNat DEF RowsLess
<1>3. \A e \in 1..NumOrders : FF[e] \in Int /\ GG[e] \in Int /\ (e # d => GG[e] = FF[e])
  <2> TAKE e \in 1..NumOrders
  <2>1. FF[e] \in Nat /\ GG[e] \in Nat
    BY <1>1, HeldForNat
  <2>2. ASSUME e # d
        PROVE  HeldFor(g, e, p) = HeldFor(f, e, p)
    <3>1. \A n \in 1..NumRows : g[<<e, p, n>>] = f[<<e, p, n>>]
      BY <1>1, <2>2 DEF Rows, RowsLess
    <3> QED BY <1>1, <3>1, HeldForSame
  <2> QED BY <1>1, <2>1, <2>2
<1>4. FF[d] = SumUpTo(F, NumRows) /\ GG[d] = SumUpTo(G, NumRows)
  BY DEF HeldFor
<1>5. HeldAll(f, p) = SumUpTo(FF, NumOrders) /\ HeldAll(g, p) = SumUpTo(GG, NumOrders)
  BY DEF HeldAll
<1> HIDE DEF F, G, FF, GG
<1>6. SumUpTo(F, NumRows) = SumUpTo(G, NumRows) + SumUpTo(t, NumRows)
  <2>1. \A i \in 1..NumRows : G[i] \in Int /\ t[i] \in Int /\ F[i] = G[i] + t[i]
    BY <1>2
  <2> QED BY ONLY <1>1, <2>1, SumAdd
<1>7. SumUpTo(GG, NumOrders) = SumUpTo(FF, NumOrders) - FF[d] + GG[d]
  <2>1. \A e \in 1..NumOrders : FF[e] \in Int /\ GG[e] \in Int
    BY <1>3
  <2>2. \A e \in 1..NumOrders : e # d => GG[e] = FF[e]
    BY <1>3
  <2>3. NumOrders \in Nat /\ d \in 1..NumOrders
    BY <1>1
  <2> QED BY ONLY <2>1, <2>2, <2>3, SumPoint
<1>8. SumUpTo(FF, NumOrders) \in Int /\ SumUpTo(t, NumRows) \in Int /\ SumUpTo(G, NumRows) \in Int
  BY <1>1, <1>2, <1>3, SumStep
<1> QED BY <1>4, <1>5, <1>6, <1>7, <1>8

\* One row changes.
LEMMA HeldPoint ==
  ASSUME NEW f \in [Rows -> Nat], NEW g \in [Rows -> Nat], NEW k \in Rows,
         \A j \in Rows : j # k => g[j] = f[j]
  PROVE  /\ HeldAll(g, k[2]) = HeldAll(f, k[2]) - f[k] + g[k]
         /\ \A q \in Products : q # k[2] => HeldAll(g, q) = HeldAll(f, q)
         /\ HeldAll(f, k[2]) \in Int
<1>1. PICK d \in Orders, p \in Products, m \in 1..NumRows : k = <<d, p, m>>
  BY DEF Rows
<1>2. k[1] = d /\ k[2] = p /\ f[k] \in Nat /\ g[k] \in Nat /\ NumRows \in Nat
  BY <1>1, SizesAssumption
<1> DEFINE t == [n \in 1..NumRows |-> IF n = m THEN f[k] - g[k] ELSE 0]
           z == [n \in 1..NumRows |-> 0]
<1>3. \A n \in 1..NumRows : f[<<d, p, n>>] = g[<<d, p, n>>] + t[n] /\ t[n] \in Int
  <2> TAKE n \in 1..NumRows
  <2>1. f[<<d, p, n>>] \in Nat /\ g[<<d, p, n>>] \in Nat /\ <<d, p, n>> \in Rows
    BY HeldForNat
  <2>2. CASE n = m
    BY <1>1, <1>2, <2>2
  <2>3. CASE n # m
    <3>1. <<d, p, n>> # k
      BY <1>1, <2>3
    <3> QED BY <2>1, <2>3, <3>1
  <2> QED BY <2>2, <2>3
<1>4. \A n \in 1..NumRows : z[n] = 0 /\ z[n] \in Int /\ t[n] \in Int /\ (n # m => t[n] = z[n])
  BY <1>3
<1>5. t[m] = f[k] - g[k] /\ z[m] = 0 /\ t[m] \in Int
  BY <1>2
<1> HIDE DEF t, z
<1>6. SumUpTo(t, NumRows) = SumUpTo(z, NumRows) - z[m] + t[m]
  BY <1>2, <1>4, SumPoint
<1>7. SumUpTo(z, NumRows) = 0
  BY <1>2, <1>4, SumZeros
<1>8. \A j \in Rows : j[1] # d => g[j] = f[j]
  BY <1>2
<1>9. HeldAll(g, p) = HeldAll(f, p) - SumUpTo(t, NumRows) /\ HeldAll(f, p) \in Int
  <2>1. RowsLess(f, g, d, p, t)
    BY <1>3, <1>8 DEF RowsLess
  <2> QED BY <2>1, HeldLess
<1>10. HeldAll(g, p) = HeldAll(f, p) - f[k] + g[k]
  BY <1>2, <1>5, <1>6, <1>7, <1>9
<1>11. \A q \in Products : q # p => HeldAll(g, q) = HeldAll(f, q)
  <2> SUFFICES ASSUME NEW q \in Products, q # p
               PROVE  HeldAll(g, q) = HeldAll(f, q)
    OBVIOUS
  <2>1. \A j \in Rows : j[2] = q => g[j] = f[j]
    BY <1>2
  <2> QED BY <2>1, HeldOthers
<1> QED BY <1>2, <1>9, <1>10, <1>11

LEMMA HeldRowsNat ==
  ASSUME TypedBase(db), NEW own, Typed(own)
  PROVE  /\ HeldRows(db, own) \in [Rows -> Nat]
         /\ \A k \in Rows : HeldRows(db, own)[k] = RowHeld(Value(db, own, ReservationRow(k)))
<1>1. \A k \in Rows : RowHeld(Value(db, own, ReservationRow(k))) \in Nat
  BY ValueTypes DEF RowHeld, ReservationRecords
<1> QED BY <1>1 DEF HeldRows

\* What s finds reserved is what is held, as it sees it.
LEMMA ReservedNow ==
  ASSUME TxSound, NEW s \in Sessions, NEW p \in Products, NoJobs(scenario.handlers),
         call[s].handler = "cancel" => Fresh(db, mine[s], call[s])
  PROVE  Read(s, BalanceRow(p)).reserved = HeldAll(HeldRows(db, mine[s]), p)
<1> DEFINE own == mine[s]
<1>1. /\ TxTypes /\ TypedBase(db) /\ Typed(own) /\ Local(scenario, db, own, call[s])
      /\ Locks(DOMAIN own, call[s]) /\ Base(scenario, db) /\ Typed(Nothing)
  BY SoundFacts, TypedRows
<1> HIDE DEF own
<1>2. CASE BalanceRow(p) \in DOMAIN own
  BY <1>1, <1>2 DEF Local, LedgerLocal, Read, own
<1>3. CASE BalanceRow(p) \notin DOMAIN own
  <2>1. \A k \in Rows : k[2] = p => ReservationRow(k) \notin DOMAIN own
    BY <1>1, <1>3 DEF Locks
  <2>2. \A k \in Rows : k[2] = p => Value(db, own, ReservationRow(k)) = Value(db, Nothing, ReservationRow(k))
    BY <2>1 DEF Value, Nothing
  <2>3. HeldRows(db, own) \in [Rows -> Nat] /\ HeldRows(db, Nothing) \in [Rows -> Nat]
    BY <1>1, HeldRowsNat
  <2>4. \A k \in Rows : k[2] = p => HeldRows(db, own)[k] = HeldRows(db, Nothing)[k]
    BY <1>1, <2>2, HeldRowsNat
  <2>5. HeldAll(HeldRows(db, own), p) = HeldAll(HeldRows(db, Nothing), p)
    BY <2>3, <2>4, HeldOthers
  <2> QED BY <1>1, <1>3, <2>5 DEF Base, LedgerBase, Read, own
<1> QED BY <1>2, <1>3

-----------------------------------------------------------------------------
\* Statements that write balances and reservations.

LEMMA GoodsStatement ==
  ASSUME NEW sc, NEW base, NEW own, NEW own2, NEW c, NEW c2, Local(sc, base, own, c),
         Still(own, own2, {"order"}), Goes(c, c2), c.handler # "confirm", c.step # "readOrder",
         c.handler \in Fulfilment => c2.step # "commit",
         Sent(c2) => Sent(c), Sent(c) => c.order \in Orders /\ OrderRow(c.order) \in DOMAIN own,
         GoodsLocal(base, own2, c2), RowsLocal(base, own2, c2),
         ListLocal(sc.handlers, base, own2, c2), LedgerLocal(sc.handlers, base, own2, c2)
  PROVE  Local(sc, base, own2, c2)
<1>1. OrderLocal(base, own2, c2)
  BY OrderQuiet DEF Local
<1>2. MoneyStill(base, own, own2)
  BY StillPlain
<1>3. PaidLocal(base, own2, c2)
  <2>1. /\ PaidLocal(base, own, c) /\ c2.handler = c.handler /\ (c.handler = "deliver" => c2.order = c.order)
        /\ ~Paying(c) /\ ~Paying(c2)
    BY DEF Local, Goes, Paying
  <2> QED BY <1>2, <2>1, PaidQuiet
<1> QED BY <1>1, <1>3 DEF Local

\* A balance is written, and a set of reservations.
LEMMA GoodsWriteStill ==
  ASSUME TxTypes, NEW s \in Sessions, NEW new, Write(s, new), NEW p \in Products, NEW K,
         BalanceRow(p) \in DOMAIN new, \A k \in K : ReservationRow(k) \in DOMAIN new,
         \A r \in DOMAIN new : r = BalanceRow(p) \/ \E k \in K : r = ReservationRow(k)
  PROVE  /\ Still(mine[s], mine'[s], {"order"}) /\ \A z : SameRow(mine[s], mine'[s], ReceiptRow(z))
         /\ \A q : q # p => SameRow(mine[s], mine'[s], BalanceRow(q))
         /\ \A k : k \notin K => SameRow(mine[s], mine'[s], ReservationRow(k))
         /\ BalanceRow(p) \in DOMAIN mine'[s] /\ mine'[s][BalanceRow(p)] = new[BalanceRow(p)]
         /\ \A k \in K : ReservationRow(k) \in DOMAIN mine'[s]
                         /\ mine'[s][ReservationRow(k)] = new[ReservationRow(k)]
<1>1. \A r \in DOMAIN new : r[1] \notin {"order"}
  BY RowKeys
<1>2. /\ \A q : q # p => BalanceRow(q) \notin DOMAIN new
      /\ \A k : k \notin K => ReservationRow(k) \notin DOMAIN new
      /\ \A q : ReceiptRow(q) \notin DOMAIN new
  BY RowKeys
<1>3. Still(mine[s], mine'[s], {"order"})
  BY <1>1, WriteStill
<1> QED BY <1>2, <1>3, WriteStill

LEMMA WriteTyped ==
  ASSUME TxTypes, NEW s \in Sessions, NEW new, Write(s, new), Typed(new)
  PROVE  Typed(mine'[s])
BY LocalFacts, WriteValue, TypedOver

\* Goods that are reserved or released stay on hand.
LEMMA GoodsStay ==
  ASSUME NEW base, NEW own, NEW own2, NEW c, NEW c2, GoodsLocal(base, own, c),
         Still(own, own2, {"order"}), \A z : SameRow(own, own2, ReceiptRow(z)), NEW p \in Products,
         \A q : q # p => SameRow(own, own2, BalanceRow(q)),
         BalanceRow(p) \in DOMAIN own2, Balanced(own2[BalanceRow(p)]),
         own2[BalanceRow(p)].onHand = Value(base, own, BalanceRow(p)).onHand,
         c2.handler = c.handler, c.handler # "deliver", ~Arriving(c), ~Arriving(c2)
  PROVE  GoodsLocal(base, own2, c2)
<1>1. DeliveredStill(base, own, own2)
  BY StillPlain
<1>2. \A q \in Products : /\ OnHand(base, own2, q) = OnHand(base, own, q)
                          /\ CameIn(base, own2, q) = CameIn(base, own, q)
  BY DEF OnHand, CameIn, SameRow, Value
<1>3. \A d \in Orders, q \in Products : SentOut(base, own2, d, q) = SentOut(base, own, d, q)
  BY <1>1 DEF SentOut, DeliveredStill
<1>4. \A d \in Orders, q \in Products :
        SentOut(base, own2, d, q) = IF Sent(c2) /\ d = c2.order THEN c2.quantity[q] ELSE 0
  BY <1>3 DEF GoodsLocal, Sent
<1>5. \A q \in Products :
       /\ BalanceRow(q) \in DOMAIN own2 => Balanced(own2[BalanceRow(q)])
       /\ BalanceRow(q) \in DOMAIN own2 /\ c2.handler = "deliver" => OnHand(base, own2, q) = 0 - c2.quantity[q]
  BY DEF GoodsLocal, SameRow
<1>6. \A q \in Products :
       /\ c2.handler \notin {"deliver", "receive"} => OnHand(base, own2, q) = 0
       /\ c2.handler = "receive" => OnHand(base, own2, q) = IF Arriving(c2) THEN 0 ELSE CameIn(base, own2, q)
       /\ c2.handler = "receive" => CameIn(base, own2, q) >= 0
       /\ Arriving(c2) => CameIn(base, own2, q) = IF q = c2.product THEN ReceiptQuantity ELSE 0
  BY <1>2 DEF GoodsLocal
<1>7. c2.handler = "receive" => \E q \in Products : CameIn(base, own2, q) > 0
  BY <1>2 DEF GoodsLocal
<1> QED BY <1>4, <1>5, <1>6, <1>7 DEF GoodsLocal

\* What s reads of a balance is balanced.
LEMMA BalancedNow ==
  ASSUME TxSound, NEW s \in Sessions, NEW p \in Products
  PROVE  Balanced(Read(s, BalanceRow(p))) /\ Read(s, BalanceRow(p)) \in Balances
<1>1. Local(scenario, db, mine[s], call[s]) /\ Base(scenario, db) /\ TxTypes
  BY SoundFacts
<1>2. Balanced(Read(s, BalanceRow(p)))
  BY <1>1 DEF Read, Local, GoodsLocal, Base, GoodsBase
<1> QED BY <1>1, <1>2, ReadTypes

LEMMA StaysBalanced ==
  ASSUME NEW old \in Balances, NEW new, NEW x \in Nat, Balanced(old)
  PROVE  /\ (BalanceChanged(old, new, 0, x, 0 - x) /\ x <= old.available) => Balanced(new) /\ new.onHand = old.onHand
              /\ new.reserved = old.reserved + x
         /\ BalanceChanged(old, new, 0, 0 - x, x) => Balanced(new) /\ new.onHand = old.onHand
                                                     /\ new.reserved = old.reserved - x
         /\ BalanceChanged(old, new, 0 - x, 0 - x, 0) => Balanced(new) /\ new.onHand = old.onHand - x
                                                         /\ new.reserved = old.reserved - x
         /\ BalanceChanged(old, new, x, 0, x) => Balanced(new) /\ new.onHand = old.onHand + x
                                                 /\ new.reserved = old.reserved
<1>1. old.onHand \in Int /\ old.reserved \in Int /\ old.available \in Int
  BY DEF Balances
<1> QED BY <1>1 DEF BalanceChanged, Balanced

LEMMA ClaimSound ==
  ASSUME TxSound, NEW s \in Sessions, Claim(s)
  PROVE  Continues(s)
<1> DEFINE c == call[s]
           own == mine[s]
           own2 == mine'[s]
           p == c.product
           d == c.order
           q == scenario.items[d][p]
           b == Read(s, BalanceRow(p))
<1>1. /\ TxTypes /\ TypedBase(db) /\ Typed(own) /\ Local(scenario, db, own, c) /\ Locks(DOMAIN own, c)
      /\ StepsOf(c) /\ c \in CallRecords
  BY SoundFacts
<1>2. /\ c.step = "claim" /\ p \in Products /\ d \in Orders /\ p \in c.products
      /\ q \in Nat /\ b \in Balances /\ q <= b.available /\ UNCHANGED <<db, scenario>>
  BY ZenonT(60), <1>1, ClaimEffect
<1>3. PICK step \in {"reserve", "commit", "promise"} : Keep(s, [c EXCEPT !.products = c.products \ {p}, !.step = step])
  <2>1. Keep(s, [c EXCEPT !.products = @ \ {p}, !.step = IF c.products = {p} THEN Reserved(s) ELSE "reserve"])
    BY <1>1, ClaimEffect
  <2>2. Reserved(s) \in {"commit", "promise"}
    BY DEF Reserved
  <2> QED BY <2>1, <2>2
<1>b. PICK n \in 1..NumRows : \E new :
        /\ Unused(<<d, p, n>>) /\ <<d, p, n>> \in Rows
        /\ Write(s, new) /\ Typed(new)
        /\ DOMAIN new = {BalanceRow(p), ReservationRow(<<d, p, n>>)}
        /\ BalanceChanged(b, new[BalanceRow(p)], 0, q, 0 - q)
        /\ new[ReservationRow(<<d, p, n>>)] = [quantity |-> q, status |-> "ACTIVE", old |-> FALSE]
  BY ZenonT(60), <1>1, ClaimEffect
<1>4. PICK new :
        /\ Unused(<<d, p, n>>) /\ <<d, p, n>> \in Rows
        /\ Write(s, new) /\ Typed(new)
        /\ DOMAIN new = {BalanceRow(p), ReservationRow(<<d, p, n>>)}
        /\ BalanceChanged(b, new[BalanceRow(p)], 0, q, 0 - q)
        /\ new[ReservationRow(<<d, p, n>>)] = [quantity |-> q, status |-> "ACTIVE", old |-> FALSE]
  BY ZenonT(60), <1>b
<1> DEFINE k == <<d, p, n>>
           next == [c EXCEPT !.products = c.products \ {p}, !.step = step]
<1>5. /\ BalanceRow(p) \in DOMAIN new /\ \A j \in {k} : ReservationRow(j) \in DOMAIN new
      /\ \A r \in DOMAIN new : r = BalanceRow(p) \/ \E j \in {k} : r = ReservationRow(j)
  BY <1>4
<1>6. /\ Still(own, own2, {"order"}) /\ \A z : SameRow(own, own2, ReceiptRow(z))
      /\ \A x : x # p => SameRow(own, own2, BalanceRow(x))
      /\ \A j : j # k => SameRow(own, own2, ReservationRow(j))
      /\ BalanceRow(p) \in DOMAIN own2 /\ own2[BalanceRow(p)] = new[BalanceRow(p)]
      /\ ReservationRow(k) \in DOMAIN own2 /\ own2[ReservationRow(k)] = new[ReservationRow(k)]
      /\ Typed(own2)
  <2>1. Typed(own2)
    BY <1>1, <1>4, WriteTyped
  <2> DEFINE K == {k}
  <2>2. k \in K /\ \A j : j # k => j \notin K
    OBVIOUS
  <2>3. /\ BalanceRow(p) \in DOMAIN new /\ \A j \in K : ReservationRow(j) \in DOMAIN new
        /\ \A r \in DOMAIN new : r = BalanceRow(p) \/ \E j \in K : r = ReservationRow(j)
    BY <1>5
  <2>4. TxTypes /\ s \in Sessions /\ Write(s, new) /\ p \in Products
    BY <1>1, <1>2, <1>4
  <2> HIDE DEF K, k, p
  <2>5. /\ Still(mine[s], mine'[s], {"order"}) /\ \A z : SameRow(mine[s], mine'[s], ReceiptRow(z))
        /\ \A x : x # p => SameRow(mine[s], mine'[s], BalanceRow(x))
        /\ \A j : j \notin K => SameRow(mine[s], mine'[s], ReservationRow(j))
        /\ BalanceRow(p) \in DOMAIN mine'[s] /\ mine'[s][BalanceRow(p)] = new[BalanceRow(p)]
        /\ \A j \in K : ReservationRow(j) \in DOMAIN mine'[s]
                        /\ mine'[s][ReservationRow(j)] = new[ReservationRow(j)]
    BY ONLY <2>3, <2>4, GoodsWriteStill
  <2> QED BY ONLY <2>1, <2>2, <2>5
<1>7. /\ Balanced(own2[BalanceRow(p)]) /\ own2[BalanceRow(p)].onHand = Value(db, own, BalanceRow(p)).onHand
      /\ own2[BalanceRow(p)].reserved = b.reserved + q
  <2>1. b = Value(db, own, BalanceRow(p)) /\ Balanced(b) /\ q \in Nat /\ q <= b.available
    BY <1>1, <1>2, ReadTypes, BalancedNow
  <2> DEFINE nb == new[BalanceRow(p)]
  <2>2. BalanceChanged(b, nb, 0, q, 0 - q) /\ b \in Balances
    BY <1>2, <1>4
  <2>3. nb = own2[BalanceRow(p)]
    BY <1>6
  <2> HIDE DEF b, q, nb
  <2>4. Balanced(nb) /\ nb.onHand = b.onHand /\ nb.reserved = b.reserved + q
    BY ONLY <2>1, <2>2, StaysBalanced
  <2> QED BY <2>1, <2>3, <2>4
<1>8. k \in Rows /\ k[1] = d /\ k[2] = p /\ db[ReservationRow(k)].status = "NONE" /\ ReservationRow(k) \notin DOMAIN own
  BY <1>4 DEF Unused
<1>9. NoJobs(scenario.handlers) => b.reserved = HeldAll(HeldRows(db, own), p)
  <2>1. c.handler # "cancel"
    BY <1>1, <1>2 DEF StepsOf
  <2> QED BY <1>2, <2>1, ReservedNow
<1>a. new[ReservationRow(k)].status = "ACTIVE" /\ new[ReservationRow(k)].quantity = q /\ b.reserved \in Int
  BY <1>2, <1>4 DEF Balances
<1> HIDE DEF c, own, own2, k, b, q, p, d
<1>10. /\ Goes(c, next) /\ next.handler = c.handler /\ next.order = c.order /\ next.step = step
       /\ c.handler \in {"create", "receive"}
       /\ ~Sent(c) /\ ~Sent(next) /\ ~Arriving(c) /\ ~Arriving(next)
  BY <1>1, <1>2, <1>3 DEF CallRecords, Goes, Sent, Arriving, StepsOf
<1>11. GoodsLocal(db, own2, next)
  BY <1>1, <1>2, <1>6, <1>7, <1>10, GoodsStay DEF Local
<1>12. RowsLocal(db, own2, next)
  BY <1>1, <1>6, <1>8, <1>10 DEF Local, RowsLocal, SameRow, d, Releasing
<1>13. ListLocal(scenario.handlers, db, own2, next)
  BY <1>10, ListOther
<1>14. LedgerLocal(scenario.handlers, db, own2, next)
  <2> DEFINE f == HeldRows(db, own)
             g == HeldRows(db, own2)
  <2>1. f \in [Rows -> Nat] /\ g \in [Rows -> Nat]
    BY <1>1, <1>6, HeldRowsNat
  <2>2. f[k] = 0 /\ g[k] = q
    BY <1>1, <1>6, <1>8, <1>a, HeldRowsNat DEF Value, RowHeld
  <2>3. \A j \in Rows : j # k => g[j] = f[j]
    BY <1>1, <1>6, HeldRowsNat DEF Value, SameRow
  <2>4. LedgerLocal(scenario.handlers, db, own, c)
    BY <1>1 DEF Local
  <2> HIDE DEF f, g
  <2>5. /\ HeldAll(g, p) = HeldAll(f, p) + q /\ \A x \in Products : x # p => HeldAll(g, x) = HeldAll(f, x)
    <3>1. HeldAll(g, p) = HeldAll(f, p) - f[k] + g[k] /\ HeldAll(f, p) \in Int
      BY <1>8, <2>1, <2>3, HeldPoint
    <3> QED BY <1>2, <1>8, <2>1, <2>2, <2>3, <3>1, HeldPoint
  <2>6. ASSUME NoJobs(scenario.handlers), NEW x \in Products, BalanceRow(x) \in DOMAIN own2
        PROVE  own2[BalanceRow(x)].reserved = HeldAll(g, x)
    <3>1. CASE x = p
      BY <1>7, <1>9, <2>5, <2>6, <3>1 DEF f
    <3>2. CASE x # p
      BY <1>6, <1>10, <2>4, <2>5, <2>6, <3>2 DEF LedgerLocal, SameRow, f
    <3> QED BY <3>1, <3>2
  <2> QED BY <1>3, <1>10, <2>4, <2>6 DEF LedgerLocal, g
<1>15. Local(scenario, db, own2, next)
  BY <1>1, <1>2, <1>6, <1>10, <1>11, <1>12, <1>13, <1>14, GoodsStatement DEF Fulfilment
<1> QED BY <1>1, <1>2, <1>3, <1>4, <1>15, ContinuesWriting DEF own2, c, p

LEMMA GiveBackSound ==
  ASSUME TxSound, NEW s \in Sessions, GiveBack(s)
  PROVE  Rollback(s) \/ Continues(s)
<1> SUFFICES ASSUME ~Rollback(s)
             PROVE  Continues(s)
  OBVIOUS
<1> DEFINE c == call[s]
           own == mine[s]
           own2 == mine'[s]
           k == c.row
           p == k[2]
           rows == c.rows
           q == rows[k]
           b == Read(s, BalanceRow(p))
           rest == [j \in DOMAIN rows \ {k} |-> rows[j]]
           next == [c EXCEPT !.rows = rest, !.step = "release"]
<1>1. /\ TxTypes /\ TypedBase(db) /\ Typed(own) /\ Local(scenario, db, own, c) /\ Locks(DOMAIN own, c)
      /\ StepsOf(c) /\ Memory(c) /\ c \in CallRecords
  BY SoundFacts
<1>2. /\ c.step = "giveBack" /\ k \in DOMAIN rows /\ k \in Rows /\ p \in Products
      /\ q \in Nat /\ b \in Balances /\ UNCHANGED <<db, scenario>> /\ Keep(s, next)
  BY ZenonT(60), <1>1, GiveBackEffect
<1>3. PICK new : /\ Write(s, new) /\ Typed(new)
                 /\ DOMAIN new = {BalanceRow(p), ReservationRow(k)}
                 /\ BalanceChanged(b, new[BalanceRow(p)], 0, 0 - q, q)
                 /\ new[ReservationRow(k)].status = "RELEASED"
  BY ZenonT(60), <1>1, GiveBackEffect
<1>4. /\ Still(own, own2, {"order"}) /\ \A z : SameRow(own, own2, ReceiptRow(z))
      /\ \A x : x # p => SameRow(own, own2, BalanceRow(x))
      /\ \A j : j # k => SameRow(own, own2, ReservationRow(j))
      /\ BalanceRow(p) \in DOMAIN own2 /\ own2[BalanceRow(p)] = new[BalanceRow(p)]
      /\ ReservationRow(k) \in DOMAIN own2 /\ own2[ReservationRow(k)] = new[ReservationRow(k)]
      /\ Typed(own2)
  <2>1. Typed(own2)
    BY <1>1, <1>3, WriteTyped
  <2> DEFINE K == {k}
  <2>2. k \in K /\ \A j : j # k => j \notin K
    OBVIOUS
  <2>3. /\ BalanceRow(p) \in DOMAIN new /\ \A j \in K : ReservationRow(j) \in DOMAIN new
        /\ \A r \in DOMAIN new : r = BalanceRow(p) \/ \E j \in K : r = ReservationRow(j)
    BY <1>3
  <2>4. TxTypes /\ s \in Sessions /\ Write(s, new) /\ p \in Products
    BY <1>1, <1>2, <1>3
  <2> HIDE DEF K, k, p
  <2>5. /\ Still(mine[s], mine'[s], {"order"}) /\ \A z : SameRow(mine[s], mine'[s], ReceiptRow(z))
        /\ \A x : x # p => SameRow(mine[s], mine'[s], BalanceRow(x))
        /\ \A j : j \notin K => SameRow(mine[s], mine'[s], ReservationRow(j))
        /\ BalanceRow(p) \in DOMAIN mine'[s] /\ mine'[s][BalanceRow(p)] = new[BalanceRow(p)]
        /\ \A j \in K : ReservationRow(j) \in DOMAIN mine'[s]
                        /\ mine'[s][ReservationRow(j)] = new[ReservationRow(j)]
    BY ONLY <2>3, <2>4, GoodsWriteStill
  <2> QED BY ONLY <2>1, <2>2, <2>5
<1>5. /\ Balanced(own2[BalanceRow(p)]) /\ own2[BalanceRow(p)].onHand = Value(db, own, BalanceRow(p)).onHand
      /\ own2[BalanceRow(p)].reserved = b.reserved - q
  <2>1. b = Value(db, own, BalanceRow(p)) /\ Balanced(b) /\ q \in Nat
    BY <1>1, <1>2, ReadTypes, BalancedNow
  <2> DEFINE nb == new[BalanceRow(p)]
  <2>2. BalanceChanged(b, nb, 0, 0 - q, q) /\ b \in Balances
    BY <1>2, <1>3
  <2>3. nb = own2[BalanceRow(p)]
    BY <1>4
  <2> HIDE DEF b, q, nb
  <2>4. Balanced(nb) /\ nb.onHand = b.onHand /\ nb.reserved = b.reserved - q
    BY ONLY <2>1, <2>2, StaysBalanced
  <2> QED BY <2>1, <2>3, <2>4
<1>6. NoJobs(scenario.handlers) /\ (c.handler = "cancel" => Fresh(db, own, c)) =>
        b.reserved = HeldAll(HeldRows(db, own), p) /\ b.reserved \in Int
  BY <1>2, ReservedNow DEF Balances
<1>7. k[1] = c.order /\ c.handler \in Releasing
  BY <1>1, <1>2 DEF Memory, StepsOf
<1>8. own2[ReservationRow(k)].status = "RELEASED" /\ DOMAIN rest = DOMAIN rows \ {k}
      /\ \A j \in DOMAIN rest : rest[j] = rows[j]
  BY <1>3, <1>4
<1> HIDE DEF c, own, own2, k, p, b, q, rows, rest
<1>9. /\ Goes(c, next) /\ next.handler = c.handler /\ next.order = c.order /\ next.step = "release"
      /\ next.rows = rest /\ next.version = c.version
      /\ c.handler \notin Fulfilment /\ c.handler \notin {"receive", "confirm", "deliver"}
      /\ ~Sent(c) /\ ~Sent(next) /\ ~Arriving(c) /\ ~Arriving(next)
  BY <1>1, <1>2, <1>7 DEF CallRecords, Goes, Sent, Arriving, Releasing, Fulfilment
<1>10. Fresh(db, own2, next) <=> Fresh(db, own, c)
  BY <1>2, <1>9 DEF Fresh
<1>11. GoodsLocal(db, own2, next)
  BY <1>1, <1>2, <1>4, <1>5, <1>9, GoodsStay DEF Local
<1>12. RowsLocal(db, own2, next)
  BY <1>1, <1>4, <1>7, <1>8, <1>9 DEF Local, RowsLocal, SameRow, Releasing
<1>13. ListLocal(scenario.handlers, db, own2, next)
  <2>1. ListLocal(scenario.handlers, db, own, c) /\ rows = c.rows
    BY <1>1 DEF Local, rows
  <2>2. next.handler \in {"cancel", "ttl"} => \A j \in DOMAIN rest : ReservationRow(j) \notin DOMAIN own2
    BY <1>4, <1>8, <1>9, <2>1 DEF ListLocal, SameRow
  <2>3. next.handler = "cancel" /\ NoJobs(scenario.handlers) /\ Fresh(db, own2, next) =>
          \A j \in DOMAIN rest : db[ReservationRow(j)].status = "ACTIVE" /\ db[ReservationRow(j)].quantity = rest[j]
    BY <1>8, <1>9, <1>10, <2>1 DEF ListLocal
  <2>4. ASSUME next.handler \in {"cancel", "ttl"}, NoReceipts(db), Fresh(db, own2, next),
               NEW j \in Rows, j[1] = next.order, Value(db, own2, ReservationRow(j)).status = "ACTIVE"
        PROVE  j \in DOMAIN rest
    <3>1. j # k
      BY <1>4, <1>8, <2>4 DEF Value
    <3>2. Value(db, own, ReservationRow(j)).status = "ACTIVE"
      BY <1>4, <2>4, <3>1 DEF Value, SameRow
    <3> QED BY <1>2, <1>8, <1>9, <1>10, <2>1, <2>4, <3>1, <3>2 DEF ListLocal
  <2> QED BY <1>9, <2>2, <2>3, <2>4 DEF ListLocal
<1>14. LedgerLocal(scenario.handlers, db, own2, next)
  <2> DEFINE f == HeldRows(db, own)
             g == HeldRows(db, own2)
  <2>1. f \in [Rows -> Nat] /\ g \in [Rows -> Nat]
    BY <1>1, <1>4, HeldRowsNat
  <2>2. \A j \in Rows : j # k => g[j] = f[j]
    BY <1>1, <1>4, HeldRowsNat DEF Value, SameRow
  <2>3. g[k] = 0
    BY <1>1, <1>2, <1>4, <1>8, HeldRowsNat DEF Value, RowHeld
  <2>4. LedgerLocal(scenario.handlers, db, own, c) /\ ListLocal(scenario.handlers, db, own, c)
    BY <1>1 DEF Local
  <2>5. ASSUME NoJobs(scenario.handlers), c.handler = "cancel" => Fresh(db, own, c)
        PROVE  f[k] = q /\ c.handler = "cancel"
    <3>1. c.handler = "cancel"
      BY <1>7, <2>4, <2>5 DEF LedgerLocal, NoJobs, Releasing
    <3>2. /\ ReservationRow(k) \notin DOMAIN own
          /\ db[ReservationRow(k)].status = "ACTIVE" /\ db[ReservationRow(k)].quantity = q
      BY <1>2, <2>4, <2>5, <3>1 DEF ListLocal, rows, q
    <3> QED BY <1>1, <1>2, <3>1, <3>2, HeldRowsNat DEF Value, RowHeld
  <2> HIDE DEF f, g
  <2>6. /\ HeldAll(g, p) = HeldAll(f, p) - f[k] + g[k] /\ HeldAll(f, p) \in Int
        /\ \A x \in Products : x # p => HeldAll(g, x) = HeldAll(f, x)
    BY <1>2, <2>1, <2>2, HeldPoint DEF p
  <2>7. ASSUME NoJobs(scenario.handlers), next.handler = "cancel" => Fresh(db, own2, next),
               NEW x \in Products, BalanceRow(x) \in DOMAIN own2
        PROVE  own2[BalanceRow(x)].reserved = HeldAll(g, x)
    <3>1. c.handler = "cancel" => Fresh(db, own, c)
      BY <1>9, <1>10, <2>7
    <3>2. CASE x = p
      <4>1. f[k] = q /\ b.reserved = HeldAll(f, p) /\ b.reserved \in Int
        BY <1>6, <2>5, <2>7, <3>1 DEF f
      <4> QED BY <1>2, <1>5, <2>3, <2>6, <3>2, <4>1
    <3>3. CASE x # p
      BY <1>4, <2>4, <2>6, <2>7, <3>1, <3>3 DEF LedgerLocal, SameRow, f
    <3> QED BY <3>2, <3>3
  <2> QED BY <1>9, <2>4, <2>7 DEF LedgerLocal, g
<1>15. Local(scenario, db, own2, next)
  BY <1>1, <1>2, <1>4, <1>9, <1>11, <1>12, <1>13, <1>14, GoodsStatement
<1> QED BY <1>1, <1>2, <1>3, <1>15, ContinuesWriting DEF own2, c, rest, rows, k

LEMMA PutSound ==
  ASSUME TxSound, NEW s \in Sessions, Put(s)
  PROVE  Rollback(s) \/ Continues(s)
<1> SUFFICES ASSUME ~Rollback(s)
             PROVE  Continues(s)
  OBVIOUS
<1> DEFINE c == call[s]
           own == mine[s]
           own2 == mine'[s]
           p == c.product
           b == Read(s, BalanceRow(p))
           next == [c EXCEPT !.step = "list"]
<1>1. /\ TxTypes /\ TypedBase(db) /\ Typed(own) /\ Local(scenario, db, own, c) /\ Locks(DOMAIN own, c)
      /\ StepsOf(c) /\ Memory(c) /\ c \in CallRecords
  BY SoundFacts
<1>2. /\ c.step = "put" /\ p \in Products /\ c.handler = "receive" /\ b \in Balances
      /\ UNCHANGED <<db, scenario>> /\ Keep(s, next)
  BY <1>1, PutEffect DEF Go
<1>3. PICK new : /\ Write(s, new) /\ Typed(new) /\ DOMAIN new = {BalanceRow(p)}
                 /\ BalanceChanged(b, new[BalanceRow(p)], ReceiptQuantity, 0, ReceiptQuantity)
  BY <1>1, <1>2, PutEffect
<1>4. /\ Still(own, own2, {"order"}) /\ \A z : SameRow(own, own2, ReceiptRow(z))
      /\ \A x : x # p => SameRow(own, own2, BalanceRow(x))
      /\ \A j : SameRow(own, own2, ReservationRow(j))
      /\ BalanceRow(p) \in DOMAIN own2 /\ own2[BalanceRow(p)] = new[BalanceRow(p)]
      /\ Typed(own2)
  <2>1. Typed(own2)
    BY <1>1, <1>3, WriteTyped
  <2> DEFINE K == {}
  <2>2. \A j : j \notin K
    OBVIOUS
  <2>3. /\ BalanceRow(p) \in DOMAIN new /\ \A j \in K : ReservationRow(j) \in DOMAIN new
        /\ \A r \in DOMAIN new : r = BalanceRow(p) \/ \E j \in K : r = ReservationRow(j)
    BY <1>3
  <2>4. TxTypes /\ s \in Sessions /\ Write(s, new) /\ p \in Products
    BY <1>1, <1>2, <1>3
  <2> HIDE DEF K, p
  <2> QED BY ONLY <2>1, <2>2, <2>3, <2>4, GoodsWriteStill
<1>5. ReceiptQuantity \in Int /\ ReceiptQuantity \in Nat /\ ReceiptQuantity > 0
  BY SizesAssumption
<1>6. \A x \in Products : BalanceRow(x) \notin DOMAIN own
  BY <1>1, <1>2 DEF Locks
<1>7. b = db[BalanceRow(p)] /\ Balanced(b) /\ b.onHand \in Int
  BY <1>2, <1>6, BalancedNow DEF Read, Balances
<1>8. /\ Balanced(own2[BalanceRow(p)]) /\ own2[BalanceRow(p)].onHand = b.onHand + ReceiptQuantity
      /\ own2[BalanceRow(p)].reserved = b.reserved
  <2> HIDE DEF b, own2
  <2> QED BY <1>2, <1>3, <1>4, <1>5, <1>7, StaysBalanced
<1>9. NoJobs(scenario.handlers) => b.reserved = HeldAll(HeldRows(db, own), p)
  BY <1>2, ReservedNow
<1>10. Still(own, own2, {"reservation"})
  <2>1. \A r : r[1] = "reservation" => SameRow(own, own2, r)
    <3> SUFFICES ASSUME NEW r, r[1] = "reservation"
                 PROVE  SameRow(own, own2, r)
      OBVIOUS
    <3>1. r \notin DOMAIN new
      BY <1>3, RowKeys
    <3> QED BY <1>1, <1>3, <3>1, WriteStill
  <2> QED BY <2>1 DEF Still
<1> HIDE DEF c, own, own2, b, p
<1>11. /\ Goes(c, next) /\ next.handler = "receive" /\ next.order = c.order /\ next.step = "list"
       /\ ~Sent(c) /\ ~Sent(next) /\ Arriving(c) /\ ~Arriving(next)
  BY <1>1, <1>2 DEF CallRecords, Goes, Sent, Arriving
<1>12. GoodsLocal(db, own2, next)
  <2>1. GoodsLocal(db, own, c) /\ DeliveredStill(db, own, own2)
    BY <1>1, <1>4, StillPlain DEF Local
  <2>2. \A x \in Products : CameIn(db, own2, x) = CameIn(db, own, x)
    BY <1>4 DEF CameIn, SameRow, Value
  <2>3. \A x \in Products : CameIn(db, own2, x) = IF x = p THEN ReceiptQuantity ELSE 0
    BY <1>11, <2>1, <2>2 DEF GoodsLocal, p
  <2>4. \A x \in Products : OnHand(db, own2, x) = IF x = p THEN ReceiptQuantity ELSE 0
    <3> TAKE x \in Products
    <3>1. CASE x = p
      BY <1>4, <1>5, <1>7, <1>8, <3>1 DEF OnHand, Value
    <3>2. CASE x # p
      <4>1. db[BalanceRow(x)].onHand \in Int
        BY <1>1, ValueTypes DEF Balances
      <4> QED BY <1>4, <1>6, <3>2, <4>1 DEF OnHand, Value, SameRow
    <3> QED BY <3>1, <3>2
  <2>5. \A x \in Products : BalanceRow(x) \in DOMAIN own2 => Balanced(own2[BalanceRow(x)])
    BY <1>4, <1>6, <1>8 DEF SameRow
  <2>6. \A d \in Orders, x \in Products : SentOut(db, own2, d, x) = 0
    BY <1>11, <2>1 DEF GoodsLocal, SentOut, DeliveredStill
  <2>7. \E x \in Products : CameIn(db, own2, x) > 0
    BY <1>2, <1>5, <2>3
  <2> QED BY <1>5, <1>11, <2>3, <2>4, <2>5, <2>6, <2>7 DEF GoodsLocal
<1>13. RowsLocal(db, own2, next)
  BY <1>1, <1>10, <1>11, RowsQuiet DEF Local
<1>14. ListLocal(scenario.handlers, db, own2, next)
  BY <1>11, ListOther
<1>15. LedgerLocal(scenario.handlers, db, own2, next)
  <2>1. HeldRows(db, own2) = HeldRows(db, own)
    BY <1>10, HeldSame
  <2>2. LedgerLocal(scenario.handlers, db, own, c)
    BY <1>1 DEF Local
  <2> QED BY <1>2, <1>4, <1>6, <1>8, <1>9, <1>11, <2>1, <2>2 DEF LedgerLocal, SameRow
<1>16. Local(scenario, db, own2, next)
  BY <1>1, <1>2, <1>4, <1>11, <1>12, <1>13, <1>14, <1>15, GoodsStatement DEF Fulfilment
<1> QED BY <1>1, <1>2, <1>3, <1>16, ContinuesWriting DEF own2, c

\* What is taken from the listed rows is the quantity, if they have so much.
TakenRows(rows, d, p, q) ==
  [n \in 1..NumRows |-> IF <<d, p, n>> \in DOMAIN rows THEN Taken(rows, <<d, p, n>>, q) ELSE 0]

LEMMA TakenTotal ==
  ASSUME NEW rows, DOMAIN rows \subseteq Rows, \A j \in DOMAIN rows : rows[j] \in Nat,
         NEW d \in Orders, NEW p \in Products, NEW q \in Nat,
         SumUpTo(Listed(rows, d, p), NumRows) >= q
  PROVE  SumUpTo(TakenRows(rows, d, p, q), NumRows) = q
<1> DEFINE f == Listed(rows, d, p)
           t == TakenRows(rows, d, p, q)
<1>1. NumRows \in Nat
  BY SizesAssumption
<1>2. \A n \in 1..NumRows : f[n] \in Nat
  BY DEF Listed
<1>3. \A n \in 1..NumRows : <<d, p, n>> \notin DOMAIN rows => f[n] = 0
  BY DEF Listed
<1>4. \A n \in 1..NumRows : <<d, p, n>> \in DOMAIN rows => f[n] = rows[<<d, p, n>>]
  BY DEF Listed
<1>5. \A n \in 1..NumRows : SumUpTo(f, n - 1) \in Nat
  <2> TAKE n \in 1..NumRows
  <2>1. n - 1 \in 0..NumRows
    BY <1>1
  <2> HIDE DEF f
  <2> QED BY <1>1, <1>2, <2>1, SumNat
<1>6. ASSUME NEW n \in 1..NumRows
      PROVE  t[n] = LET before == SumUpTo(f, n - 1)
                    IN  IF before >= q THEN 0 ELSE AtMost(f[n], q - before)
  <2> DEFINE before == SumUpTo(f, n - 1)
  <2>1. CASE <<d, p, n>> \in DOMAIN rows
    <3>1. t[n] = Taken(rows, <<d, p, n>>, q)
      BY <2>1 DEF TakenRows
    <3>2. Taken(rows, <<d, p, n>>, q) = IF before >= q THEN 0 ELSE AtMost(rows[<<d, p, n>>], q - before)
      BY DEF Taken
    <3> QED BY <1>4, <2>1, <3>1, <3>2
  <2>2. CASE <<d, p, n>> \notin DOMAIN rows
    <3>1. t[n] = 0
      BY <2>2 DEF TakenRows
    <3>2. f[n] = 0 /\ before \in Nat
      BY <1>3, <1>5, <2>2
    <3> HIDE DEF before, f, t
    <3>3. before >= q \/ AtMost(f[n], q - before) = 0
      BY <3>2 DEF AtMost
    <3> QED BY <3>1, <3>3 DEF before
  <2> QED BY <2>1, <2>2
<1>7. SumUpTo(f, NumRows) \in Nat /\ SumUpTo(f, NumRows) >= q
  <2>1. NumRows \in 0..NumRows
    BY <1>1
  <2>2. SumUpTo(f, NumRows) >= q
    OBVIOUS
  <2> HIDE DEF f
  <2> QED BY <1>1, <1>2, <2>1, <2>2, SumNat
<1> HIDE DEF f, t
<1>8. SumUpTo(t, NumRows) = AtMost(SumUpTo(f, NumRows), q)
  BY ONLY <1>1, <1>2, <1>6, q \in Nat, SumConsume
<1>9. SumUpTo(t, NumRows) = q
  BY <1>7, <1>8 DEF AtMost
<1> QED BY <1>9 DEF t

LEMMA ConsumeSound ==
  ASSUME TxSound, NEW s \in Sessions, Consume(s)
  PROVE  Rollback(s) \/ Continues(s)
<1> SUFFICES ASSUME ~Rollback(s)
             PROVE  Continues(s)
  OBVIOUS
<1> DEFINE c == call[s]
           own == mine[s]
           own2 == mine'[s]
           d == c.order
           p == c.product
           q == c.quantity[p]
           rows == c.rows
           used == {k \in DOMAIN rows : Taken(rows, k, q) > 0}
           rest(k) == rows[k] - Taken(rows, k, q)
           b == Read(s, BalanceRow(p))
           next == [c EXCEPT !.products = c.products \ {p}, !.step = "goods"]
<1>1. /\ TxTypes /\ TypedBase(db) /\ Typed(own) /\ Local(scenario, db, own, c) /\ Locks(DOMAIN own, c)
      /\ StepsOf(c) /\ Memory(c) /\ c \in CallRecords
  BY SoundFacts
<1>2. /\ c.step = "consume" /\ p \in Products /\ p \in c.products /\ q \in Nat
      /\ b \in Balances /\ used \subseteq Rows /\ c.handler = "deliver" /\ d \in Orders
      /\ UNCHANGED <<db, scenario>> /\ Keep(s, next)
      /\ \A k \in used : Unchanged(s, k)
  BY ZenonT(60), <1>1, ConsumeEffect
<1>3. PICK new : /\ Write(s, new) /\ Typed(new)
                 /\ DOMAIN new = {BalanceRow(p)} \cup {ReservationRow(k) : k \in used}
                 /\ BalanceChanged(b, new[BalanceRow(p)], 0 - q, 0 - q, 0)
                 /\ \A k \in used :
                      /\ rest(k) \in Nat
                      /\ new[ReservationRow(k)].status = IF rest(k) = 0 THEN "FULFILLED" ELSE "ACTIVE"
                      /\ rest(k) # 0 => new[ReservationRow(k)].quantity = rest(k)
  BY ZenonT(60), <1>1, ConsumeEffect
<1>4. /\ Still(own, own2, {"order"}) /\ \A z : SameRow(own, own2, ReceiptRow(z))
      /\ \A x : x # p => SameRow(own, own2, BalanceRow(x))
      /\ \A j : j \notin used => SameRow(own, own2, ReservationRow(j))
      /\ BalanceRow(p) \in DOMAIN own2 /\ own2[BalanceRow(p)] = new[BalanceRow(p)]
      /\ \A j \in used : ReservationRow(j) \in DOMAIN own2 /\ own2[ReservationRow(j)] = new[ReservationRow(j)]
      /\ Typed(own2)
  <2>1. Typed(own2)
    BY <1>1, <1>3, WriteTyped
  <2>2. /\ BalanceRow(p) \in DOMAIN new /\ \A j \in used : ReservationRow(j) \in DOMAIN new
        /\ \A r \in DOMAIN new : r = BalanceRow(p) \/ \E j \in used : r = ReservationRow(j)
    BY <1>3
  <2>3. TxTypes /\ s \in Sessions /\ Write(s, new) /\ p \in Products
    BY <1>1, <1>2, <1>3
  <2> HIDE DEF used, p
  <2> QED BY ONLY <2>1, <2>2, <2>3, GoodsWriteStill
<1>5. /\ Balanced(own2[BalanceRow(p)]) /\ own2[BalanceRow(p)].onHand = b.onHand - q
      /\ own2[BalanceRow(p)].reserved = b.reserved - q
  <2>1. Balanced(b) /\ q \in Nat
    BY <1>1, <1>2, BalancedNow
  <2> DEFINE nb == new[BalanceRow(p)]
  <2>2. BalanceChanged(b, nb, 0 - q, 0 - q, 0) /\ b \in Balances
    BY <1>2, <1>3
  <2>3. nb = own2[BalanceRow(p)]
    BY <1>4
  <2> HIDE DEF b, q, nb
  <2>4. Balanced(nb) /\ nb.onHand = b.onHand - q /\ nb.reserved = b.reserved - q
    BY ONLY <2>1, <2>2, StaysBalanced
  <2> QED BY <2>3, <2>4
<1>6. BalanceRow(p) \notin DOMAIN own
  BY <1>1, <1>2 DEF Locks
<1>7. b = db[BalanceRow(p)] /\ b.onHand \in Int /\ b.reserved \in Int
  BY <1>2, <1>6 DEF Read, Balances
<1>8. NoJobs(scenario.handlers) => b.reserved = HeldAll(HeldRows(db, own), p)
  BY <1>2, ReservedNow
<1>9. \A k \in used : /\ k \in Rows /\ k[1] = d /\ k[2] = p /\ k \in DOMAIN rows
                      /\ ReservationRow(k) \notin DOMAIN own
                      /\ db[ReservationRow(k)].status = "ACTIVE" /\ db[ReservationRow(k)].quantity = rows[k]
  <2> TAKE k \in used
  <2>1. k \in Rows /\ k \in DOMAIN rows
    BY <1>2
  <2>2. k[1] = d /\ k[2] = p
    BY <1>1, <1>2, <2>1 DEF Memory
  <2>3. ReservationRow(k) \notin DOMAIN own
    BY <1>1, <1>6, <2>1, <2>2 DEF Locks
  <2>4. Unchanged(s, k)
    BY <1>2
  <2> QED BY <2>1, <2>2, <2>3, <2>4 DEF Unchanged, Read
<1>10. DOMAIN rows \subseteq Rows /\ \A j \in DOMAIN rows : rows[j] \in Nat
  <2>1. rows \in UNION {[S -> Nat] : S \in SUBSET Rows}
    BY <1>1 DEF CallRecords
  <2> HIDE DEF rows
  <2> QED BY <2>1
<1>11. SumUpTo(Listed(rows, d, p), NumRows) >= q
  BY <1>1, <1>2 DEF Local, LedgerLocal
<1> DEFINE t == TakenRows(rows, d, p, q)
<1>12. \A n \in 1..NumRows : LET k == <<d, p, n>>
         IN  /\ k \in Rows
             /\ k \in used => t[n] = rows[k] - rest(k) /\ t[n] \in Int
             /\ k \notin used => t[n] = 0
  <2> TAKE n \in 1..NumRows
  <2> DEFINE k == <<d, p, n>>
  <2>1. k \in Rows
    BY <1>2 DEF Rows
  <2>2. CASE k \in DOMAIN rows
    <3>1. t[n] = Taken(rows, k, q)
      BY <2>2 DEF TakenRows
    <3>2. Taken(rows, k, q) \in Nat /\ rows[k] \in Nat
      <4>1. NumRows \in Nat
        BY SizesAssumption
      <4> HIDE DEF rows, q, k
      <4> QED BY <1>2, <1>10, <2>2, <4>1, TakenNat
    <3> QED BY <2>1, <2>2, <3>1, <3>2
  <2>3. CASE k \notin DOMAIN rows
    BY <2>1, <2>3 DEF TakenRows
  <2> QED BY <2>2, <2>3
<1>13. SumUpTo(t, NumRows) = q
  <2> HIDE DEF rows, q, d, p
  <2> QED BY <1>2, <1>10, <1>11, TakenTotal
<1>14. \A k \in used : /\ rest(k) \in Nat /\ rows[k] \in Nat
                       /\ own2[ReservationRow(k)].status = IF rest(k) = 0 THEN "FULFILLED" ELSE "ACTIVE"
                       /\ rest(k) # 0 => own2[ReservationRow(k)].quantity = rest(k)
  BY <1>3, <1>4, <1>9, <1>10
<1> HIDE DEF c, own, own2, d, p, q, rows, used, rest, b, t
<1>15. /\ Goes(c, next) /\ next.handler = "deliver" /\ next.order = d /\ next.step = "goods"
       /\ next.quantity = c.quantity
       /\ Sent(c) /\ Sent(next) /\ ~Arriving(c) /\ ~Arriving(next)
  BY <1>1, <1>2 DEF CallRecords, Goes, Sent, Arriving, d
<1>16. GoodsLocal(db, own2, next)
  <2>1. GoodsLocal(db, own, c) /\ DeliveredStill(db, own, own2)
    BY <1>1, <1>4, StillPlain DEF Local
  <2>2. \A e \in Orders, x \in Products :
          SentOut(db, own2, e, x) = IF Sent(next) /\ e = next.order THEN next.quantity[x] ELSE 0
    BY <1>15, <2>1 DEF GoodsLocal, SentOut, DeliveredStill, d
  <2>3. \A x \in Products : BalanceRow(x) \in DOMAIN own2 =>
          Balanced(own2[BalanceRow(x)]) /\ OnHand(db, own2, x) = 0 - next.quantity[x]
    <3> SUFFICES ASSUME NEW x \in Products, BalanceRow(x) \in DOMAIN own2
                 PROVE  Balanced(own2[BalanceRow(x)]) /\ OnHand(db, own2, x) = 0 - next.quantity[x]
      OBVIOUS
    <3>1. CASE x = p
      BY <1>2, <1>5, <1>7, <1>15, <3>1 DEF OnHand, Value, q
    <3>2. CASE x # p
      BY <1>2, <1>4, <1>15, <2>1, <3>2 DEF GoodsLocal, OnHand, Value, SameRow
    <3> QED BY <3>1, <3>2
  <2> QED BY <1>15, <2>2, <2>3 DEF GoodsLocal
<1>17. RowsLocal(db, own2, next)
  <2>1. RowsLocal(db, own, c)
    BY <1>1 DEF Local
  <2> SUFFICES ASSUME NEW k \in Rows, ReservationRow(k) \in DOMAIN own2
               PROVE  /\ own2[ReservationRow(k)].status = "ACTIVE" => db[ReservationRow(k)].status = "ACTIVE"
                      /\ db[ReservationRow(k)].status # "NONE" => k[1] = d
    BY <1>15 DEF RowsLocal
  <2>2. CASE k \in used
    BY <1>9, <2>2
  <2>3. CASE k \notin used
    BY <1>2, <1>4, <2>1, <2>3 DEF RowsLocal, SameRow, d
  <2> QED BY <2>2, <2>3
<1>18. ListLocal(scenario.handlers, db, own2, next)
  BY <1>15, ListOther
<1>19. LedgerLocal(scenario.handlers, db, own2, next)
  <2> DEFINE f == HeldRows(db, own)
             g == HeldRows(db, own2)
  <2>1. f \in [Rows -> Nat] /\ g \in [Rows -> Nat]
    BY <1>1, <1>4, HeldRowsNat
  <2>2. \A j \in Rows : j \notin used => g[j] = f[j]
    BY <1>1, <1>4, HeldRowsNat DEF Value, SameRow
  <2>3. ASSUME NEW k \in used
        PROVE  f[k] = rows[k] /\ g[k] = rest(k)
    <3>1. k \in Rows /\ f[k] = rows[k]
      BY <1>1, <1>9, HeldRowsNat DEF Value, RowHeld
    <3>2. g[k] = RowHeld(own2[ReservationRow(k)])
      BY <1>1, <1>4, <3>1, HeldRowsNat DEF Value
    <3>3. RowHeld(own2[ReservationRow(k)]) = rest(k)
      BY <1>14 DEF RowHeld
    <3> QED BY <3>1, <3>2, <3>3
  <2>4. LedgerLocal(scenario.handlers, db, own, c)
    BY <1>1 DEF Local
  <2> HIDE DEF f, g
  <2>5. RowsLess(f, g, d, p, t)
    <3>1. ASSUME NEW n \in 1..NumRows
          PROVE  t[n] \in Int /\ f[<<d, p, n>>] = g[<<d, p, n>>] + t[n]
      <4> DEFINE k == <<d, p, n>>
      <4>1. k \in Rows /\ (k \in used => t[n] = rows[k] - rest(k)) /\ (k \notin used => t[n] = 0)
        BY <1>12
      <4> HIDE DEF k
      <4>2. f[k] \in Nat /\ g[k] \in Nat
        BY <2>1, <4>1
      <4>3. CASE k \in used
        <5>1. f[k] = rows[k] /\ g[k] = rest(k)
          BY <2>3, <4>3
        <5> QED BY <4>1, <4>2, <4>3, <5>1 DEF k
      <4>4. CASE k \notin used
        <5>1. g[k] = f[k] /\ t[n] = 0
          BY <2>2, <4>1, <4>4
        <5> QED BY <4>2, <5>1 DEF k
      <4> QED BY <4>3, <4>4
    <3>2. \A k \in Rows : k[1] # d => g[k] = f[k]
      BY <1>9, <2>2
    <3> QED BY <3>1, <3>2 DEF RowsLess
  <2>6. HeldAll(g, p) = HeldAll(f, p) - q /\ HeldAll(f, p) \in Int
    BY <1>2, <1>13, <2>1, <2>5, HeldLess
  <2>7. \A x \in Products : x # p => HeldAll(g, x) = HeldAll(f, x)
    <3> SUFFICES ASSUME NEW x \in Products, x # p
                 PROVE  HeldAll(g, x) = HeldAll(f, x)
      OBVIOUS
    <3>1. \A k \in Rows : k[2] = x => g[k] = f[k]
      BY <1>9, <2>2
    <3> QED BY <2>1, <3>1, HeldOthers
  <2>8. ASSUME NoJobs(scenario.handlers), NEW x \in Products, BalanceRow(x) \in DOMAIN own2
        PROVE  own2[BalanceRow(x)].reserved = HeldAll(g, x)
    <3>1. CASE x = p
      <4>1. b.reserved = HeldAll(f, p)
        BY <1>8, <2>8 DEF f
      <4> QED BY <1>5, <2>6, <3>1, <4>1
    <3>2. CASE x # p
      BY <1>2, <1>4, <2>4, <2>7, <2>8, <3>2 DEF LedgerLocal, SameRow, f
    <3> QED BY <3>1, <3>2
  <2> QED BY <1>2, <1>15, <2>4, <2>8 DEF LedgerLocal, g
<1>20. Local(scenario, db, own2, next)
  <2>1. c.order \in Orders /\ OrderRow(c.order) \in DOMAIN own
    BY <1>1, <1>2 DEF Locks, HasOrder, Fulfilment, d
  <2>2. /\ Local(scenario, db, own, c) /\ Still(own, own2, {"order"}) /\ Goes(c, next)
        /\ c.handler # "confirm" /\ c.step # "readOrder"
        /\ (c.handler \in Fulfilment => next.step # "commit")
        /\ (Sent(next) => Sent(c))
        /\ (Sent(c) => c.order \in Orders /\ OrderRow(c.order) \in DOMAIN own)
    BY <1>1, <1>2, <1>4, <1>15, <2>1
  <2> HIDE DEF next
  <2> QED BY <1>16, <1>17, <1>18, <1>19, <2>2, GoodsStatement
<1> QED BY <1>1, <1>2, <1>3, <1>20, ContinuesWriting DEF own2, c, p

-----------------------------------------------------------------------------
\* Calls that start, and transactions that end without their writes.

\* A session that has written nothing yet.
LEMMA EmptyLocal ==
  ASSUME NEW sc, NEW base, TypedBase(base), NEW own, DOMAIN own = {}, NEW c,
         c.handler \in (sc.handlers \cup {"none"}) \ {"create", "receive"},
         c.step \in {"idle", "readRows", "recheck", "readOrder", "lock"},
         c.handler = "confirm" => c.step = "readOrder",
         c.handler \in Fulfilment \cup {"cancel", "ttl"} => base[OrderRow(c.order)].status # "NONE",
         c.handler \in {"cancel", "ttl"} =>
           /\ c.step = "readRows" /\ DOMAIN c.rows = {} /\ base[OrderRow(c.order)].status \in Waiting
           /\ c.version = base[OrderRow(c.order)].version /\ base[OrderRow(c.order)].version \in Nat
  PROVE  Local(sc, base, own, c)
<1>1. \A r : r \notin DOMAIN own /\ Value(base, own, r) = base[r]
  BY DEF Value
<1>2. OrderLocal(base, own, c)
  BY <1>1 DEF OrderLocal, Versioned
<1>3. ~Sent(c) /\ ~Arriving(c)
  BY DEF Sent, Arriving
<1>4. GoodsLocal(base, own, c)
  <2>1. \A p \in Products : OnHand(base, own, p) = 0
    <3> TAKE p \in Products
    <3>1. base[BalanceRow(p)].onHand \in Int
      BY KnownRows, TypedValues DEF TypedBase, Balances
    <3> QED BY <1>1, <3>1 DEF OnHand
  <2>2. \A d \in Orders, p \in Products : SentOut(base, own, d, p) = 0
    <3> TAKE d \in Orders, p \in Products
    <3>1. base[OrderRow(d)].delivered[p] \in Nat
      BY KnownRows, TypedValues DEF TypedBase, OrderRecords
    <3> QED BY <1>1, <3>1 DEF SentOut
  <2> QED BY <1>1, <1>3, <2>1, <2>2 DEF GoodsLocal
<1>5. PaidLocal(base, own, c)
  BY <1>1, <1>3 DEF PaidLocal
<1>6. RowsLocal(base, own, c)
  BY <1>1 DEF RowsLocal
<1>7. ListLocal(sc.handlers, base, own, c)
  BY <1>1 DEF ListLocal
<1>8. LedgerLocal(sc.handlers, base, own, c)
  BY <1>1 DEF LedgerLocal
<1> QED BY <1>2, <1>4, <1>5, <1>6, <1>7, <1>8 DEF Local

LEMMA IdleLocal ==
  ASSUME NEW sc, NEW base, TypedBase(base), NEW own, DOMAIN own = {}, NEW c,
         c.handler = "none", c.step = "idle"
  PROVE  Local(sc, base, own, c)
BY EmptyLocal DEF Fulfilment

LEMMA RollbackSound ==
  ASSUME TxSound, NEW s \in Sessions, Rollback(s)
  PROVE  Continues(s)
<1>1. TxTypes /\ TypedBase(db)
  BY SoundFacts
<1>2. mine'[s] = Nothing /\ \A t \in Sessions \ {s} : mine'[t] = mine[t]
  BY <1>1, LocalFacts DEF Rollback, End
<1>3. call'[s] = Idle /\ \A t \in Sessions \ {s} : call'[t] = call[t]
  BY <1>1, LocalFacts DEF Rollback, End, Keep
<1>4. UNCHANGED <<db, scenario>>
  BY DEF Rollback, End
<1>5. DOMAIN Nothing = {} /\ Idle.handler = "none" /\ Idle.step = "idle"
  BY IdleFields DEF Nothing
<1>6. Local(scenario, db, Nothing, Idle)
  BY <1>1, <1>5, IdleLocal
<1> QED BY <1>2, <1>3, <1>4, <1>6 DEF Continues

LEMMA StartedReading ==
  ASSUME TxSound, NEW s \in Sessions, NEW c, Start(s, c), UNCHANGED mine,
         Local(scenario, db, mine[s], c)
  PROVE  Continues(s)
<1>1. TxTypes /\ Keep(s, c) /\ UNCHANGED <<db, mine, scenario>>
  BY SoundFacts DEF Start
<1> QED BY <1>1, ContinuesReading

\* Calls that read first.
LEMMA StartSound ==
  ASSUME TxSound, NEW s \in Sessions,
         \/ \E d \in Orders :
              \/ StartCancel(s, d) \/ StartTtl(s, d) \/ StartSupervisor(s, d)
              \/ \E quantity \in [Products -> 0..MaxQuantity] : StartDeliver(s, d, quantity)
         \/ \E k \in Rows : StartExpire(s, k)
         \/ \E k \in Payments, verdict \in {"CONFIRMED", "REJECTED"} : StartConfirm(s, k, verdict)
  PROVE  Continues(s)
<1> DEFINE own == mine[s]
<1>1. /\ TypedBase(db) /\ TxTypes /\ Locks(DOMAIN own, call[s])
      /\ \A d \in Orders : db[OrderRow(d)] \in OrderRecords
  BY SoundFacts, KnownRows, TypedValues DEF TypedBase
<1>2. At(s, "idle") => DOMAIN own = {}
  BY <1>1 DEF At, Locks
<1> HIDE DEF own
<1>3. ASSUME NEW d \in Orders, StartCancel(s, d)
      PROVE  Continues(s)
  <2> DEFINE next == [Idle EXCEPT !.handler = "cancel", !.order = d, !.step = "readRows",
                                  !.version = db[OrderRow(d)].version]
  <2>1. Start(s, next) /\ UNCHANGED mine /\ db[OrderRow(d)].status \in Waiting
    BY <1>3 DEF StartCancel, Waiting
  <2>2. DOMAIN own = {} /\ "cancel" \in scenario.handlers
    BY <1>2, <2>1, IdleFields DEF Start, CallRecords
  <2>3. /\ next.handler = "cancel" /\ next.order = d /\ next.step = "readRows"
        /\ next.version = db[OrderRow(d)].version /\ DOMAIN next.rows = {}
    BY IdleFields DEF CallRecords
  <2>4. db[OrderRow(d)].version \in Nat
    BY <1>1 DEF OrderRecords
  <2>5. Local(scenario, db, own, next)
    <3> HIDE DEF next
    <3> QED BY <1>1, <2>1, <2>2, <2>3, <2>4, EmptyLocal DEF Waiting
  <2> QED BY <2>1, <2>5, StartedReading DEF own
<1>4. ASSUME NEW d \in Orders, StartTtl(s, d)
      PROVE  Continues(s)
  <2> DEFINE next == [Idle EXCEPT !.handler = "ttl", !.order = d, !.step = "readRows",
                                  !.version = db[OrderRow(d)].version]
  <2>1. Start(s, next) /\ UNCHANGED mine /\ db[OrderRow(d)].status \in Waiting
    BY <1>4 DEF StartTtl, Waiting
  <2>2. DOMAIN own = {} /\ "ttl" \in scenario.handlers
    BY <1>2, <2>1, IdleFields DEF Start, CallRecords
  <2>3. /\ next.handler = "ttl" /\ next.order = d /\ next.step = "readRows"
        /\ next.version = db[OrderRow(d)].version /\ DOMAIN next.rows = {}
    BY IdleFields DEF CallRecords
  <2>4. db[OrderRow(d)].version \in Nat
    BY <1>1 DEF OrderRecords
  <2>5. Local(scenario, db, own, next)
    <3> HIDE DEF next
    <3> QED BY <1>1, <2>1, <2>2, <2>3, <2>4, EmptyLocal DEF Waiting
  <2> QED BY <2>1, <2>5, StartedReading DEF own
<1>5. ASSUME NEW d \in Orders, StartSupervisor(s, d)
      PROVE  Continues(s)
  <2> DEFINE locks == FulfilmentLocks("supervisor")
             next == [Idle EXCEPT !.handler = "supervisor", !.order = d, !.step = "lock", !.locks = locks]
  <2>1. Start(s, next) /\ UNCHANGED mine /\ db[OrderRow(d)].status # "NONE"
    BY <1>5 DEF StartSupervisor
  <2> HIDE DEF locks
  <2>2. DOMAIN own = {} /\ "supervisor" \in scenario.handlers
    BY <1>2, <2>1, IdleFields DEF Start, CallRecords
  <2>3. next.handler = "supervisor" /\ next.order = d /\ next.step = "lock"
    BY IdleFields DEF CallRecords
  <2>4. Local(scenario, db, own, next)
    <3> HIDE DEF next
    <3> QED BY <1>1, <2>1, <2>2, <2>3, EmptyLocal
  <2> QED BY <2>1, <2>4, StartedReading DEF own
<1>6. ASSUME NEW d \in Orders, NEW quantity \in [Products -> 0..MaxQuantity], StartDeliver(s, d, quantity)
      PROVE  Continues(s)
  <2> DEFINE locks == FulfilmentLocks("deliver")
             next == [Idle EXCEPT !.handler = "deliver", !.order = d, !.step = "lock",
                                  !.locks = locks, !.quantity = quantity]
  <2>1. Start(s, next) /\ UNCHANGED mine /\ db[OrderRow(d)].status # "NONE"
    BY <1>6 DEF StartDeliver
  <2> HIDE DEF locks
  <2>2. DOMAIN own = {} /\ "deliver" \in scenario.handlers
    BY <1>2, <2>1, IdleFields DEF Start, CallRecords
  <2>3. next.handler = "deliver" /\ next.order = d /\ next.step = "lock"
    BY IdleFields DEF CallRecords
  <2>4. Local(scenario, db, own, next)
    <3> HIDE DEF next
    <3> QED BY <1>1, <2>1, <2>2, <2>3, EmptyLocal
  <2> QED BY <2>1, <2>4, StartedReading DEF own
<1>7. ASSUME NEW k \in Rows, StartExpire(s, k)
      PROVE  Continues(s)
  <2> DEFINE rows == Row(k, db[ReservationRow(k)].quantity)
             next == [Idle EXCEPT !.handler = "expire", !.order = k[1], !.step = "recheck", !.rows = rows]
  <2>1. Start(s, next) /\ UNCHANGED mine
    BY <1>7 DEF StartExpire
  <2> HIDE DEF rows
  <2>2. DOMAIN own = {} /\ "expire" \in scenario.handlers
    BY <1>2, <2>1, IdleFields DEF Start, CallRecords
  <2>3. next.handler = "expire" /\ next.step = "recheck"
    BY IdleFields DEF CallRecords
  <2>4. Local(scenario, db, own, next)
    <3> HIDE DEF next
    <3> QED BY <1>1, <2>2, <2>3, EmptyLocal DEF Fulfilment
  <2> QED BY <2>1, <2>4, StartedReading DEF own
<1>8. ASSUME NEW k \in Payments, NEW verdict \in {"CONFIRMED", "REJECTED"}, StartConfirm(s, k, verdict)
      PROVE  Continues(s)
  <2> DEFINE next == [Idle EXCEPT !.handler = "confirm", !.order = k[1], !.step = "readOrder",
                                  !.payment = k, !.verdict = verdict]
  <2>1. Start(s, next) /\ UNCHANGED mine /\ db[OrderRow(k[1])].status # "NONE"
    BY ZenonT(60), <1>8 DEF StartConfirm
  <2>2. DOMAIN own = {} /\ "confirm" \in scenario.handlers
    BY <1>2, <2>1, IdleFields DEF Start, CallRecords
  <2>3. next.handler = "confirm" /\ next.order = k[1] /\ next.step = "readOrder"
    BY IdleFields DEF CallRecords
  <2>4. Local(scenario, db, own, next)
    <3> HIDE DEF next
    <3> QED BY <1>1, <2>1, <2>2, <2>3, EmptyLocal
  <2> QED BY <2>1, <2>4, StartedReading DEF own
<1> QED BY <1>3, <1>4, <1>5, <1>6, <1>7, <1>8

-----------------------------------------------------------------------------
\* Calls that write a row at once.

LEMMA StartedWriting ==
  ASSUME TxTypes, NEW s \in Sessions, NEW c, NEW new, NEW r, Start(s, c), Write(s, new), DOMAIN new = {r}
  PROVE  /\ DOMAIN mine[s] = {} /\ DOMAIN mine'[s] = {r} /\ mine'[s][r] = new[r]
         /\ UNCHANGED <<db, scenario>> /\ Keep(s, c) /\ c.handler \in scenario.handlers
<1>1. DOMAIN mine[s] = {}
  BY LocalFacts DEF Start, At, Locks
<1>2. mine'[s] = Over(new, mine[s])
  BY WriteValue
<1>3. DOMAIN mine'[s] = {r} /\ mine'[s][r] = new[r]
  <2> DEFINE old == mine[s]
  <2>1. DOMAIN old = {}
    BY <1>1
  <2> HIDE DEF old
  <2>2. DOMAIN Over(new, old) = {r} /\ Over(new, old)[r] = new[r]
    BY <2>1 DEF Over
  <2> QED BY <1>2, <2>2 DEF old
<1> QED BY <1>1, <1>3 DEF Start

LEMMA StartCreateSound ==
  ASSUME TxSound, NEW s \in Sessions, NEW d \in Orders, StartCreate(s, d)
  PROVE  Continues(s)
<1> DEFINE next == [Idle EXCEPT !.handler = "create", !.order = d, !.step = "reserve", !.products = Wanted(d)]
           own == mine'[s]
           o == own[OrderRow(d)]
           old == db[OrderRow(d)]
<1>1. TxTypes /\ TypedBase(db) /\ Base(scenario, db)
  BY SoundFacts
<1>2. PICK new : /\ Write(s, new) /\ DOMAIN new = {OrderRow(d)}
                 /\ new[OrderRow(d)] = NewOrder("WAITING_PAYMENT", NumOrders + calls + 1, 0)
                 /\ new[OrderRow(d)] \in OrderRecords
  BY <1>1, StartCreateTypes
<1>3. Start(s, next) /\ old.status = "NONE"
  BY DEF StartCreate
<1>4. /\ DOMAIN own = {OrderRow(d)} /\ o = new[OrderRow(d)]
      /\ UNCHANGED <<db, scenario>> /\ Keep(s, next) /\ next.handler \in scenario.handlers
  BY <1>1, <1>2, <1>3, StartedWriting
<1>5. /\ o.status = "WAITING_PAYMENT" /\ o.version = 0 /\ o.paidAmount = 0
      /\ o.paymentStatus = calculatePaymentStatus(0) /\ \A p \in Products : o.delivered[p] = 0
  BY <1>2, <1>4 DEF NewOrder
<1>6. /\ old.version = 0 /\ old.paidAmount = 0 /\ \A p \in Products : old.delivered[p] = 0
  BY <1>1, <1>3 DEF Base, OrderBase
<1>7. old.paymentStatus = calculatePaymentStatus(0)
  BY <1>1, <1>6 DEF Base, PaidBase, PaidOrder
<1>8. /\ next.handler = "create" /\ next.order = d /\ next.step = "reserve"
  BY IdleFields DEF CallRecords
<1>a. /\ \A p : BalanceRow(p) \notin DOMAIN own
      /\ \A k : ReservationRow(k) \notin DOMAIN own
      /\ \A e : OrderRow(e) \in DOMAIN own => e = d
      /\ \A q : ReceiptRow(q) \notin DOMAIN own
  BY <1>4, RowKeys
<1>b. /\ \A p \in Products : db[BalanceRow(p)].onHand \in Int
      /\ \A e \in Orders, p \in Products : db[OrderRow(e)].delivered[p] \in Nat
  BY <1>1, KnownRows, TypedValues DEF TypedBase, Balances, OrderRecords
<1>c. OrderRow(d) \in DOMAIN own
  BY <1>4
<1> HIDE DEF next, own, o, old
<1>9. OrderLocal(db, own, next)
  <2>1. OrderStep(next, old, o)
    BY <1>3, <1>5, <1>6, <1>8 DEF OrderStep, Waiting
  <2> QED BY <1>8, <1>a, <2>1 DEF OrderLocal, Versioned, Fulfilment, old, o
<1>10. GoodsLocal(db, own, next)
  <2>1. \A p \in Products : OnHand(db, own, p) = 0
    BY <1>a, <1>b DEF OnHand, Value
  <2>2. \A e \in Orders, p \in Products : SentOut(db, own, e, p) = 0
    <3> TAKE e \in Orders, p \in Products
    <3>1. CASE e = d
      <4>1. Value(db, own, OrderRow(e)) = o /\ db[OrderRow(e)] = old
        BY <1>c, <3>1 DEF Value, o, old
      <4> QED BY <1>5, <1>6, <4>1 DEF SentOut
    <3>2. CASE e # d
      BY <1>a, <1>b, <3>2 DEF SentOut, Value
    <3> QED BY <3>1, <3>2
  <2> QED BY <1>8, <1>a, <2>1, <2>2 DEF GoodsLocal, Sent, Arriving
<1>11. PaidLocal(db, own, next)
  BY <1>5, <1>6, <1>7, <1>8, <1>a DEF PaidLocal, Sent, Paying, o, old
<1>12. RowsLocal(db, own, next)
  BY <1>a DEF RowsLocal
<1>13. ListLocal(scenario.handlers, db, own, next)
  BY <1>8, ListOther
<1>14. LedgerLocal(scenario.handlers, db, own, next)
  BY <1>4, <1>8, <1>a DEF LedgerLocal
<1>15. Local(scenario, db, own, next)
  BY <1>9, <1>10, <1>11, <1>12, <1>13, <1>14 DEF Local
<1> QED BY <1>1, <1>2, <1>4, <1>15, ContinuesWriting DEF own

LEMMA StartReceiveSound ==
  ASSUME TxSound, NEW s \in Sessions, NEW p \in Products, StartReceive(s, p)
  PROVE  Continues(s)
<1> DEFINE next == [Idle EXCEPT !.handler = "receive", !.product = p, !.step = "arrive"]
           own == mine'[s]
           old == db[ReceiptRow(p)]
<1>1. TxTypes /\ TypedBase(db) /\ Base(scenario, db)
  BY SoundFacts
<1>2. PICK new : /\ Write(s, new) /\ DOMAIN new = {ReceiptRow(p)}
                 /\ new[ReceiptRow(p)] = db[ReceiptRow(p)] + ReceiptQuantity
  BY <1>1, StartReceiveTypes
<1>3. Start(s, next)
  BY DEF StartReceive
<1>4. /\ DOMAIN own = {ReceiptRow(p)} /\ own[ReceiptRow(p)] = old + ReceiptQuantity
      /\ UNCHANGED <<db, scenario>> /\ Keep(s, next) /\ next.handler \in scenario.handlers
  <2> HIDE DEF next
  <2>1. DOMAIN own = {ReceiptRow(p)} /\ own[ReceiptRow(p)] = new[ReceiptRow(p)]
    BY <1>1, <1>2, <1>3, StartedWriting
  <2>2. UNCHANGED <<db, scenario>> /\ Keep(s, next) /\ next.handler \in scenario.handlers
    BY <1>3 DEF Start
  <2> QED BY <1>2, <2>1, <2>2
<1>5. next.handler = "receive" /\ next.product = p /\ next.step = "arrive"
  BY IdleFields DEF CallRecords
<1>a. /\ \A q : BalanceRow(q) \notin DOMAIN own
      /\ \A k : ReservationRow(k) \notin DOMAIN own
      /\ \A e : OrderRow(e) \notin DOMAIN own
      /\ \A q : ReceiptRow(q) \in DOMAIN own <=> q = p
  BY <1>4, RowKeys
<1>b. /\ \A q \in Products : db[BalanceRow(q)].onHand \in Int
      /\ \A e \in Orders, q \in Products : db[OrderRow(e)].delivered[q] \in Nat
      /\ \A q \in Products : db[ReceiptRow(q)] \in Nat
  BY <1>1, KnownRows, TypedValues DEF TypedBase, Balances, OrderRecords
<1>c. ReceiptQuantity \in Nat /\ ReceiptQuantity > 0
  BY SizesAssumption
<1> HIDE DEF next, own
<1>6. OrderLocal(db, own, next)
  BY <1>5, <1>a DEF OrderLocal, Versioned, Fulfilment
<1>7. GoodsLocal(db, own, next)
  <2>1. \A q \in Products : OnHand(db, own, q) = 0
    BY <1>a, <1>b DEF OnHand, Value
  <2>2. \A e \in Orders, q \in Products : SentOut(db, own, e, q) = 0
    BY <1>a, <1>b DEF SentOut, Value
  <2>3. \A q \in Products : CameIn(db, own, q) = IF q = p THEN ReceiptQuantity ELSE 0
    <3> TAKE q \in Products
    <3>1. Value(db, own, ReceiptRow(q)) = IF q = p THEN db[ReceiptRow(q)] + ReceiptQuantity ELSE db[ReceiptRow(q)]
      BY <1>4, <1>a DEF Value
    <3> QED BY <1>b, <1>c, <3>1 DEF CameIn
  <2>4. \E q \in Products : CameIn(db, own, q) > 0
    BY <1>c, <2>3
  <2> QED BY <1>5, <1>a, <1>c, <2>1, <2>2, <2>3, <2>4 DEF GoodsLocal, Sent, Arriving
<1>8. PaidLocal(db, own, next)
  BY <1>5, <1>a DEF PaidLocal, Sent
<1>9. RowsLocal(db, own, next)
  BY <1>a DEF RowsLocal
<1>10. ListLocal(scenario.handlers, db, own, next)
  BY <1>5, ListOther
<1>11. LedgerLocal(scenario.handlers, db, own, next)
  BY <1>4, <1>5, <1>a DEF LedgerLocal
<1>12. Local(scenario, db, own, next)
  BY <1>6, <1>7, <1>8, <1>9, <1>10, <1>11 DEF Local
<1> QED BY <1>1, <1>2, <1>4, <1>12, ContinuesWriting DEF own

LEMMA ContinuesSound ==
  ASSUME TxSound, TxTypes', NEW s \in Sessions, Continues(s)
  PROVE  TxSound'
<1>1. \A t \in Sessions : Local(scenario, db, mine'[t], call'[t])
  BY DEF Continues, TxSound
<1>2. Base(scenario, db)
  BY DEF TxSound
<1>3. scenario' = scenario /\ db' = db
  BY DEF Continues
<1> QED BY <1>1, <1>2, <1>3 DEF TxSound

-----------------------------------------------------------------------------
\* A transaction commits: what it has made of its rows becomes the committed value.

Merged(base, own, base2) == \A r \in AllRows : base2[r] = Value(base, own, r)

Committing(sc, base, own, c, base2) ==
  /\ TypedBase(base) /\ Typed(own) /\ TypedBase(base2) /\ Merged(base, own, base2)
  /\ Shape(c) /\ Locks(DOMAIN own, c) /\ c.step = "commit"
  /\ Base(sc, base) /\ Local(sc, base, own, c)

LEMMA CommitFacts ==
  ASSUME TxSound, TxTypes', NEW s \in Sessions, Commit(s)
  PROVE  /\ Committing(scenario, db, mine[s], call[s], db')
         /\ mine'[s] = Nothing /\ call'[s] = Idle /\ UNCHANGED scenario
         /\ \A t \in Sessions \ {s} : mine'[t] = mine[t] /\ call'[t] = call[t]
<1>1. /\ TxTypes /\ TypedBase(db) /\ Typed(mine[s]) /\ Local(scenario, db, mine[s], call[s])
      /\ Shape(call[s]) /\ Locks(DOMAIN mine[s], call[s]) /\ Base(scenario, db)
  BY SoundFacts DEF Shape
<1>2. TypedBase(db')
  BY DEF TxTypes, SessionsTyped, TypedBase
<1>3. /\ mine'[s] = Nothing /\ call'[s] = Idle /\ UNCHANGED scenario
      /\ \A t \in Sessions \ {s} : mine'[t] = mine[t] /\ call'[t] = call[t]
  BY <1>1, LocalFacts DEF Commit, End, Keep
<1>4. Merged(db, mine[s], db')
  <2>1. db' = Over(mine[s], db) /\ DOMAIN db = AllRows
    BY <1>1 DEF Commit, TypedBase
  <2> QED BY <2>1 DEF Merged, Value, Over
<1> QED BY <1>1, <1>2, <1>3, <1>4 DEF Committing, Commit, At

LEMMA MergedRows ==
  ASSUME NEW base, NEW own, NEW base2, Merged(base, own, base2)
  PROVE  /\ \A p \in Products : base2[BalanceRow(p)] = Value(base, own, BalanceRow(p))
         /\ \A d \in Orders : base2[OrderRow(d)] = Value(base, own, OrderRow(d))
         /\ \A k \in Payments : base2[PaymentRow(k)] = Value(base, own, PaymentRow(k))
         /\ \A k \in Rows : base2[ReservationRow(k)] = Value(base, own, ReservationRow(k))
         /\ \A p \in Products : base2[ReceiptRow(p)] = Value(base, own, ReceiptRow(p))
BY KnownRows DEF Merged

\* What a commit does to an order.
LEMMA OrderAfter ==
  ASSUME NEW sc, NEW base, NEW own, NEW c, NEW base2, Committing(sc, base, own, c, base2), NEW d \in Orders
  PROVE  LET old == base[OrderRow(d)]
             new == base2[OrderRow(d)]
         IN  /\ old \in OrderRecords /\ new \in OrderRecords
             /\ OrderRow(d) \notin DOMAIN own => new = old
             /\ OrderRow(d) \in DOMAIN own => new = own[OrderRow(d)] /\ OrderStep(c, old, new)
             /\ old.status # "NONE" => new.status # "NONE"
             /\ new.version >= old.version
             /\ new.version = old.version /\ old.status # "NONE" => new.status = old.status
<1>1. base[OrderRow(d)] \in OrderRecords /\ base2[OrderRow(d)] \in OrderRecords
  BY KnownRows, TypedValues DEF Committing, TypedBase
<1>2. base2[OrderRow(d)] = Value(base, own, OrderRow(d))
  BY MergedRows DEF Committing
<1>3. OrderRow(d) \in DOMAIN own => OrderStep(c, base[OrderRow(d)], own[OrderRow(d)])
  BY DEF Committing, Local, OrderLocal
<1>4. CASE OrderRow(d) \in DOMAIN own
  BY <1>1, <1>2, <1>3, <1>4 DEF Value, OrderStep
<1>5. CASE OrderRow(d) \notin DOMAIN own
  BY <1>1, <1>2, <1>5 DEF Value, OrderRecords
<1> QED BY <1>4, <1>5, <1>1

LEMMA CommitOrders ==
  ASSUME NEW sc, NEW base, NEW own, NEW c, NEW base2, Committing(sc, base, own, c, base2)
  PROVE  OrderBase(base2)
<1> SUFFICES ASSUME NEW d \in Orders, base2[OrderRow(d)].status = "NONE"
             PROVE  /\ base2[OrderRow(d)].version = 0 /\ base2[OrderRow(d)].paidAmount = 0
                    /\ \A p \in Products : base2[OrderRow(d)].delivered[p] = 0
  BY DEF OrderBase
<1>1. OrderRow(d) \notin DOMAIN own
  BY OrderAfter DEF OrderStep
<1>2. base2[OrderRow(d)] = base[OrderRow(d)]
  BY <1>1, OrderAfter
<1> QED BY <1>2 DEF Committing, Base, OrderBase

\* What a commit takes from the balances, sends out and lets in, product by product.
LEMMA GoodsAfter ==
  ASSUME NEW sc, NEW base, NEW own, NEW c, NEW base2, Committing(sc, base, own, c, base2), NEW p \in Products
  PROVE  /\ base2[BalanceRow(p)].onHand = base[BalanceRow(p)].onHand + OnHand(base, own, p)
         /\ base2[ReceiptRow(p)] = base[ReceiptRow(p)] + CameIn(base, own, p)
         /\ base2[ReceiptRow(p)] \in Nat /\ base[ReceiptRow(p)] \in Nat
         /\ base[BalanceRow(p)].onHand \in Int /\ OnHand(base, own, p) \in Int /\ CameIn(base, own, p) \in Int
         /\ \A d \in Orders : /\ base[OrderRow(d)].delivered[p] \in Nat /\ SentOut(base, own, d, p) \in Int
                              /\ base2[OrderRow(d)].delivered[p] \in Nat
                              /\ base2[OrderRow(d)].delivered[p]
                                   = base[OrderRow(d)].delivered[p] + SentOut(base, own, d, p)
<1>1. /\ base2[BalanceRow(p)] = Value(base, own, BalanceRow(p))
      /\ \A d \in Orders : base2[OrderRow(d)] = Value(base, own, OrderRow(d))
      /\ base2[ReceiptRow(p)] = Value(base, own, ReceiptRow(p))
  BY MergedRows DEF Committing
<1>2. /\ base[BalanceRow(p)] \in Balances /\ base2[BalanceRow(p)] \in Balances
      /\ base[ReceiptRow(p)] \in Nat /\ base2[ReceiptRow(p)] \in Nat
      /\ \A d \in Orders : base[OrderRow(d)] \in OrderRecords /\ base2[OrderRow(d)] \in OrderRecords
  BY KnownRows, TypedValues DEF Committing, TypedBase
<1>3. base[BalanceRow(p)].onHand \in Int /\ base2[BalanceRow(p)].onHand \in Int
  BY <1>2 DEF Balances
<1>4. base[ReceiptRow(p)] \in Nat /\ base2[ReceiptRow(p)] \in Nat
  BY <1>2
<1>5. \A d \in Orders : base[OrderRow(d)].delivered[p] \in Nat /\ base2[OrderRow(d)].delivered[p] \in Nat
  BY <1>2 DEF OrderRecords
<1>6. OnHand(base, own, p) = base2[BalanceRow(p)].onHand - base[BalanceRow(p)].onHand
  BY <1>1 DEF OnHand
<1>7. CameIn(base, own, p) = base2[ReceiptRow(p)] - base[ReceiptRow(p)]
  BY <1>1 DEF CameIn
<1>8. \A d \in Orders : SentOut(base, own, d, p) = base2[OrderRow(d)].delivered[p] - base[OrderRow(d)].delivered[p]
  BY <1>1 DEF SentOut
<1> QED BY <1>3, <1>4, <1>5, <1>6, <1>7, <1>8

\* What is delivered of a product grows by what the transaction sends.
LEMMA DeliveredAfter ==
  ASSUME NEW base, NEW base2, NEW p, NEW x \in Int, NEW d \in Orders,
         \A e \in Orders : base[OrderRow(e)].delivered[p] \in Nat /\ base2[OrderRow(e)].delivered[p] \in Nat,
         \A e \in Orders : e # d => base2[OrderRow(e)].delivered[p] = base[OrderRow(e)].delivered[p],
         base2[OrderRow(d)].delivered[p] = base[OrderRow(d)].delivered[p] + x
  PROVE  Delivered(base2, p) = Delivered(base, p) + x /\ Delivered(base, p) \in Int
<1> DEFINE f == [e \in Orders |-> base[OrderRow(e)].delivered[p]]
           g == [e \in Orders |-> base2[OrderRow(e)].delivered[p]]
<1>1. NumOrders \in Nat /\ d \in 1..NumOrders /\ \A e : e \in 1..NumOrders <=> e \in Orders
  BY SizesAssumption DEF Orders
<1>2. \A e \in 1..NumOrders : f[e] \in Int /\ g[e] \in Int
  BY <1>1
<1>3. \A e \in 1..NumOrders : e # d => g[e] = f[e]
  BY <1>1
<1>4. g[d] = f[d] + x /\ f[d] \in Int
  OBVIOUS
<1> HIDE DEF f, g
<1>5. SumUpTo(g, NumOrders) = SumUpTo(f, NumOrders) - f[d] + g[d]
  BY ONLY <1>1, <1>2, <1>3, SumPoint
<1>6. SumUpTo(f, NumOrders) \in Int
  BY <1>1, <1>2, SumStep
<1>7. SumUpTo(g, NumOrders) = SumUpTo(f, NumOrders) + x
  BY <1>4, <1>5, <1>6
<1> QED BY <1>6, <1>7 DEF Delivered, f, g

LEMMA DeliveredUnchanged ==
  ASSUME NEW base, NEW base2, NEW p,
         \A e \in Orders : base2[OrderRow(e)].delivered[p] = base[OrderRow(e)].delivered[p]
  PROVE  Delivered(base2, p) = Delivered(base, p)
<1>1. [e \in Orders |-> base2[OrderRow(e)].delivered[p]] = [e \in Orders |-> base[OrderRow(e)].delivered[p]]
  OBVIOUS
<1> QED BY <1>1 DEF Delivered

LEMMA DeliveredInt ==
  ASSUME NEW base, NEW p, \A e \in Orders : base[OrderRow(e)].delivered[p] \in Nat
  PROVE  Delivered(base, p) \in Int
<1> DEFINE f == [e \in Orders |-> base[OrderRow(e)].delivered[p]]
<1>1. NumOrders \in Nat /\ \A e \in 1..NumOrders : f[e] \in Int
  BY SizesAssumption DEF Orders
<1> HIDE DEF f
<1>2. SumUpTo(f, NumOrders) \in Int
  BY <1>1, SumStep
<1> QED BY <1>2 DEF Delivered, f

LEMMA CommitGoods ==
  ASSUME NEW sc \in Scenarios, NEW base, NEW own, NEW c, NEW base2, Committing(sc, base, own, c, base2)
  PROVE  GoodsBase(sc.stock, base2)
<1> SUFFICES ASSUME NEW p \in Products
             PROVE  /\ Balanced(base2[BalanceRow(p)])
                    /\ base2[BalanceRow(p)].onHand + Delivered(base2, p) = sc.stock[p] + base2[ReceiptRow(p)]
  BY DEF GoodsBase
<1>1. /\ Balanced(base[BalanceRow(p)])
      /\ base[BalanceRow(p)].onHand + Delivered(base, p) = sc.stock[p] + base[ReceiptRow(p)]
  BY DEF Committing, Base, GoodsBase
<1>2. GoodsLocal(base, own, c) /\ Locks(DOMAIN own, c) /\ StepsOf(c) /\ Memory(c) /\ c.step = "commit"
      /\ c \in CallRecords
  BY DEF Committing, Local, Shape
<1>3. Balanced(base2[BalanceRow(p)])
  <2>1. base2[BalanceRow(p)] = Value(base, own, BalanceRow(p))
    BY MergedRows DEF Committing
  <2> QED BY <1>1, <1>2, <2>1 DEF GoodsLocal, Value
<1> DEFINE onHand == OnHand(base, own, p)
           sent(d) == SentOut(base, own, d, p)
           came == CameIn(base, own, p)
<1>4. /\ base2[BalanceRow(p)].onHand = base[BalanceRow(p)].onHand + onHand
      /\ base2[ReceiptRow(p)] = base[ReceiptRow(p)] + came
      /\ base2[ReceiptRow(p)] \in Nat /\ base[ReceiptRow(p)] \in Nat
      /\ base[BalanceRow(p)].onHand \in Int /\ onHand \in Int /\ came \in Int
      /\ \A d \in Orders : /\ base[OrderRow(d)].delivered[p] \in Nat
                           /\ base2[OrderRow(d)].delivered[p] \in Nat
                           /\ base2[OrderRow(d)].delivered[p] = base[OrderRow(d)].delivered[p] + sent(d)
  BY GoodsAfter
<1>5. Delivered(base, p) \in Int
  BY <1>4, DeliveredInt
<1>6. ~Arriving(c) /\ (Sent(c) <=> c.handler = "deliver")
  BY <1>2 DEF Arriving, Sent
<1>7. c.handler # "receive" => came = 0
  <2>1. c.handler # "receive" => Value(base, own, ReceiptRow(p)) = base[ReceiptRow(p)]
    BY <1>2 DEF Locks, Value
  <2> QED BY <1>4, <2>1 DEF CameIn
<1>8. \A d \in Orders : sent(d) = IF c.handler = "deliver" /\ d = c.order THEN c.quantity[p] ELSE 0
  BY <1>2, <1>6 DEF GoodsLocal
<1>9. CASE c.handler = "deliver"
  <2>1. c.order \in Orders /\ c.quantity[p] \in Nat
    BY <1>2, <1>9 DEF Memory, CallRecords
  <2>2. onHand = 0 - c.quantity[p]
    <3>1. CASE BalanceRow(p) \in DOMAIN own
      BY <1>2, <1>9, <3>1 DEF GoodsLocal
    <3>2. CASE BalanceRow(p) \notin DOMAIN own
      <4>1. p \notin c.products
        BY <1>2, <1>9 DEF Memory
      <4>2. ~(c.quantity[p] > 0)
        BY <1>2, <1>9, <3>2, <4>1 DEF Locks
      <4>3. c.quantity[p] = 0
        BY <2>1, <4>2
      <4>4. onHand = 0
        BY <1>4, <3>2 DEF OnHand, Value
      <4> QED BY <4>3, <4>4
    <3> QED BY <3>1, <3>2
  <2> DEFINE x == c.quantity[p]
             d == c.order
  <2>3. /\ x \in Int /\ d \in Orders
        /\ \A e \in Orders : base[OrderRow(e)].delivered[p] \in Nat /\ base2[OrderRow(e)].delivered[p] \in Nat
        /\ \A e \in Orders : e # d => base2[OrderRow(e)].delivered[p] = base[OrderRow(e)].delivered[p]
        /\ base2[OrderRow(d)].delivered[p] = base[OrderRow(d)].delivered[p] + x
    BY <1>4, <1>8, <1>9, <2>1
  <2> HIDE DEF x, d
  <2>4. Delivered(base2, p) = Delivered(base, p) + x
    BY <2>3, DeliveredAfter
  <2> HIDE DEF onHand, came, sent
  <2> QED BY <1>1, <1>3, <1>4, <1>5, <1>7, <1>9, <2>1, <2>2, <2>4 DEF x
<1>10. CASE c.handler # "deliver"
  <2>1. \A d \in Orders : base2[OrderRow(d)].delivered[p] = base[OrderRow(d)].delivered[p]
    BY <1>4, <1>8, <1>10
  <2>2. Delivered(base2, p) = Delivered(base, p)
    BY <2>1, DeliveredUnchanged
  <2>3. onHand = came
    BY <1>2, <1>6, <1>7, <1>10 DEF GoodsLocal
  <2> DEFINE before == Delivered(base, p)
             after == Delivered(base2, p)
             b == base[BalanceRow(p)].onHand
             b2 == base2[BalanceRow(p)].onHand
             r == base[ReceiptRow(p)]
             r2 == base2[ReceiptRow(p)]
  <2>4. /\ b \in Int /\ before \in Int /\ r \in Int /\ came \in Int /\ b + before = sc.stock[p] + r
        /\ b2 = b + came /\ r2 = r + came /\ after = before /\ sc.stock[p] \in Int
    BY <1>1, <1>4, <1>5, <2>2, <2>3, SizesAssumption
  <2> HIDE DEF onHand, came, sent, before, after, b, b2, r, r2
  <2>5. b2 + after = sc.stock[p] + r2
    BY ONLY <2>4
  <2> QED BY <1>3, <2>5 DEF after, b2, r2
<1> QED BY <1>9, <1>10
\* Payments: the order of a confirmed payment counts it, the others are as they were.
LEMMA CommitPaid ==
  ASSUME NEW sc, NEW base, NEW own, NEW c, NEW base2, Committing(sc, base, own, c, base2)
  PROVE  PaidBase(base2)
<1> DEFINE paid(d) == Confirmed([k \in Payments |-> base2[PaymentRow(k)]], d)
<1> SUFFICES ASSUME NEW d \in Orders
             PROVE  PaidOrder(base2[OrderRow(d)], paid(d))
  BY DEF PaidBase
<1>1. /\ PaidOrder(base[OrderRow(d)], Confirmed([k \in Payments |-> base[PaymentRow(k)]], d))
      /\ PaidLocal(base, own, c) /\ GoodsLocal(base, own, c)
      /\ c.step = "commit" /\ Locks(DOMAIN own, c) /\ Memory(c) /\ StepsOf(c)
  BY DEF Committing, Base, Local, PaidBase, Shape
<1>2. base2[OrderRow(d)] = Value(base, own, OrderRow(d))
  BY MergedRows DEF Committing
<1>3. \A k \in Payments : base2[PaymentRow(k)] = Value(base, own, PaymentRow(k))
  BY MergedRows DEF Committing
<1>4. CASE OrderRow(d) \in DOMAIN own /\ Paying(c)
  <2>1. [k \in Payments |-> base2[PaymentRow(k)]] = [k \in Payments |-> Value(base, own, PaymentRow(k))]
    BY <1>3
  <2>2. PaidOrder(own[OrderRow(d)], Confirmed([k \in Payments |-> Value(base, own, PaymentRow(k))], d))
    BY <1>1, <1>4 DEF PaidLocal
  <2>3. base2[OrderRow(d)] = own[OrderRow(d)]
    BY <1>2, <1>4 DEF Value
  <2> QED BY <2>1, <2>2, <2>3
<1>5. CASE ~(OrderRow(d) \in DOMAIN own /\ Paying(c))
  <2> DEFINE f == [k \in Payments |-> base[PaymentRow(k)]]
             g == [k \in Payments |-> base2[PaymentRow(k)]]
  <2>1. ASSUME NEW n \in 1..NumPayments
        PROVE  f[<<d, n>>] = "CONFIRMED" <=> g[<<d, n>>] = "CONFIRMED"
    <3>1. <<d, n>> \in Payments
      BY DEF Payments
    <3>2. PaymentRow(<<d, n>>) \notin DOMAIN own
      <4> SUFFICES ASSUME PaymentRow(<<d, n>>) \in DOMAIN own
                   PROVE  FALSE
        OBVIOUS
      <4>1. c.handler = "confirm" /\ <<d, n>> = c.payment
        BY <1>1, <3>1 DEF Locks
      <4>2. c.order = d /\ HasOrder(c)
        BY <1>1, <4>1 DEF Memory, HasOrder, Fulfilment
      <4>3. OrderRow(d) \in DOMAIN own
        BY <1>1, <4>1, <4>2 DEF Locks, Fulfilment
      <4> QED BY <1>1, <1>5, <4>1, <4>3 DEF Paying
    <3> QED BY <1>3, <3>1, <3>2 DEF Value
  <2>2. NumPayments \in Nat
    BY SizesAssumption
  <2> HIDE DEF f, g
  <2>3. Confirmed(g, d) = Confirmed(f, d)
    BY ONLY <2>1, <2>2, ConfirmedSame
  <2>4. PaidOrder(base[OrderRow(d)], paid(d))
    BY <1>1, <2>3 DEF f, g
  <2>5. CASE OrderRow(d) \notin DOMAIN own
    BY <1>2, <2>4, <2>5 DEF Value
  <2>6. CASE OrderRow(d) \in DOMAIN own
    <3>1. c.handler # "confirm"
      BY <1>1, <1>5, <2>6 DEF Paying
    <3> DEFINE old == base[OrderRow(d)]
               new == base2[OrderRow(d)]
    <3>2. new.paidAmount = old.paidAmount /\ new.paymentStatus = old.paymentStatus
      BY <1>1, <1>2, <2>6, <3>1 DEF PaidLocal, Paying, Value
    <3>3. (\E p \in Products : new.delivered[p] > 0) => new.paymentStatus = "PAID"
      <4>1. CASE Sent(c) /\ d = c.order
        BY <1>1, <1>2, <2>6, <4>1 DEF PaidLocal, Value
      <4>2. CASE ~(Sent(c) /\ d = c.order)
        <5>1. \A p \in Products : SentOut(base, own, d, p) = 0
          BY <1>1, <4>2 DEF GoodsLocal
        <5>2. \A p \in Products : new.delivered[p] = old.delivered[p]
          BY <5>1, GoodsAfter
        <5> QED BY <2>4, <3>2, <5>2 DEF PaidOrder
      <4> QED BY <4>1, <4>2
    <3> HIDE DEF paid
    <3> QED BY <2>4, <3>2, <3>3 DEF PaidOrder
  <2> QED BY <2>5, <2>6
<1> QED BY <1>4, <1>5

\* The rows a transaction holds are the committed ones once it has committed.
LEMMA MergedHeld ==
  ASSUME NEW base, NEW own, NEW base2, Merged(base, own, base2)
  PROVE  HeldRows(base2, Nothing) = HeldRows(base, own)
<1>1. \A k \in Rows : Value(base2, Nothing, ReservationRow(k)) = Value(base, own, ReservationRow(k))
  BY MergedRows DEF Value, Nothing
<1> QED BY <1>1 DEF HeldRows

LEMMA HeldRowsTyped ==
  ASSUME NEW base, TypedBase(base), NEW own, Typed(own)
  PROVE  /\ HeldRows(base, own) \in [Rows -> Nat]
         /\ \A k \in Rows : HeldRows(base, own)[k] = RowHeld(Value(base, own, ReservationRow(k)))
<1>1. \A k \in Rows : Value(base, own, ReservationRow(k)) \in ReservationRecords
  BY ValueTypes
<1>2. \A k \in Rows : RowHeld(Value(base, own, ReservationRow(k))) \in Nat
  BY <1>1 DEF RowHeld, ReservationRecords
<1> QED BY <1>2 DEF HeldRows

LEMMA CommitLedger ==
  ASSUME NEW sc, NEW base, NEW own, NEW c, NEW base2, Committing(sc, base, own, c, base2)
  PROVE  LedgerBase(sc.handlers, base2)
<1> SUFFICES ASSUME NoJobs(sc.handlers), NEW p \in Products
             PROVE  base2[BalanceRow(p)].reserved = HeldAll(HeldRows(base2, Nothing), p)
  BY DEF LedgerBase
<1>1. /\ LedgerLocal(sc.handlers, base, own, c) /\ LedgerBase(sc.handlers, base)
      /\ c.step = "commit" /\ Locks(DOMAIN own, c) /\ TypedBase(base) /\ Typed(own)
  BY DEF Committing, Base, Local
<1>2. HeldRows(base2, Nothing) = HeldRows(base, own) /\ base2[BalanceRow(p)] = Value(base, own, BalanceRow(p))
  BY MergedHeld, MergedRows DEF Committing
<1>3. c.handler = "cancel" => Fresh(base, own, c)
  BY <1>1 DEF Locks, Fresh
<1>4. CASE BalanceRow(p) \in DOMAIN own
  BY <1>1, <1>2, <1>3, <1>4 DEF LedgerLocal, Value
<1>5. CASE BalanceRow(p) \notin DOMAIN own
  <2>1. base[BalanceRow(p)].reserved = HeldAll(HeldRows(base, Nothing), p)
    BY <1>1 DEF LedgerBase
  <2>2. Typed(Nothing)
    BY TypedRows
  <2>3. \A k \in Rows : k[2] = p => ReservationRow(k) \notin DOMAIN own
    BY <1>1, <1>5 DEF Locks
  <2>4. \A k \in Rows : k[2] = p => Value(base, own, ReservationRow(k)) = Value(base, Nothing, ReservationRow(k))
    BY <2>3 DEF Value, Nothing
  <2>5. \A k \in Rows : k[2] = p => HeldRows(base, own)[k] = HeldRows(base, Nothing)[k]
    BY <1>1, <2>2, <2>4, HeldRowsTyped
  <2>6. HeldAll(HeldRows(base, own), p) = HeldAll(HeldRows(base, Nothing), p)
    BY <1>1, <2>2, <2>5, HeldRowsTyped, HeldOthers
  <2> QED BY <1>2, <1>5, <2>1, <2>6 DEF Value
<1> QED BY <1>4, <1>5
\* Only a receipt lets goods in, and it is then seen.
LEMMA NothingCame ==
  ASSUME NEW sc, NEW base, NEW own, NEW c, NEW base2, Committing(sc, base, own, c, base2), NoReceipts(base2)
  PROVE  NoReceipts(base) /\ c.handler # "receive"
<1>1. GoodsLocal(base, own, c) /\ Locks(DOMAIN own, c)
  BY DEF Committing, Local
<1>2. \A p \in Products : /\ base2[ReceiptRow(p)] = base[ReceiptRow(p)] + CameIn(base, own, p)
                          /\ base2[ReceiptRow(p)] = 0
                          /\ base[ReceiptRow(p)] \in Nat /\ CameIn(base, own, p) \in Int
  BY GoodsAfter DEF NoReceipts
<1>3. c.handler # "receive"
  <2> SUFFICES ASSUME c.handler = "receive"
               PROVE  FALSE
    OBVIOUS
  <2>1. PICK p \in Products : CameIn(base, own, p) > 0
    BY <1>1 DEF GoodsLocal
  <2> HIDE DEF CameIn
  <2> QED BY <1>2, <2>1
<1>4. ASSUME NEW p \in Products
      PROVE  base2[ReceiptRow(p)] = base[ReceiptRow(p)]
  <2>1. ReceiptRow(p) \notin DOMAIN own
    BY <1>1, <1>3 DEF Locks
  <2>2. base2[ReceiptRow(p)] = Value(base, own, ReceiptRow(p))
    BY MergedRows DEF Committing
  <2> QED BY <2>1, <2>2 DEF Value
<1>5. NoReceipts(base)
  BY <1>2, <1>4 DEF NoReceipts
<1> QED BY <1>3, <1>5

\* A cancelled order that stays out of the game: it holds nothing.
LEMMA StaysClosed ==
  ASSUME NEW sc, NEW base, NEW own, NEW c, NEW base2, Committing(sc, base, own, c, base2),
         c.handler # "receive", NEW k \in Rows,
         base[ReservationRow(k)].status # "ACTIVE",
         c.handler = "create" => k[1] # c.order
  PROVE  base2[ReservationRow(k)].status # "ACTIVE"
<1>1. base2[ReservationRow(k)] = Value(base, own, ReservationRow(k))
  BY MergedRows DEF Committing
<1>2. RowsLocal(base, own, c)
  BY DEF Committing, Local
<1>3. CASE ReservationRow(k) \in DOMAIN own
  BY <1>1, <1>2, <1>3 DEF RowsLocal, Value
<1>4. CASE ReservationRow(k) \notin DOMAIN own
  BY <1>1, <1>4 DEF Value
<1> QED BY <1>3, <1>4

LEMMA CommitClosed ==
  ASSUME NEW sc, NEW base, NEW own, NEW c, NEW base2, Committing(sc, base, own, c, base2)
  PROVE  ClosedBase(base2)
<1> SUFFICES ASSUME NoReceipts(base2), NEW d \in Orders
             PROVE  /\ base2[OrderRow(d)].status \in Waiting \cup {"NONE", "CANCELLED"} =>
                         \A p \in Products : base2[OrderRow(d)].delivered[p] = 0
                    /\ base2[OrderRow(d)].status = "CANCELLED" =>
                         \A k \in Rows : k[1] = d => base2[ReservationRow(k)].status # "ACTIVE"
  BY DEF ClosedBase
<1> DEFINE old == base[OrderRow(d)]
           new == base2[OrderRow(d)]
<1>1. NoReceipts(base) /\ c.handler # "receive"
  BY NothingCame
<1>2. /\ c.step = "commit" /\ Locks(DOMAIN own, c) /\ Memory(c) /\ StepsOf(c) /\ c.handler \in Handlers
      /\ GoodsLocal(base, own, c) /\ ListLocal(sc.handlers, base, own, c)
  BY DEF Committing, Local, Shape, CallRecords
<1>3. /\ old.status \in Waiting \cup {"NONE", "CANCELLED"} => \A p \in Products : old.delivered[p] = 0
      /\ old.status = "CANCELLED" => \A k \in Rows : k[1] = d => base[ReservationRow(k)].status # "ACTIVE"
  BY <1>1 DEF Committing, Base, ClosedBase
<1>4. /\ OrderRow(d) \notin DOMAIN own => new = old
      /\ OrderRow(d) \in DOMAIN own => OrderStep(c, old, new) /\ d = c.order
  BY <1>1, <1>2, OrderAfter DEF Locks
<1>5. \A p \in Products : new.delivered[p] = old.delivered[p] + SentOut(base, own, d, p)
                          /\ old.delivered[p] \in Nat
  BY GoodsAfter
<1> HIDE DEF old, new
<1>6. ASSUME new.status \in Waiting \cup {"NONE", "CANCELLED"}
      PROVE  \A p \in Products : new.delivered[p] = 0
  <2>1. CASE OrderRow(d) \notin DOMAIN own
    BY <1>3, <1>4, <1>6, <2>1
  <2>2. CASE OrderRow(d) \in DOMAIN own
    <3>1. c.handler # "deliver"
      BY <1>2, <1>4, <1>6, <2>2 DEF OrderStep, Waiting
    <3>2. old.status \in Waiting \cup {"NONE", "CANCELLED"}
      BY <1>1, <1>2, <1>4, <1>6, <2>2, <3>1 DEF OrderStep, Waiting, Handlers, Releasing, Fulfilment, StepsOf
    <3>3. \A p \in Products : SentOut(base, own, d, p) = 0
      BY <1>2, <3>1 DEF GoodsLocal, Sent
    <3> QED BY <1>3, <1>5, <3>2, <3>3
  <2> QED BY <2>1, <2>2
<1>7. ASSUME new.status = "CANCELLED", NEW k \in Rows, k[1] = d
      PROVE  base2[ReservationRow(k)].status # "ACTIVE"
  <2>1. CASE old.status = "CANCELLED"
    <3>1. base[ReservationRow(k)].status # "ACTIVE"
      BY <1>3, <1>7, <2>1
    <3>2. c.handler = "create" => d # c.order
      <4> SUFFICES ASSUME c.handler = "create", d = c.order
                   PROVE  FALSE
        OBVIOUS
      <4>1. OrderRow(d) \in DOMAIN own
        BY <1>2 DEF Locks
      <4> QED BY <1>4, <1>7, <4>1 DEF OrderStep, Waiting
    <3> QED BY <1>1, <1>7, <3>1, <3>2, StaysClosed
  <2>2. CASE old.status # "CANCELLED"
    <3>1. OrderRow(d) \in DOMAIN own
      BY <1>4, <1>7, <2>2
    <3>2. c.handler \in {"cancel", "ttl"}
      BY <1>1, <1>2, <1>4, <1>7, <2>2, <3>1 DEF OrderStep, Waiting, Handlers, Releasing, Fulfilment, StepsOf
    <3>3. Fresh(base, own, c)
      BY <1>2, <1>4, <3>1 DEF Fresh
    <3>4. DOMAIN c.rows = {}
      BY <1>2, <3>2 DEF Memory, Releasing
    <3>5. Value(base, own, ReservationRow(k)).status # "ACTIVE"
      BY <1>1, <1>2, <1>4, <1>7, <3>1, <3>2, <3>3, <3>4 DEF ListLocal
    <3>6. base2[ReservationRow(k)] = Value(base, own, ReservationRow(k))
      BY MergedRows DEF Committing
    <3> QED BY <3>5, <3>6
  <2> QED BY <2>1, <2>2
<1> QED BY <1>6, <1>7 DEF old, new
-----------------------------------------------------------------------------
\* What a commit leaves of the other transactions: they hold other rows.

Beside(sc, base, own, c, base2, his, e) ==
  /\ Committing(sc, base, own, c, base2)
  /\ Typed(his) /\ Shape(e) /\ Locks(DOMAIN his, e) /\ Local(sc, base, his, e)
  /\ DOMAIN own \cap DOMAIN his = {}

LEMMA RowsKept ==
  ASSUME NEW sc, NEW base, NEW own, NEW c, NEW base2, NEW his, NEW e,
         Beside(sc, base, own, c, base2, his, e), NEW r \in AllRows, r \in DOMAIN his
  PROVE  base2[r] = base[r] /\ r \notin DOMAIN own
BY DEF Beside, Committing, Merged, Value

LEMMA KnownTypes ==
  ASSUME NEW base, TypedBase(base)
  PROVE  /\ \A p \in Products : base[BalanceRow(p)] \in Balances /\ base[BalanceRow(p)].onHand \in Int
         /\ \A d \in Orders : base[OrderRow(d)] \in OrderRecords /\ base[OrderRow(d)].version \in Nat
                              /\ \A p \in Products : base[OrderRow(d)].delivered[p] \in Nat
         /\ \A p \in Products : base[ReceiptRow(p)] \in Nat
<1>1. /\ \A p \in Products : base[BalanceRow(p)] \in Balances
      /\ \A d \in Orders : base[OrderRow(d)] \in OrderRecords
      /\ \A p \in Products : base[ReceiptRow(p)] \in Nat
  BY KnownRows, TypedValues DEF TypedBase
<1> QED BY <1>1 DEF Balances, OrderRecords

\* The order that a versioned call has read, after somebody's commit.
LEMMA ReadBefore ==
  ASSUME NEW sc, NEW base, NEW own, NEW c, NEW base2, NEW his, NEW e,
         Beside(sc, base, own, c, base2, his, e),
         e.handler \in Fulfilment \cup {"cancel", "ttl"}
  PROVE  /\ e.order \in Orders
         /\ base[OrderRow(e.order)].status # "NONE" /\ base2[OrderRow(e.order)].status # "NONE"
         /\ Versioned(e) => /\ e.version <= base2[OrderRow(e.order)].version
                            /\ e.version = base2[OrderRow(e.order)].version =>
                                 /\ base[OrderRow(e.order)].version = e.version
                                 /\ base2[OrderRow(e.order)].status = base[OrderRow(e.order)].status
<1>1. e.order \in Orders /\ e.version \in Nat /\ OrderLocal(base, his, e)
  BY DEF Beside, Local, Shape, Memory, CallRecords, Fulfilment
<1> DEFINE old == base[OrderRow(e.order)]
           new == base2[OrderRow(e.order)]
<1>2. old.version \in Nat /\ new.version \in Nat
  BY <1>1, KnownTypes DEF Beside, Committing
<1>3. /\ old.status # "NONE" => new.status # "NONE"
      /\ new.version >= old.version
      /\ (new.version = old.version /\ old.status # "NONE") => new.status = old.status
  BY <1>1, OrderAfter DEF Beside
<1>4. old.status # "NONE" /\ (Versioned(e) => e.version <= old.version)
  BY <1>1 DEF OrderLocal
<1> HIDE DEF old, new
<1>5. Versioned(e) => /\ e.version <= new.version
                      /\ e.version = new.version => old.version = e.version /\ new.status = old.status
  BY <1>1, <1>2, <1>3, <1>4
<1> QED BY <1>1, <1>3, <1>4, <1>5 DEF old, new

LEMMA OtherOrder ==
  ASSUME NEW sc, NEW base, NEW own, NEW c, NEW base2, NEW his, NEW e,
         Beside(sc, base, own, c, base2, his, e)
  PROVE  OrderLocal(base2, his, e)
<1>1. OrderLocal(base, his, e) /\ Locks(DOMAIN his, e) /\ Memory(e)
  BY DEF Beside, Local, Shape
<1>2. \A d \in Orders : OrderRow(d) \in DOMAIN his => base2[OrderRow(d)] = base[OrderRow(d)]
  BY KnownRows, RowsKept
<1>3. \A d \in Orders : OrderRow(d) \in DOMAIN his => OrderStep(e, base2[OrderRow(d)], his[OrderRow(d)])
  BY <1>1, <1>2 DEF OrderLocal
<1>4. e.handler \in Fulfilment \cup {"cancel", "ttl"} => base2[OrderRow(e.order)].status # "NONE"
  BY ReadBefore
<1>5. ASSUME Versioned(e)
      PROVE  /\ e.version <= base2[OrderRow(e.order)].version
             /\ base2[OrderRow(e.order)].version = e.version =>
                  IF e.handler = "confirm" THEN base2[OrderRow(e.order)].status # "CANCELLED"
                  ELSE base2[OrderRow(e.order)].status \in Waiting
  <2>1. e.handler \in Fulfilment \cup {"cancel", "ttl"}
    BY <1>5 DEF Versioned, Fulfilment
  <2>2. base[OrderRow(e.order)].version = e.version =>
          IF e.handler = "confirm" THEN base[OrderRow(e.order)].status # "CANCELLED"
          ELSE base[OrderRow(e.order)].status \in Waiting
    BY <1>1, <1>5 DEF OrderLocal
  <2> QED BY <1>5, <2>1, <2>2, ReadBefore
<1>6. e.handler = "confirm" /\ e.step = "commit" => base2[OrderRow(e.order)].status # "CANCELLED"
  <2> SUFFICES ASSUME e.handler = "confirm" /\ e.step = "commit"
               PROVE  base2[OrderRow(e.order)].status # "CANCELLED"
    OBVIOUS
  <2>1. e.order \in Orders /\ HasOrder(e)
    BY <1>1 DEF Memory, HasOrder, Fulfilment
  <2>2. OrderRow(e.order) \in DOMAIN his
    BY <1>1, <2>1 DEF Locks, Fulfilment
  <2> QED BY <1>1, <1>2, <2>1, <2>2 DEF OrderLocal
<1> QED BY <1>3, <1>4, <1>5, <1>6 DEF OrderLocal

LEMMA OtherGoods ==
  ASSUME NEW sc, NEW base, NEW own, NEW c, NEW base2, NEW his, NEW e,
         Beside(sc, base, own, c, base2, his, e)
  PROVE  GoodsLocal(base2, his, e)
<1>1. GoodsLocal(base, his, e) /\ TypedBase(base) /\ TypedBase(base2)
  BY DEF Beside, Local, Committing
<1>2. \A p \in Products : OnHand(base2, his, p) = OnHand(base, his, p)
  <2> TAKE p \in Products
  <2>1. base[BalanceRow(p)].onHand \in Int /\ base2[BalanceRow(p)].onHand \in Int
    BY <1>1, KnownTypes
  <2>2. BalanceRow(p) \in DOMAIN his => base2[BalanceRow(p)] = base[BalanceRow(p)]
    BY KnownRows, RowsKept
  <2> QED BY <2>1, <2>2 DEF OnHand, Value
<1>3. \A p \in Products : CameIn(base2, his, p) = CameIn(base, his, p)
  <2> TAKE p \in Products
  <2>1. base[ReceiptRow(p)] \in Nat /\ base2[ReceiptRow(p)] \in Nat
    BY <1>1, KnownTypes
  <2>2. ReceiptRow(p) \in DOMAIN his => base2[ReceiptRow(p)] = base[ReceiptRow(p)]
    BY KnownRows, RowsKept
  <2> QED BY <2>1, <2>2 DEF CameIn, Value
<1>4. \A d \in Orders, p \in Products : SentOut(base2, his, d, p) = SentOut(base, his, d, p)
  <2> TAKE d \in Orders, p \in Products
  <2>1. base[OrderRow(d)].delivered[p] \in Nat /\ base2[OrderRow(d)].delivered[p] \in Nat
    BY <1>1, KnownTypes
  <2>2. OrderRow(d) \in DOMAIN his => base2[OrderRow(d)] = base[OrderRow(d)]
    BY KnownRows, RowsKept
  <2> QED BY <2>1, <2>2 DEF SentOut, Value
<1> QED BY <1>1, <1>2, <1>3, <1>4 DEF GoodsLocal

LEMMA OtherPaid ==
  ASSUME NEW sc, NEW base, NEW own, NEW c, NEW base2, NEW his, NEW e,
         Beside(sc, base, own, c, base2, his, e)
  PROVE  PaidLocal(base2, his, e)
<1>1. /\ PaidLocal(base, his, e) /\ Locks(DOMAIN his, e) /\ Locks(DOMAIN own, c) /\ Memory(c)
      /\ c.step = "commit" /\ DOMAIN own \cap DOMAIN his = {} /\ Merged(base, own, base2)
  BY DEF Beside, Local, Committing, Shape
<1>2. \A d \in Orders : OrderRow(d) \in DOMAIN his => base2[OrderRow(d)] = base[OrderRow(d)]
  BY KnownRows, RowsKept
<1>3. ASSUME NEW d \in Orders, OrderRow(d) \in DOMAIN his
      PROVE  Confirmed([k \in Payments |-> Value(base2, his, PaymentRow(k))], d)
               = Confirmed([k \in Payments |-> Value(base, his, PaymentRow(k))], d)
  <2> DEFINE f == [k \in Payments |-> Value(base, his, PaymentRow(k))]
             g == [k \in Payments |-> Value(base2, his, PaymentRow(k))]
  <2>1. ASSUME NEW n \in 1..NumPayments
        PROVE  f[<<d, n>>] = "CONFIRMED" <=> g[<<d, n>>] = "CONFIRMED"
    <3>1. <<d, n>> \in Payments
      BY DEF Payments
    <3>2. PaymentRow(<<d, n>>) \notin DOMAIN own
      <4> SUFFICES ASSUME PaymentRow(<<d, n>>) \in DOMAIN own
                   PROVE  FALSE
        OBVIOUS
      <4>1. c.handler = "confirm" /\ <<d, n>> = c.payment
        BY <1>1, <3>1 DEF Locks
      <4>2. c.order = d /\ HasOrder(c)
        BY <1>1, <4>1 DEF Memory, HasOrder, Fulfilment
      <4>3. OrderRow(d) \in DOMAIN own
        BY <1>1, <4>1, <4>2 DEF Locks, Fulfilment
      <4> QED BY <1>1, <1>3, <4>3
    <3>3. base2[PaymentRow(<<d, n>>)] = base[PaymentRow(<<d, n>>)]
      BY <1>1, <3>1, <3>2, KnownRows DEF Merged, Value
    <3> QED BY <3>1, <3>3 DEF Value
  <2>2. NumPayments \in Nat
    BY SizesAssumption
  <2> HIDE DEF f, g
  <2>3. Confirmed(g, d) = Confirmed(f, d)
    BY ONLY <2>1, <2>2, ConfirmedSame
  <2> QED BY <2>3 DEF f, g
<1> QED BY <1>1, <1>2, <1>3 DEF PaidLocal

LEMMA OtherRows ==
  ASSUME NEW sc, NEW base, NEW own, NEW c, NEW base2, NEW his, NEW e,
         Beside(sc, base, own, c, base2, his, e)
  PROVE  RowsLocal(base2, his, e)
<1>1. RowsLocal(base, his, e)
  BY DEF Beside, Local
<1>2. \A k \in Rows : ReservationRow(k) \in DOMAIN his => base2[ReservationRow(k)] = base[ReservationRow(k)]
  BY KnownRows, RowsKept
<1> QED BY <1>1, <1>2 DEF RowsLocal
LEMMA FreshBefore ==
  ASSUME NEW sc, NEW base, NEW own, NEW c, NEW base2, NEW his, NEW e,
         Beside(sc, base, own, c, base2, his, e),
         e.handler \in {"cancel", "ttl"}, Fresh(base2, his, e)
  PROVE  Fresh(base, his, e)
<1>1. Versioned(e) /\ e.handler \in Fulfilment \cup {"cancel", "ttl"}
  BY DEF Versioned
<1> QED BY <1>1, ReadBefore DEF Fresh

\* Users change an ACTIVE row only together with its order, and its version.
LEMMA ListedKept ==
  ASSUME NEW sc, NEW base, NEW own, NEW c, NEW base2, NEW his, NEW e,
         Beside(sc, base, own, c, base2, his, e), NoJobs(sc.handlers),
         e.handler = "cancel", Fresh(base2, his, e),
         NEW k \in Rows, k[1] = e.order, base[ReservationRow(k)].status = "ACTIVE"
  PROVE  base2[ReservationRow(k)] = base[ReservationRow(k)]
<1>1. /\ RowsLocal(base, own, c) /\ OrderLocal(base, own, c) /\ LedgerLocal(sc.handlers, base, own, c)
      /\ Locks(DOMAIN own, c) /\ c.step = "commit" /\ DOMAIN own \cap DOMAIN his = {}
      /\ Merged(base, own, base2) /\ TypedBase(base) /\ TypedBase(base2)
  BY DEF Beside, Local, Committing
<1>2. CASE ReservationRow(k) \notin DOMAIN own
  BY <1>1, <1>2, KnownRows DEF Merged, Value
<1>3. CASE ReservationRow(k) \in DOMAIN own
  <2>1. c.handler \in Releasing \cup {"deliver"} /\ k[1] = c.order
    BY <1>1, <1>3 DEF RowsLocal
  <2>2. c.handler \in {"cancel", "deliver"}
    BY <1>1, <2>1 DEF LedgerLocal, NoJobs, Releasing
  <2>3. e.order \in Orders /\ c.order = e.order
    BY <2>1, ReadBefore
  <2>4. OrderRow(e.order) \in DOMAIN own
    BY <1>1, <2>2, <2>3 DEF Locks, HasOrder, Fulfilment
  <2>5. OrderStep(c, base[OrderRow(e.order)], base2[OrderRow(e.order)])
    BY <2>3, <2>4, OrderAfter DEF Beside
  <2>6. base2[OrderRow(e.order)].version > base[OrderRow(e.order)].version
    BY <1>1, <2>2, <2>5 DEF OrderStep
  <2>7. e.step # "commit" /\ base2[OrderRow(e.order)].version = e.version
    BY <1>1, <2>4 DEF Fresh
  <2>8. base[OrderRow(e.order)].version = e.version
    BY <2>7, ReadBefore DEF Versioned
  <2>9. base2[OrderRow(e.order)].version \in Nat
    BY <1>1, <2>3, KnownTypes
  <2> QED BY <2>6, <2>7, <2>8, <2>9
<1> QED BY <1>2, <1>3

LEMMA OtherList ==
  ASSUME NEW sc, NEW base, NEW own, NEW c, NEW base2, NEW his, NEW e,
         Beside(sc, base, own, c, base2, his, e)
  PROVE  ListLocal(sc.handlers, base2, his, e)
<1>1. /\ ListLocal(sc.handlers, base, his, e) /\ OrderLocal(base, his, e) /\ Memory(e) /\ e \in CallRecords
      /\ Committing(sc, base, own, c, base2) /\ Locks(DOMAIN own, c)
  BY DEF Beside, Local, Shape, Committing
<1>2. DOMAIN e.rows \subseteq Rows
  BY <1>1 DEF CallRecords
<1>3. ASSUME e.handler = "cancel" /\ NoJobs(sc.handlers) /\ Fresh(base2, his, e), NEW k \in DOMAIN e.rows
      PROVE  base2[ReservationRow(k)].status = "ACTIVE" /\ base2[ReservationRow(k)].quantity = e.rows[k]
  <2>1. Fresh(base, his, e)
    BY <1>3, FreshBefore
  <2>2. base[ReservationRow(k)].status = "ACTIVE" /\ base[ReservationRow(k)].quantity = e.rows[k]
    BY <1>1, <1>3, <2>1 DEF ListLocal
  <2>3. k \in Rows /\ k[1] = e.order
    BY <1>1, <1>2, <1>3 DEF Memory, Releasing
  <2> QED BY <1>3, <2>2, <2>3, ListedKept
<1>4. ASSUME e.handler \in {"cancel", "ttl"}, e.step # "readRows", NoReceipts(base2), Fresh(base2, his, e),
             NEW k \in Rows, k[1] = e.order, Value(base2, his, ReservationRow(k)).status = "ACTIVE"
      PROVE  k \in DOMAIN e.rows
  <2>1. NoReceipts(base) /\ c.handler # "receive"
    BY <1>1, <1>4, NothingCame
  <2>2. Fresh(base, his, e)
    BY <1>4, FreshBefore
  <2>3. Value(base, his, ReservationRow(k)).status = "ACTIVE"
    <3>1. CASE ReservationRow(k) \in DOMAIN his
      BY <1>4, <3>1 DEF Value
    <3>2. CASE ReservationRow(k) \notin DOMAIN his
      <4>1. base2[ReservationRow(k)].status = "ACTIVE"
        BY <1>4, <3>2 DEF Value
      <4>2. ~(c.handler = "create" /\ k[1] = c.order)
        <5> SUFFICES ASSUME c.handler = "create", k[1] = c.order
                     PROVE  FALSE
          OBVIOUS
        <5>1. e.order \in Orders /\ c.order = e.order /\ base[OrderRow(e.order)].status # "NONE"
          BY <1>4, ReadBefore
        <5>2. OrderRow(e.order) \in DOMAIN own
          BY <1>1, <5>1 DEF Locks
        <5>3. OrderStep(c, base[OrderRow(e.order)], base2[OrderRow(e.order)])
          BY <1>1, <5>1, <5>2, OrderAfter
        <5> QED BY <5>1, <5>3 DEF OrderStep
      <4>3. base[ReservationRow(k)].status = "ACTIVE"
        BY <1>1, <2>1, <4>1, <4>2, StaysClosed
      <4> QED BY <3>2, <4>3 DEF Value
    <3> QED BY <3>1, <3>2
  <2> QED BY <1>1, <1>4, <2>1, <2>2, <2>3 DEF ListLocal
<1>5. e.handler \in {"cancel", "ttl"} => \A k \in DOMAIN e.rows : ReservationRow(k) \notin DOMAIN his
  BY <1>1 DEF ListLocal
<1> QED BY <1>3, <1>4, <1>5 DEF ListLocal

LEMMA OtherLedger ==
  ASSUME NEW sc, NEW base, NEW own, NEW c, NEW base2, NEW his, NEW e,
         Beside(sc, base, own, c, base2, his, e)
  PROVE  LedgerLocal(sc.handlers, base2, his, e)
<1>1. /\ LedgerLocal(sc.handlers, base, his, e) /\ Locks(DOMAIN own, c) /\ DOMAIN own \cap DOMAIN his = {}
      /\ TypedBase(base) /\ TypedBase(base2) /\ Typed(his) /\ Merged(base, own, base2)
  BY DEF Beside, Local, Committing
<1>2. ASSUME NoJobs(sc.handlers), e.handler = "cancel" => Fresh(base2, his, e),
             NEW p \in Products, BalanceRow(p) \in DOMAIN his
      PROVE  his[BalanceRow(p)].reserved = HeldAll(HeldRows(base2, his), p)
  <2>1. e.handler = "cancel" => Fresh(base, his, e)
    BY <1>2, FreshBefore
  <2>2. his[BalanceRow(p)].reserved = HeldAll(HeldRows(base, his), p)
    BY <1>1, <1>2, <2>1 DEF LedgerLocal
  <2>3. \A k \in Rows : k[2] = p => ReservationRow(k) \notin DOMAIN own
    BY <1>1, <1>2 DEF Locks
  <2>4. \A k \in Rows : k[2] = p => base2[ReservationRow(k)] = base[ReservationRow(k)]
    BY <1>1, <2>3, KnownRows DEF Merged, Value
  <2>5. \A k \in Rows : k[2] = p => Value(base2, his, ReservationRow(k)) = Value(base, his, ReservationRow(k))
    BY <2>4 DEF Value
  <2>6. \A k \in Rows : k[2] = p => HeldRows(base2, his)[k] = HeldRows(base, his)[k]
    BY <1>1, <2>5, HeldRowsTyped
  <2>7. HeldAll(HeldRows(base2, his), p) = HeldAll(HeldRows(base, his), p)
    BY <1>1, <2>6, HeldRowsTyped, HeldOthers
  <2> QED BY <2>2, <2>7
<1>3. /\ e.handler \in sc.handlers \cup {"none"}
      /\ e.step \in {"stock", "consume"} =>
           SumUpTo(Listed(e.rows, e.order, e.product), NumRows) >= e.quantity[e.product]
  BY <1>1 DEF LedgerLocal
<1> QED BY <1>2, <1>3 DEF LedgerLocal

LEMMA OtherLocal ==
  ASSUME NEW sc, NEW base, NEW own, NEW c, NEW base2, NEW his, NEW e,
         Beside(sc, base, own, c, base2, his, e)
  PROVE  Local(sc, base2, his, e)
BY OtherOrder, OtherGoods, OtherPaid, OtherRows, OtherList, OtherLedger DEF Local

\* A commit keeps the invariant.
LEMMA CommitSound ==
  ASSUME TxSound, TxTypes', NEW s \in Sessions, Commit(s)
  PROVE  TxSound'
<1>1. /\ Committing(scenario, db, mine[s], call[s], db')
      /\ mine'[s] = Nothing /\ call'[s] = Idle /\ UNCHANGED scenario
      /\ \A t \in Sessions \ {s} : mine'[t] = mine[t] /\ call'[t] = call[t]
  BY CommitFacts
<1>2. scenario \in Scenarios
  BY SoundFacts
<1>3. Base(scenario, db')
  BY <1>1, <1>2, CommitOrders, CommitGoods, CommitPaid, CommitLedger, CommitClosed DEF Base
<1>4. Local(scenario, db', mine'[s], call'[s])
  <2>1. TypedBase(db')
    BY <1>1 DEF Committing
  <2>2. DOMAIN Nothing = {} /\ Idle.handler = "none" /\ Idle.step = "idle"
    BY DEF Nothing, Idle
  <2> QED BY <1>1, <2>1, <2>2, IdleLocal
<1>5. ASSUME NEW t \in Sessions \ {s}
      PROVE  Local(scenario, db', mine'[t], call'[t])
  <2>1. /\ Typed(mine[t]) /\ Shape(call[t]) /\ Locks(DOMAIN mine[t], call[t])
        /\ Local(scenario, db, mine[t], call[t])
    BY SoundFacts DEF Shape
  <2>2. DOMAIN mine[s] \cap DOMAIN mine[t] = {}
    BY DEF TxSound, TxTypes, Exclusive
  <2>3. Beside(scenario, db, mine[s], call[s], db', mine[t], call[t])
    BY <1>1, <2>1, <2>2 DEF Beside
  <2> QED BY <1>1, <2>3, OtherLocal
<1>6. \A t \in Sessions : Local(scenario, db', mine'[t], call'[t])
  BY <1>4, <1>5
<1> QED BY <1>1, <1>3, <1>6 DEF TxSound
-----------------------------------------------------------------------------
\* The first state, and the clock.

LEMMA IdleSound ==
  ASSUME NEW sc, NEW base, TypedBase(base), SessionsTyped, NEW s \in Sessions, At(s, "idle")
  PROVE  Local(sc, base, mine[s], call[s])
<1>1. Shape(call[s]) /\ Locks(DOMAIN mine[s], call[s]) /\ call[s].step = "idle"
  BY DEF SessionsTyped, LocalTypes, At
<1>2. call[s].handler = "none" /\ DOMAIN mine[s] = {}
  BY <1>1 DEF Shape, StepsOf, Locks
<1> QED BY <1>1, <1>2, IdleLocal

LEMMA ThreeDaysSound ==
  ASSUME TxSound, ThreeDaysPass
  PROVE  TxSound'
<1>1. TxTypes /\ TxTypes' /\ Aged(db, db') /\ UNCHANGED <<mine, call, calls, scenario>>
  BY ThreeDaysEffect DEF TxSound
<1>2. Base(scenario, db) /\ TypedBase(db) /\ TypedBase(db') /\ SessionsTyped
  BY <1>1 DEF TxSound, TxTypes, SessionsTyped, TypedBase
<1>3. \A d \in Orders : /\ db'[OrderRow(d)].status = db[OrderRow(d)].status
                        /\ db'[OrderRow(d)].version = db[OrderRow(d)].version
                        /\ db'[OrderRow(d)].delivered = db[OrderRow(d)].delivered
                        /\ db'[OrderRow(d)].paidAmount = db[OrderRow(d)].paidAmount
                        /\ db'[OrderRow(d)].paymentStatus = db[OrderRow(d)].paymentStatus
  BY <1>1, <1>2, KnownTypes DEF Aged, OrderChanged
<1>4. /\ \A p \in Products : db'[BalanceRow(p)] = db[BalanceRow(p)]
      /\ \A k \in Payments : db'[PaymentRow(k)] = db[PaymentRow(k)]
      /\ \A p \in Products : db'[ReceiptRow(p)] = db[ReceiptRow(p)]
      /\ \A k \in Rows : /\ db'[ReservationRow(k)].status = db[ReservationRow(k)].status
                         /\ db'[ReservationRow(k)].quantity = db[ReservationRow(k)].quantity
  BY <1>1 DEF Aged
<1>5. OrderBase(db')
  BY <1>2, <1>3 DEF Base, OrderBase
<1>6. GoodsBase(scenario.stock, db')
  <2>1. \A p \in Products : Delivered(db', p) = Delivered(db, p)
    BY <1>3, DeliveredUnchanged
  <2> QED BY <1>2, <1>4, <2>1 DEF Base, GoodsBase
<1>7. PaidBase(db')
  <2>1. [k \in Payments |-> db'[PaymentRow(k)]] = [k \in Payments |-> db[PaymentRow(k)]]
    BY <1>4
  <2> QED BY <1>2, <1>3, <2>1 DEF Base, PaidBase, PaidOrder
<1>8. LedgerBase(scenario.handlers, db')
  <2>1. \A k \in Rows : RowHeld(Value(db', Nothing, ReservationRow(k))) = RowHeld(Value(db, Nothing, ReservationRow(k)))
    BY <1>4 DEF Value, Nothing, RowHeld
  <2>2. HeldRows(db', Nothing) = HeldRows(db, Nothing)
    BY <2>1 DEF HeldRows
  <2> QED BY <1>2, <1>4, <2>2 DEF Base, LedgerBase
<1>9. ClosedBase(db')
  BY <1>2, <1>3, <1>4 DEF Base, ClosedBase, NoReceipts
<1>10. \A s \in Sessions : Local(scenario, db', mine[s], call[s])
  BY <1>2, IdleSound DEF ThreeDaysPass
<1>11. Base(scenario, db')
  BY <1>5, <1>6, <1>7, <1>8, <1>9 DEF Base
<1> QED BY <1>1, <1>10, <1>11 DEF TxSound

\* The reservation of an order in the first state is its oldest row.
LEMMA FirstHeld ==
  ASSUME NEW f, NEW d \in Orders, NEW p \in Products, NEW x \in Nat,
         \A n \in 1..NumRows : f[<<d, p, n>>] = IF n = 1 THEN x ELSE 0
  PROVE  HeldFor(f, d, p) = x
<1> DEFINE F == [n \in 1..NumRows |-> f[<<d, p, n>>]]
           G == [n \in 1..NumRows |-> 0]
<1>1. NumRows \in Nat /\ 1 \in 1..NumRows
  BY SizesAssumption
<1>2. /\ \A n \in 1..NumRows : G[n] = 0 /\ G[n] \in Int
      /\ \A n \in 1..NumRows : G[n] \in Int /\ F[n] \in Int
      /\ \A n \in 1..NumRows : n # 1 => F[n] = G[n]
      /\ F[1] = x
  BY <1>1
<1> HIDE DEF F, G
<1>3. SumUpTo(G, NumRows) = 0
  BY ONLY <1>1, <1>2, SumZeros
<1>4. SumUpTo(F, NumRows) = SumUpTo(G, NumRows) - G[1] + F[1]
  <2>1. PICK j \in 1..NumRows : j = 1
    BY <1>1
  <2>2. \A n \in 1..NumRows : n # j => F[n] = G[n]
    BY <1>2, <2>1
  <2>3. SumUpTo(F, NumRows) = SumUpTo(G, NumRows) - G[j] + F[j]
    BY ONLY <1>1, <1>2, <2>2, SumPoint
  <2> QED BY <2>1, <2>3
<1>5. SumUpTo(F, NumRows) = x
  BY <1>1, <1>2, <1>3, <1>4
<1> QED BY <1>5 DEF HeldFor, F

LEMMA InitSound ==
  ASSUME Init
  PROVE  TxSound
<1>1. TxTypes /\ SessionsTyped /\ TypedBase(db) /\ scenario \in Scenarios
  BY InitTypes DEF TxTypes, SessionsTyped, TypedBase
<1>2. PICK status, paid :
        /\ Began(status, paid)
        /\ \A p \in Products : db[BalanceRow(p)] =
             [onHand |-> scenario.stock[p], reserved |-> HeldAtFirst(status, p),
              available |-> scenario.stock[p] - HeldAtFirst(status, p), version |-> 0]
        /\ \A d \in Orders : db[OrderRow(d)] = NewOrder(status[d], d, Confirmed(paid, d))
        /\ \A k \in Payments : db[PaymentRow(k)] = paid[k]
        /\ \A k \in Rows : db[ReservationRow(k)] =
             IF k[3] = 1 /\ AtFirst(status, k[1], k[2]) > 0
             THEN [quantity |-> scenario.items[k[1]][k[2]], status |-> "ACTIVE", old |-> FALSE]
             ELSE NoRow
        /\ \A p \in Products : db[ReceiptRow(p)] = 0
  BY InitTables
<1>3. /\ NumPayments \in Nat /\ TotalAmount \in Nat /\ NumOrders \in Nat /\ NumRows \in Nat
      /\ \A d \in Orders, p \in Products : scenario.items[d][p] \in Nat
      /\ \A p \in Products : scenario.stock[p] \in Nat
  BY <1>1, ScenarioType
<1>4. \A d \in Orders : /\ db[OrderRow(d)].status = status[d] /\ db[OrderRow(d)].version = 0
                        /\ \A p \in Products : db[OrderRow(d)].delivered[p] = 0
                        /\ db[OrderRow(d)].paidAmount = Confirmed(paid, d)
                        /\ db[OrderRow(d)].paymentStatus = calculatePaymentStatus(Confirmed(paid, d))
  <2> TAKE d \in Orders
  <2> DEFINE o == db[OrderRow(d)]
             x == Confirmed(paid, d)
             st == status[d]
  <2>1. o = NewOrder(st, d, x)
    BY <1>2
  <2> HIDE DEF o, x, st
  <2>2. /\ o.status = st /\ o.version = 0 /\ o.delivered = [p \in Products |-> 0]
        /\ o.paidAmount = x /\ o.paymentStatus = calculatePaymentStatus(x)
    BY ONLY <2>1 DEF NewOrder
  <2>3. \A p \in Products : o.delivered[p] = 0
    BY ONLY <2>2
  <2> QED BY <2>2, <2>3 DEF o, x, st
<1>a. \A p \in Products : /\ db[BalanceRow(p)].onHand = scenario.stock[p]
                          /\ db[BalanceRow(p)].reserved = HeldAtFirst(status, p)
                          /\ db[BalanceRow(p)].available = scenario.stock[p] - HeldAtFirst(status, p)
                          /\ db[ReceiptRow(p)] = 0
  <2> TAKE p \in Products
  <2>1. db[ReceiptRow(p)] = 0
    BY <1>2
  <2> DEFINE b == db[BalanceRow(p)]
             x == scenario.stock[p]
             y == HeldAtFirst(status, p)
  <2>2. b = [onHand |-> x, reserved |-> y, available |-> x - y, version |-> 0]
    BY <1>2
  <2> HIDE DEF b, x, y
  <2>3. b.onHand = x /\ b.reserved = y /\ b.available = x - y
    BY ONLY <2>2
  <2> QED BY <2>1, <2>3 DEF b, x, y
<1>5. \A d \in Orders : /\ Confirmed(paid, d) \in Nat /\ Confirmed(paid, d) <= TotalAmount
                        /\ status[d] = "NONE" => Confirmed(paid, d) = 0
  <2> TAKE d \in Orders
  <2>1. Confirmed(paid, d) \in Nat
    BY <1>3, ConfirmedNat
  <2>2. Confirmed(paid, d) > 0 => status[d] # "NONE" /\ Confirmed(paid, d) <= TotalAmount
    BY <1>2 DEF Began
  <2> DEFINE x == Confirmed(paid, d)
  <2> HIDE DEF x
  <2>3. x \in Nat /\ x <= TotalAmount /\ (status[d] = "NONE" => x = 0)
    BY <1>3, <2>1, <2>2 DEF x
  <2> QED BY <2>3 DEF x
<1>6. OrderBase(db)
  BY <1>4, <1>5 DEF OrderBase
<1>7. GoodsBase(scenario.stock, db)
  <2> SUFFICES ASSUME NEW p \in Products
               PROVE  /\ Balanced(db[BalanceRow(p)])
                      /\ db[BalanceRow(p)].onHand + Delivered(db, p) = scenario.stock[p] + db[ReceiptRow(p)]
    BY DEF GoodsBase
  <2> DEFINE f == [d \in Orders |-> db[OrderRow(d)].delivered[p]]
  <2>1. \A d \in 1..NumOrders : f[d] = 0
    BY <1>4 DEF Orders
  <2> HIDE DEF f
  <2>2. SumUpTo(f, NumOrders) = 0
    BY ONLY <1>3, <2>1, SumZeros
  <2>3. Delivered(db, p) = 0
    BY <2>2 DEF Delivered, f
  <2>4. HeldAtFirst(status, p) \in Nat /\ HeldAtFirst(status, p) <= scenario.stock[p]
    BY <1>1, <1>2, HeldAtFirstNat DEF Began
  <2> HIDE DEF HeldAtFirst
  <2> QED BY <1>3, <1>a, <2>3, <2>4 DEF Balanced
<1>8. PaidBase(db)
  <2> SUFFICES ASSUME NEW d \in Orders
               PROVE  PaidOrder(db[OrderRow(d)], Confirmed([k \in Payments |-> db[PaymentRow(k)]], d))
    BY DEF PaidBase
  <2> DEFINE g == [k \in Payments |-> db[PaymentRow(k)]]
  <2>1. \A n \in 1..NumPayments : paid[<<d, n>>] = "CONFIRMED" <=> g[<<d, n>>] = "CONFIRMED"
    BY <1>2 DEF Payments
  <2> HIDE DEF g
  <2>2. Confirmed(g, d) = Confirmed(paid, d)
    BY ONLY <1>3, <2>1, ConfirmedSame
  <2>3. PaidOrder(db[OrderRow(d)], Confirmed(g, d))
    BY <1>4, <1>5, <2>2 DEF PaidOrder
  <2> QED BY <2>3 DEF g
<1>9. LedgerBase(scenario.handlers, db)
  <2> SUFFICES ASSUME NEW p \in Products
               PROVE  db[BalanceRow(p)].reserved = HeldAll(HeldRows(db, Nothing), p)
    BY DEF LedgerBase
  <2>1. ASSUME NEW d \in Orders
        PROVE  HeldFor(HeldRows(db, Nothing), d, p) = AtFirst(status, d, p)
    <3>1. AtFirst(status, d, p) \in Nat /\ (AtFirst(status, d, p) > 0 => AtFirst(status, d, p) = scenario.items[d][p])
      BY <1>3 DEF AtFirst
    <3>2. ASSUME NEW n \in 1..NumRows
          PROVE  HeldRows(db, Nothing)[<<d, p, n>>] = IF n = 1 THEN AtFirst(status, d, p) ELSE 0
      <4>1. <<d, p, n>> \in Rows
        BY DEF Rows
      <4>2. HeldRows(db, Nothing)[<<d, p, n>>] = RowHeld(db[ReservationRow(<<d, p, n>>)])
        BY <4>1 DEF HeldRows, Value, Nothing
      <4>3. db[ReservationRow(<<d, p, n>>)] =
             IF n = 1 /\ AtFirst(status, d, p) > 0
             THEN [quantity |-> scenario.items[d][p], status |-> "ACTIVE", old |-> FALSE]
             ELSE NoRow
        BY <1>2, <4>1
      <4>4. RowHeld(NoRow) = 0
        BY DEF RowHeld, NoRow
      <4>5. RowHeld([quantity |-> scenario.items[d][p], status |-> "ACTIVE", old |-> FALSE]) = scenario.items[d][p]
        BY DEF RowHeld
      <4> QED BY <3>1, <4>2, <4>3, <4>4, <4>5
    <3> QED BY <3>1, <3>2, FirstHeld
  <2>2. [d \in Orders |-> HeldFor(HeldRows(db, Nothing), d, p)] = [d \in Orders |-> AtFirst(status, d, p)]
    BY <2>1
  <2>3. HeldAll(HeldRows(db, Nothing), p) = HeldAtFirst(status, p)
    BY <2>2 DEF HeldAll, HeldAtFirst
  <2> QED BY <1>a, <2>3
<1>10. ClosedBase(db)
  <2>1. \A d \in Orders : status[d] # "CANCELLED"
    BY <1>1, <1>2, SizesAssumption DEF Began
  <2> QED BY <1>4, <2>1 DEF ClosedBase
<1>11. Base(scenario, db)
  BY <1>6, <1>7, <1>8, <1>9, <1>10 DEF Base
<1>12. \A s \in Sessions : Local(scenario, db, mine[s], call[s])
  <2> TAKE s \in Sessions
  <2>1. At(s, "idle")
    BY DEF Init, At, Idle
  <2> QED BY <1>1, <2>1, IdleSound
<1> QED BY <1>1, <1>11, <1>12 DEF TxSound
-----------------------------------------------------------------------------
\* Every step keeps the invariant.

LEMMA NextSound ==
  ASSUME TxSound, [Next]_vars
  PROVE  TxSound'
<1>1. TxTypes /\ TxTypes'
  BY NextTypes DEF TxSound
<1>2. CASE UNCHANGED vars
  BY <1>1, <1>2 DEF vars, TxSound
<1>3. CASE ThreeDaysPass
  BY <1>3, ThreeDaysSound
<1>4. ASSUME NEW s \in Sessions, Rollback(s)
      PROVE  TxSound'
  BY <1>1, <1>4, RollbackSound, ContinuesSound
<1>5. ASSUME NEW s \in Sessions, StartCall(s)
      PROVE  TxSound'
  <2>1. ASSUME NEW d \in Orders, StartCreate(s, d)
        PROVE  Continues(s)
    BY <2>1, StartCreateSound
  <2>2. ASSUME NEW p \in Products, StartReceive(s, p)
        PROVE  Continues(s)
    BY <2>2, StartReceiveSound
  <2>3. ASSUME \/ \E d \in Orders :
                    \/ StartCancel(s, d) \/ StartTtl(s, d) \/ StartSupervisor(s, d)
                    \/ \E quantity \in [Products -> 0..MaxQuantity] : StartDeliver(s, d, quantity)
               \/ \E k \in Rows : StartExpire(s, k)
               \/ \E k \in Payments, verdict \in {"CONFIRMED", "REJECTED"} : StartConfirm(s, k, verdict)
        PROVE  Continues(s)
    BY <2>3, StartSound
  <2>4. Continues(s)
    BY <1>5, <2>1, <2>2, <2>3 DEF StartCall
  <2> QED BY <1>1, <2>4, ContinuesSound
<1>6. ASSUME NEW s \in Sessions, SessionStep(s)
      PROVE  TxSound'
  <2>1. CASE ReadBalance(s) \/ Claim(s) \/ Shortage(s)
    BY <1>1, <2>1, SilentSteps, ClaimSound, ShortageSound, ContinuesSound
  <2>2. CASE ReadRows(s) \/ ReadReleased(s) \/ GiveBack(s) \/ Close(s)
    BY <1>1, <1>4, <2>2, ReadRowsSound, SilentSteps, GiveBackSound, CloseSound, ContinuesSound
  <2>3. CASE Recheck(s) \/ Count(s) \/ Revert(s)
    BY <1>1, <1>4, <2>3, SilentSteps, RevertSound, ContinuesSound
  <2>4. CASE ReadOrder(s) \/ Lock(s) \/ Settle(s)
    BY <1>1, <1>4, <2>4, ReadOrderSound, LockSound, SettleSound, ContinuesSound
  <2>5. CASE Check(s) \/ ReadGoods(s) \/ ReadStock(s) \/ Consume(s) \/ Ship(s) \/ Supervise(s)
    BY <1>1, <1>4, <2>5, CheckSound, ReadGoodsSound, SilentSteps, ConsumeSound, ShipSound, SuperviseSound,
       ContinuesSound
  <2>6. CASE ReadArrival(s) \/ Put(s) \/ ListWaiting(s) \/ NextWaiting(s) \/ Promise(s)
    BY <1>1, <1>4, <2>6, SilentSteps, PutSound, PromiseSound, ContinuesSound
  <2>7. CASE Commit(s) \/ DeadlockVictim(s)
    BY <1>1, <1>4, <2>7, CommitSound DEF DeadlockVictim
  <2> QED BY <1>6, <2>1, <2>2, <2>3, <2>4, <2>5, <2>6, <2>7 DEF SessionStep
<1> QED BY <1>2, <1>3, <1>5, <1>6 DEF Next

\* Whatever runs together: the committed tables agree with each other, and an open transaction has
\* changed the rows it holds by what its handler does, compared with the committed ones.
THEOREM TransactionsSound == Spec => []TxSound
<1>1. Init => TxSound
  BY InitSound
<1>2. TxSound /\ [Next]_vars => TxSound'
  BY NextSound
<1> QED BY <1>1, <1>2, PTL DEF Spec

-----------------------------------------------------------------------------
\* What the committed tables promise.

LEMMA HeldCommitted ==
  ASSUME NEW p \in Products
  PROVE  /\ \A d \in Orders : Held(d, p) = HeldFor(HeldRows(db, Nothing), d, p)
         /\ TotalHeld(p) = HeldAll(HeldRows(db, Nothing), p)
<1>1. ASSUME NEW d \in Orders
      PROVE  Held(d, p) = HeldFor(HeldRows(db, Nothing), d, p)
  <2>1. \A n \in 1..NumRows :
          HeldRows(db, Nothing)[<<d, p, n>>]
            = IF db[ReservationRow(<<d, p, n>>)].status = "ACTIVE" THEN db[ReservationRow(<<d, p, n>>)].quantity ELSE 0
    BY DEF HeldRows, RowHeld, Value, Nothing, Rows
  <2>2. [n \in 1..NumRows |-> HeldRows(db, Nothing)[<<d, p, n>>]]
          = [n \in 1..NumRows |-> IF db[ReservationRow(<<d, p, n>>)].status = "ACTIVE"
                                  THEN db[ReservationRow(<<d, p, n>>)].quantity ELSE 0]
    BY <2>1
  <2> QED BY <2>2 DEF Held, HeldFor
<1>2. [d \in Orders |-> Held(d, p)] = [d \in Orders |-> HeldFor(HeldRows(db, Nothing), d, p)]
  BY <1>1
<1> QED BY <1>1, <1>2 DEF TotalHeld, HeldAll

LEMMA GoodsExactNow ==
  ASSUME TxSound
  PROVE  GoodsExact
<1>1. GoodsBase(scenario.stock, db) /\ LedgerBase(scenario.handlers, db)
  BY DEF TxSound, Base
<1>2. GoodsConserved
  BY <1>1 DEF GoodsConserved, GoodsBase, Balanced, TotalDelivered, Delivered
<1>3. LedgerExact
  BY <1>1, HeldCommitted DEF LedgerExact, LedgerBase, NoJobs
<1> QED BY <1>2, <1>3 DEF GoodsExact

LEMMA NoneHeld ==
  ASSUME NEW d \in Orders, NEW p \in Products,
         \A k \in Rows : k[1] = d => db[ReservationRow(k)].status # "ACTIVE"
  PROVE  Held(d, p) = 0
<1> DEFINE f == [n \in 1..NumRows |-> IF db[ReservationRow(<<d, p, n>>)].status = "ACTIVE"
                                      THEN db[ReservationRow(<<d, p, n>>)].quantity ELSE 0]
<1>1. \A n \in 1..NumRows : <<d, p, n>> \in Rows
  BY DEF Rows
<1>2. \A n \in 1..NumRows : f[n] = 0
  BY <1>1
<1>3. NumRows \in Nat
  BY SizesAssumption
<1> HIDE DEF f
<1>4. SumUpTo(f, NumRows) = 0
  BY <1>2, <1>3, SumZeros
<1> QED BY <1>4 DEF Held, f

LEMMA OrdersExactNow ==
  ASSUME TxSound
  PROVE  OrdersExact
<1>1. PaidBase(db) /\ ClosedBase(db)
  BY DEF TxSound, Base
<1>2. PaymentsExact
  BY <1>1 DEF PaymentsExact, PaidBase, PaidOrder
<1>3. ASSUME \A q \in Products : db[ReceiptRow(q)] = 0, NEW d \in Orders,
             db[OrderRow(d)].status = "CANCELLED", NEW p \in Products
      PROVE  db[OrderRow(d)].delivered[p] = 0 /\ Held(d, p) = 0
  BY <1>1, <1>3, NoneHeld DEF ClosedBase, NoReceipts
<1>4. ASSUME NEW s \in Sessions, At(s, "commit"), call[s].handler = "confirm"
      PROVE  db[OrderRow(call[s].order)].status # "CANCELLED"
  <2>1. OrderLocal(db, mine[s], call[s])
    BY DEF TxSound, Local
  <2> QED BY <1>4, <2>1 DEF OrderLocal, At
<1>5. CancelledIsClosed
  BY <1>3, <1>4 DEF CancelledIsClosed
<1> QED BY <1>2, <1>5 DEF OrdersExact

\* Whatever runs together, the cron jobs included: what is available is what is on hand and not
\* reserved, and goods are where they were, came from a receipt or were delivered; without the jobs,
\* what is reserved is what the active reservations hold.
THEOREM GoodsExactHolds == Spec => []GoodsExact
<1>1. Spec => []TxSound
  BY TransactionsSound
<1>2. TxSound => GoodsExact
  BY GoodsExactNow
<1> QED BY <1>1, <1>2, PTL

\* Whatever runs together: an order has been paid what its confirmed payments amount to, never more than
\* its total, and goods leave only paid orders; nobody confirms a payment of a cancelled order, and as
\* long as no receipt came in, a cancelled order has been sent nothing and holds nothing.
THEOREM OrdersExactHolds == Spec => []OrdersExact
<1>1. Spec => []TxSound
  BY TransactionsSound
<1>2. TxSound => OrdersExact
  BY OrdersExactNow
<1> QED BY <1>1, <1>2, PTL

\* Whatever of their requests runs together, users never oversell: as long as no cron job releases
\* reservations, the active ones together hold no more than what is on hand.
THEOREM UsersNeverOversell == Spec => [](NoJobs(scenario.handlers) => NeverOversold)
<1>1. Spec => []TxSound
  BY TransactionsSound
<1>2. TxSound /\ NoJobs(scenario.handlers) => NeverOversold
  <2> SUFFICES ASSUME TxSound, NoJobs(scenario.handlers), NEW p \in Products
               PROVE  TotalHeld(p) <= db[BalanceRow(p)].onHand
    BY DEF NeverOversold
  <2>1. TypedBase(db)
    BY DEF TxSound, TxTypes, SessionsTyped, TypedBase
  <2>2. db[BalanceRow(p)] \in Balances
    BY <2>1, KnownTypes
  <2> DEFINE b == db[BalanceRow(p)]
  <2>3. b.onHand \in Int /\ b.reserved \in Int /\ b.available \in Int
    BY <2>2 DEF Balances
  <2>4. /\ b.available = b.onHand - b.reserved /\ b.available >= 0
        /\ b.reserved = TotalHeld(p)
    BY GoodsExactNow DEF GoodsExact, GoodsConserved, LedgerExact, NoJobs
  <2> HIDE DEF b
  <2>5. TotalHeld(p) <= b.onHand
    BY <2>3, <2>4
  <2> QED BY <2>5 DEF b
<1> QED BY <1>1, <1>2, PTL
=============================================================================
