------------------------- MODULE OrderStockTheorems -------------------------
(***************************************************************************)
(* Theorems about OrderStock for every set of products, number of deals and *)
(* purchases, quantity and amount: the types hold, the ledger of a product  *)
(* adds up and is exact as long as nothing of it is overdue, an order's row *)
(* tells the truth about payments and shipments, a completed deal is        *)
(* settled, an order holds what its status promises, only a receipt that    *)
(* had listed an order takes it back from a final status, a receipt serves  *)
(* the orders it has listed, and goods are neither made nor lost.           *)
(***************************************************************************)
EXTENDS OrderStock, SumsTheorems, SequenceTheorems, FiniteSetTheorems

-----------------------------------------------------------------------------
\* Rows of reservations.

\* A table written over the indices of a sequence is a sequence.
LEMMA TableIsSeq ==
  ASSUME NEW S, NEW n \in Nat, NEW t \in [1..n -> S]
  PROVE  t \in Seq(S) /\ Len(t) = n /\ DOMAIN t = 1..n
<1>1. t \in Seq(S)
  BY SeqDef
<1>2. Len(t) \in Nat /\ DOMAIN t = 1..Len(t)
  BY <1>1, LenProperties
<1>3. 1..Len(t) = 1..n
  BY <1>2
<1>4. Len(t) = n
  BY <1>2, <1>3
<1> QED BY <1>1, <1>2, <1>4

\* The active quantities of rows, as a table over their indices.
LEMMA ActiveQuantitiesType ==
  ASSUME NEW rows \in Seq(Reservation)
  PROVE  LET aq == ActiveQuantities(rows) IN
         /\ Len(rows) \in Nat /\ DOMAIN rows = 1..Len(rows)
         /\ Len(aq) = Len(rows)
         /\ \A k \in 1..Len(rows) : /\ rows[k] \in Reservation
                                    /\ aq[k] = ActiveQuantity(rows[k])
                                    /\ aq[k] \in Nat
         /\ HeldOf(rows) = SumUpTo(aq, Len(rows))
<1>1. /\ Len(rows) \in Nat /\ DOMAIN rows = 1..Len(rows)
      /\ \A k \in 1..Len(rows) : rows[k] \in Reservation
  BY LenProperties, ElementOfSeq
<1>2. \A k \in 1..Len(rows) : ActiveQuantity(rows[k]) \in Nat
  BY <1>1 DEF ActiveQuantity, Reservation
<1>3. ActiveQuantities(rows) = [k \in 1..Len(rows) |-> ActiveQuantity(rows[k])]
  BY <1>1 DEF ActiveQuantities
<1>4. Len(ActiveQuantities(rows)) = Len(rows)
  <2>1. ActiveQuantities(rows) \in [1..Len(rows) -> Nat]
    BY <1>2, <1>3
  <2> QED BY <1>1, <2>1, TableIsSeq
<1>5. \A k \in 1..Len(rows) : ActiveQuantities(rows)[k] = ActiveQuantity(rows[k])
  BY <1>3
<1>6. HeldOf(rows) = SumUpTo(ActiveQuantities(rows), Len(rows))
  BY <1>4 DEF HeldOf, SumSeq
<1> QED BY <1>1, <1>2, <1>4, <1>5, <1>6

\* What rows hold is a natural number and at least what each of them holds.
LEMMA HeldOfType ==
  ASSUME NEW rows \in Seq(Reservation)
  PROVE  /\ HeldOf(rows) \in Nat
         /\ \A k \in DOMAIN rows : ActiveQuantity(rows[k]) <= HeldOf(rows)
<1> DEFINE aq == ActiveQuantities(rows)
           n == Len(rows)
<1>1. /\ n \in Nat /\ DOMAIN rows = 1..n /\ HeldOf(rows) = SumUpTo(aq, n)
      /\ \A k \in 1..n : aq[k] = ActiveQuantity(rows[k]) /\ aq[k] \in Nat
  BY ActiveQuantitiesType
<1> HIDE DEF aq, n
<1>2. SumUpTo(aq, n) \in Nat
  BY <1>1, SumNat
<1>3. \A k \in 1..n : aq[k] <= SumUpTo(aq, n)
  BY <1>1, SumMember
<1> QED BY <1>1, <1>2, <1>3

LEMMA HeldOfEmpty == HeldOf(<<>>) = 0
<1>1. <<>> \in Seq(Reservation) /\ Len(<<>>) = 0
  BY EmptySeq
<1>2. HeldOf(<<>>) = SumUpTo(ActiveQuantities(<<>>), 0)
  BY <1>1, ActiveQuantitiesType
<1>3. SumUpTo(ActiveQuantities(<<>>), 0) = 0
  BY SumZeros
<1> QED BY <1>2, <1>3

\* A new active row adds its quantity.
LEMMA HeldOfAppend ==
  ASSUME NEW rows \in Seq(Reservation), NEW row \in Reservation
  PROVE  /\ Append(rows, row) \in Seq(Reservation)
         /\ HeldOf(Append(rows, row)) = HeldOf(rows) + ActiveQuantity(row)
<1> DEFINE longer == Append(rows, row)
           n == Len(rows)
           aq == ActiveQuantities(rows)
           la == ActiveQuantities(longer)
<1>1. /\ longer \in Seq(Reservation) /\ Len(longer) = n + 1
      /\ \A k \in 1..n : longer[k] = rows[k]
      /\ longer[n + 1] = row
  <2>1. n \in Nat /\ DOMAIN rows = 1..n
    BY LenProperties
  <2> QED BY <2>1
<1>2. /\ n \in Nat /\ HeldOf(rows) = SumUpTo(aq, n)
      /\ \A k \in 1..n : aq[k] = ActiveQuantity(rows[k]) /\ aq[k] \in Nat
  BY ActiveQuantitiesType
<1>3. /\ HeldOf(longer) = SumUpTo(la, n + 1)
      /\ \A k \in 1..(n + 1) : la[k] = ActiveQuantity(longer[k]) /\ la[k] \in Nat
  <2> HIDE DEF longer
  <2> QED BY <1>1, ActiveQuantitiesType
<1> HIDE DEF longer, aq, la, n
<1>4. SumUpTo(la, n + 1) = SumUpTo(la, n) + la[n + 1]
  <2>1. (n + 1) \in Nat /\ \A k \in 1..(n + 1) : la[k] \in Int
    BY <1>2, <1>3
  <2>2. SumUpTo(la, n + 1) = SumUpTo(la, (n + 1) - 1) + la[n + 1]
    BY <1>2, <2>1, SumStep
  <2> QED BY <1>2, <2>2
<1>5. SumUpTo(la, n) = SumUpTo(aq, n)
  <2>1. \A k \in 1..n : aq[k] \in Int /\ la[k] = aq[k]
    BY <1>1, <1>2, <1>3
  <2> QED BY <1>2, <2>1, SumSame
<1>6. la[n + 1] = ActiveQuantity(row)
  BY <1>1, <1>2, <1>3
<1> QED BY <1>1, <1>2, <1>3, <1>4, <1>5, <1>6 DEF longer

\* Rows rewritten one by one stay rows.
LEMMA RewrittenRows ==
  ASSUME NEW rows \in Seq(Reservation), NEW new,
         new = [k \in DOMAIN rows |-> new[k]],
         \A k \in DOMAIN rows : new[k] \in Reservation
  PROVE  new \in Seq(Reservation) /\ Len(new) = Len(rows) /\ DOMAIN new = DOMAIN rows
<1>1. Len(rows) \in Nat /\ DOMAIN rows = 1..Len(rows)
  BY LenProperties
<1>2. new \in [1..Len(rows) -> Reservation]
  BY <1>1
<1> QED BY <1>1, <1>2, TableIsSeq

\* Releasing every active row leaves none.
LEMMA HeldOfReleased ==
  ASSUME NEW rows \in Seq(Reservation)
  PROVE  /\ ReleaseRows(rows) \in Seq(Reservation)
         /\ HeldOf(ReleaseRows(rows)) = 0
<1> DEFINE new == ReleaseRows(rows)
           n == Len(rows)
           na == ActiveQuantities(new)
<1>1. /\ n \in Nat /\ DOMAIN rows = 1..n
      /\ \A k \in 1..n : rows[k] \in Reservation
  BY ActiveQuantitiesType
<1>2. \A k \in DOMAIN rows : new[k] \in Reservation /\ ActiveQuantity(new[k]) = 0
  BY <1>1 DEF ReleaseRows, Reservation, ReservationStatuses, ActiveQuantity
<1>3. new = [k \in DOMAIN rows |-> new[k]]
  BY DEF ReleaseRows
<1> HIDE DEF new
<1>4. new \in Seq(Reservation) /\ Len(new) = n
  BY <1>2, <1>3, RewrittenRows
<1>5. /\ HeldOf(new) = SumUpTo(na, n)
      /\ \A k \in 1..n : na[k] = ActiveQuantity(new[k])
  BY <1>4, ActiveQuantitiesType
<1> HIDE DEF na, n
<1>6. SumUpTo(na, n) = 0
  BY <1>1, <1>2, <1>5, SumZeros
<1> QED BY <1>4, <1>5, <1>6 DEF new

\* Changing one row changes what the rows hold by the change of that row.
OnlyRowChanged(rows, new, k) ==
  Len(new) = Len(rows) /\ \A j \in 1..Len(rows) : j # k => new[j] = rows[j]

LEMMA HeldOfChanged ==
  ASSUME NEW rows, NEW new, NEW k, rows \in Seq(Reservation), new \in Seq(Reservation),
         k \in 1..Len(rows), OnlyRowChanged(rows, new, k)
  PROVE  HeldOf(new) = HeldOf(rows) - ActiveQuantity(rows[k]) + ActiveQuantity(new[k])
<1>0. Len(rows) \in Nat
  BY ONLY rows \in Seq(Reservation), LenProperties
<1>1. PICK n, aq, na :
        /\ n \in Nat /\ n = Len(rows) /\ aq = ActiveQuantities(rows) /\ na = ActiveQuantities(new)
  BY ONLY <1>0, Zenon
<1>2. /\ HeldOf(rows) = SumUpTo(aq, n)
      /\ \A j \in 1..n : aq[j] = ActiveQuantity(rows[j]) /\ aq[j] \in Nat
  BY <1>1, ActiveQuantitiesType
<1>3. /\ HeldOf(new) = SumUpTo(na, n)
      /\ \A j \in 1..n : na[j] = ActiveQuantity(new[j]) /\ na[j] \in Nat
  BY <1>1, ActiveQuantitiesType DEF OnlyRowChanged
<1>4. k \in 1..n /\ \A j \in 1..n : j # k => na[j] = aq[j]
  BY <1>1, <1>2, <1>3 DEF OnlyRowChanged
<1>5. \A j \in 1..n : aq[j] \in Int /\ na[j] \in Int
  BY <1>2, <1>3
<1>6. n \in Nat
  BY ONLY <1>1
<1>7. SumUpTo(na, n) = SumUpTo(aq, n) - aq[k] + na[k]
  BY ONLY <1>6, <1>4, <1>5, SumPoint
<1> QED BY <1>2, <1>3, <1>4, <1>7

\* Releasing one active row gives back its quantity.
IsActive(row) == row.status = "ACTIVE"

LEMMA HeldOfExpired ==
  ASSUME NEW rows \in Seq(Reservation), NEW k \in DOMAIN rows, IsActive(rows[k])
  PROVE  LET new == [rows EXCEPT ![k].status = "RELEASED"] IN
         /\ new \in Seq(Reservation)
         /\ HeldOf(new) = HeldOf(rows) - rows[k].quantity
<1> DEFINE new == [rows EXCEPT ![k].status = "RELEASED"]
<1>1. /\ Len(rows) \in Nat /\ DOMAIN rows = 1..Len(rows)
      /\ \A j \in 1..Len(rows) : rows[j] \in Reservation
  BY ActiveQuantitiesType
<1>2. /\ \A j \in DOMAIN rows : j # k => new[j] = rows[j]
      /\ new[k] = [rows[k] EXCEPT !.status = "RELEASED"]
      /\ new = [j \in DOMAIN rows |-> new[j]]
  OBVIOUS
<1>3. \A j \in DOMAIN rows : new[j] \in Reservation
  BY <1>1, <1>2 DEF Reservation, ReservationStatuses
<1>4. ActiveQuantity(new[k]) = 0 /\ ActiveQuantity(rows[k]) = rows[k].quantity
  BY <1>1, <1>2 DEF Reservation, ActiveQuantity, IsActive
<1> HIDE DEF new
<1>5. new \in Seq(Reservation) /\ Len(new) = Len(rows)
  BY <1>2, <1>3, RewrittenRows
<1>6. HeldOf(new) = HeldOf(rows) - ActiveQuantity(rows[k]) + ActiveQuantity(new[k])
  <2>1. k \in 1..Len(rows)
    BY <1>1
  <2>2. \A j \in 1..Len(rows) : j # k => new[j] = rows[j]
    BY <1>1, <1>2
  <2>3. OnlyRowChanged(rows, new, k)
    BY <1>5, <2>2 DEF OnlyRowChanged
  <2> QED BY <1>5, <2>1, <2>3, HeldOfChanged
<1>7. HeldOf(rows) \in Nat
  BY HeldOfType
<1>8. rows[k].quantity \in Nat
  BY <1>1 DEF Reservation
<1> QED BY <1>4, <1>5, <1>6, <1>7, <1>8 DEF new

\* Getting older changes nothing that rows hold.
LEMMA HeldOfAged ==
  ASSUME NEW rows \in Seq(Reservation), ReservationTtl \in Nat
  PROVE  /\ AgedRows(rows) \in Seq(Reservation)
         /\ HeldOf(AgedRows(rows)) = HeldOf(rows)
<1> DEFINE new == AgedRows(rows)
           n == Len(rows)
           aq == ActiveQuantities(rows)
           na == ActiveQuantities(new)
<1>1. /\ n \in Nat /\ DOMAIN rows = 1..n /\ HeldOf(rows) = SumUpTo(aq, n)
      /\ \A j \in 1..n : /\ rows[j] \in Reservation
                         /\ aq[j] = ActiveQuantity(rows[j]) /\ aq[j] \in Nat
  BY ActiveQuantitiesType
<1>2. \A k \in DOMAIN rows : /\ new[k] \in Reservation
                             /\ ActiveQuantity(new[k]) = ActiveQuantity(rows[k])
  BY <1>1 DEF AgedRows, Aged, Reservation, ReservationStatuses, ActiveQuantity
<1>3. new = [k \in DOMAIN rows |-> new[k]]
  BY DEF AgedRows
<1> HIDE DEF new
<1>4. new \in Seq(Reservation) /\ Len(new) = n
  BY <1>2, <1>3, RewrittenRows
<1>5. /\ HeldOf(new) = SumUpTo(na, n)
      /\ \A j \in 1..n : na[j] = ActiveQuantity(new[j])
  BY <1>4, ActiveQuantitiesType
<1> HIDE DEF na, aq, n
<1>6. SumUpTo(na, n) = SumUpTo(aq, n)
  <2>1. \A j \in 1..n : aq[j] \in Int /\ na[j] = aq[j]
    BY <1>1, <1>2, <1>5
  <2> QED BY <1>1, <2>1, SumSame
<1> QED BY <1>1, <1>4, <1>5, <1>6 DEF new

\* Consuming a quantity the rows hold takes exactly that quantity from them.
LEMMA HeldOfConsumed ==
  ASSUME NEW rows \in Seq(Reservation), NEW quantity \in Nat, quantity <= HeldOf(rows)
  PROVE  /\ ConsumeRows(rows, quantity) \in Seq(Reservation)
         /\ HeldOf(ConsumeRows(rows, quantity)) = HeldOf(rows) - quantity
<1> DEFINE new == ConsumeRows(rows, quantity)
           n == Len(rows)
           aq == ActiveQuantities(rows)
           na == ActiveQuantities(new)
           taken == [k \in 1..n |-> Consumed(rows, quantity, k)]
<1>1. /\ n \in Nat /\ DOMAIN rows = 1..n /\ HeldOf(rows) = SumUpTo(aq, n)
      /\ \A j \in 1..n : /\ rows[j] \in Reservation
                         /\ aq[j] = ActiveQuantity(rows[j]) /\ aq[j] \in Nat
  BY ActiveQuantitiesType
<1>2. \A k \in 1..n : /\ taken[k] \in Nat /\ taken[k] <= aq[k]
                      /\ taken[k] = LET before == SumUpTo(aq, k - 1)
                                    IN  IF before >= quantity THEN 0
                                        ELSE AtMost(aq[k], quantity - before)
  <2> SUFFICES ASSUME NEW k \in 1..n
               PROVE  /\ taken[k] \in Nat /\ taken[k] <= aq[k]
                      /\ taken[k] = LET before == SumUpTo(aq, k - 1)
                                    IN  IF before >= quantity THEN 0
                                        ELSE AtMost(aq[k], quantity - before)
    OBVIOUS
  <2>1. SumUpTo(aq, k - 1) \in Nat
    <3> HIDE DEF aq, n
    <3>1. k - 1 \in 0..n
      BY <1>1
    <3> QED BY <1>1, <3>1, SumNat
  <2>2. taken[k] = LET before == SumUpTo(aq, k - 1)
                   IN  IF before >= quantity THEN 0
                       ELSE AtMost(aq[k], quantity - before)
    <3> HIDE DEF n
    <3> QED BY <1>1 DEF Consumed
  <2> HIDE DEF taken, aq
  <2> QED BY <1>1, <2>1, <2>2 DEF AtMost
<1>3. \A k \in DOMAIN rows : /\ new[k] \in Reservation
                             /\ ActiveQuantity(new[k]) = aq[k] - taken[k]
  <2> SUFFICES ASSUME NEW k \in DOMAIN rows
               PROVE  /\ new[k] \in Reservation
                      /\ ActiveQuantity(new[k]) = aq[k] - taken[k]
    OBVIOUS
  <2>1. new[k] = IF taken[k] = 0 THEN rows[k]
                 ELSE IF taken[k] = rows[k].quantity
                      THEN [rows[k] EXCEPT !.status = "FULFILLED"]
                      ELSE [rows[k] EXCEPT !.quantity = @ - taken[k]]
    BY <1>1 DEF ConsumeRows
  <2>2. /\ taken[k] \in Nat /\ taken[k] <= aq[k]
        /\ aq[k] = ActiveQuantity(rows[k]) /\ rows[k] \in Reservation
    BY <1>1, <1>2
  <2> HIDE DEF new, taken, aq
  <2>3. CASE taken[k] = 0
    BY <2>1, <2>2, <2>3 DEF Reservation, ActiveQuantity
  <2>4. CASE taken[k] # 0
    <3>1. rows[k].status = "ACTIVE" /\ taken[k] <= rows[k].quantity
      BY <2>2, <2>4 DEF ActiveQuantity, Reservation
    <3>2. CASE taken[k] = rows[k].quantity
      <4>1. new[k] = [rows[k] EXCEPT !.status = "FULFILLED"]
        BY <2>1, <2>4, <3>2
      <4>2. aq[k] = taken[k] /\ aq[k] \in Nat
        BY <2>2, <3>1, <3>2 DEF Reservation, ActiveQuantity
      <4>3. new[k] \in Reservation /\ new[k].status # "ACTIVE"
        BY <2>2, <4>1 DEF Reservation, ReservationStatuses
      <4> QED BY <4>2, <4>3 DEF ActiveQuantity
    <3>3. CASE taken[k] # rows[k].quantity
      <4>1. new[k] = [rows[k] EXCEPT !.quantity = @ - taken[k]]
        BY <2>1, <2>4, <3>3
      <4>2. rows[k].quantity - taken[k] \in Nat /\ aq[k] = rows[k].quantity
        BY <2>2, <3>1 DEF Reservation, ActiveQuantity
      <4>3. /\ new[k] \in Reservation /\ new[k].status = "ACTIVE"
            /\ new[k].quantity = rows[k].quantity - taken[k]
        BY <2>2, <3>1, <4>1, <4>2 DEF Reservation
      <4> QED BY <4>2, <4>3 DEF ActiveQuantity
    <3> QED BY <3>2, <3>3
  <2> QED BY <2>3, <2>4
<1>4. new = [k \in DOMAIN rows |-> new[k]]
  BY DEF ConsumeRows
<1> HIDE DEF new, taken
<1>5. new \in Seq(Reservation) /\ Len(new) = n
  BY <1>3, <1>4, RewrittenRows
<1>6. /\ HeldOf(new) = SumUpTo(na, n)
      /\ \A j \in 1..n : na[j] = ActiveQuantity(new[j]) /\ na[j] \in Nat
  BY <1>5, ActiveQuantitiesType
<1> HIDE DEF na, aq, n
<1>7. SumUpTo(taken, n) = AtMost(SumUpTo(aq, n), quantity)
  BY <1>1, <1>2, SumConsume
<1>8. SumUpTo(aq, n) = SumUpTo(na, n) + SumUpTo(taken, n)
  <2>1. ASSUME NEW k \in 1..n
        PROVE  na[k] \in Int /\ taken[k] \in Int /\ aq[k] = na[k] + taken[k]
    <3>1. na[k] = aq[k] - taken[k]
      BY <1>1, <1>3, <1>6
    <3>2. aq[k] \in Nat /\ taken[k] \in Nat /\ na[k] \in Nat
      BY <1>1, <1>2, <1>6
    <3> QED BY <3>1, <3>2
  <2> QED BY <1>1, <2>1, SumAdd
<1>9. SumUpTo(aq, n) \in Nat /\ SumUpTo(na, n) \in Nat
  <2>1. n \in 0..n
    BY <1>1
  <2>2. SumUpTo(aq, n) \in Nat
    BY <1>1, <2>1, SumNat
  <2>3. SumUpTo(na, n) \in Nat
    BY <1>1, <1>6, <2>1, SumNat
  <2> QED BY <2>2, <2>3
<1> QED BY <1>1, <1>5, <1>6, <1>7, <1>8, <1>9 DEF new, AtMost

\* Rows are only added or rewritten: a row never gets larger or younger.
Grown(rows, new) ==
  \A k \in DOMAIN rows :
    /\ k \in DOMAIN new
    /\ new[k].quantity <= rows[k].quantity
    /\ rows[k].age = ReservationTtl => new[k].age = ReservationTtl

LEMMA GrownSame ==
  ASSUME NEW rows \in Seq(Reservation)
  PROVE  Grown(rows, rows)
<1>1. \A k \in DOMAIN rows : rows[k].quantity \in Nat
  BY ActiveQuantitiesType DEF Reservation
<1> QED BY <1>1 DEF Grown

LEMMA GrownAppend ==
  ASSUME NEW rows \in Seq(Reservation), NEW row \in Reservation
  PROVE  Grown(rows, Append(rows, row))
<1>1. /\ Len(rows) \in Nat /\ DOMAIN rows = 1..Len(rows)
      /\ \A k \in 1..Len(rows) : rows[k].quantity \in Nat
  BY ActiveQuantitiesType DEF Reservation
<1>2. \A k \in DOMAIN rows : k \in DOMAIN Append(rows, row) /\ Append(rows, row)[k] = rows[k]
  BY <1>1
<1> QED BY <1>1, <1>2 DEF Grown

LEMMA GrownReleased ==
  ASSUME NEW rows \in Seq(Reservation)
  PROVE  Grown(rows, ReleaseRows(rows))
<1>1. \A k \in DOMAIN rows : rows[k] \in Reservation
  BY ActiveQuantitiesType
<1>2. ASSUME NEW k \in DOMAIN rows
      PROVE  /\ k \in DOMAIN ReleaseRows(rows)
             /\ ReleaseRows(rows)[k].quantity = rows[k].quantity
             /\ ReleaseRows(rows)[k].age = rows[k].age
  BY <1>1 DEF ReleaseRows, Reservation
<1>3. \A k \in DOMAIN rows : rows[k].quantity \in Nat
  BY <1>1 DEF Reservation
<1> QED BY <1>2, <1>3 DEF Grown

LEMMA GrownExpired ==
  ASSUME NEW rows \in Seq(Reservation), NEW k \in DOMAIN rows
  PROVE  Grown(rows, [rows EXCEPT ![k].status = "RELEASED"])
<1> DEFINE new == [rows EXCEPT ![k].status = "RELEASED"]
<1>1. \A j \in DOMAIN rows : rows[j] \in Reservation
  BY ActiveQuantitiesType
<1>2. ASSUME NEW j \in DOMAIN rows
      PROVE  /\ j \in DOMAIN new
             /\ new[j].quantity = rows[j].quantity /\ new[j].age = rows[j].age
  BY <1>1 DEF Reservation
<1>3. \A j \in DOMAIN rows : rows[j].quantity \in Nat
  BY <1>1 DEF Reservation
<1> QED BY <1>2, <1>3 DEF Grown

LEMMA GrownAged ==
  ASSUME NEW rows \in Seq(Reservation), ReservationTtl \in Nat
  PROVE  Grown(rows, AgedRows(rows))
<1>1. \A k \in DOMAIN rows : rows[k] \in Reservation
  BY ActiveQuantitiesType
<1>2. ASSUME NEW k \in DOMAIN rows
      PROVE  /\ k \in DOMAIN AgedRows(rows)
             /\ AgedRows(rows)[k].quantity = rows[k].quantity
             /\ rows[k].age = ReservationTtl => AgedRows(rows)[k].age = ReservationTtl
  BY <1>1 DEF AgedRows, Aged, Reservation
<1>3. \A k \in DOMAIN rows : rows[k].quantity \in Nat
  BY <1>1 DEF Reservation
<1> QED BY <1>2, <1>3 DEF Grown

LEMMA GrownConsumed ==
  ASSUME NEW rows \in Seq(Reservation), NEW quantity \in Nat
  PROVE  Grown(rows, ConsumeRows(rows, quantity))
<1> DEFINE new == ConsumeRows(rows, quantity)
           n == Len(rows)
           aq == ActiveQuantities(rows)
<1>1. /\ n \in Nat /\ DOMAIN rows = 1..n
      /\ \A j \in 1..n : /\ rows[j] \in Reservation
                         /\ aq[j] = ActiveQuantity(rows[j]) /\ aq[j] \in Nat
  BY ActiveQuantitiesType
<1>2. ASSUME NEW k \in DOMAIN rows
      PROVE  /\ k \in DOMAIN new
             /\ new[k].quantity <= rows[k].quantity
             /\ new[k].age = rows[k].age
  <2> DEFINE t == Consumed(rows, quantity, k)
  <2>1. SumUpTo(aq, k - 1) \in Nat
    <3> HIDE DEF aq, n
    <3>1. k - 1 \in 0..n
      BY <1>1
    <3> QED BY <1>1, <3>1, SumNat
  <2>2. ActiveQuantity(rows[k]) \in Nat
    BY <1>1
  <2>3. t \in Nat
    <3> HIDE DEF aq
    <3> QED BY <2>1, <2>2 DEF Consumed, AtMost, aq
  <2>4. new[k] = IF t = 0 THEN rows[k]
                 ELSE IF t = rows[k].quantity
                      THEN [rows[k] EXCEPT !.status = "FULFILLED"]
                      ELSE [rows[k] EXCEPT !.quantity = @ - t]
    BY DEF ConsumeRows
  <2>5. k \in DOMAIN new
    BY DEF ConsumeRows
  <2>6. rows[k] \in Reservation
    BY <1>1
  <2> DEFINE row == rows[k]
  <2>7. new[k] \in {row, [row EXCEPT !.status = "FULFILLED"], [row EXCEPT !.quantity = @ - t]}
    BY <2>4
  <2> HIDE DEF new, t, row
  <2>8. row \in Reservation
    BY <2>6 DEF row
  <2>9. new[k].quantity <= row.quantity /\ new[k].age = row.age
    <3>1. CASE new[k] = row
      BY <2>8, <3>1 DEF Reservation
    <3>2. CASE new[k] = [row EXCEPT !.status = "FULFILLED"]
      BY <2>8, <3>2 DEF Reservation
    <3>3. CASE new[k] = [row EXCEPT !.quantity = @ - t]
      BY <2>3, <2>8, <3>3 DEF Reservation
    <3> QED BY <2>7, <3>1, <3>2, <3>3
  <2> QED BY <2>5, <2>9 DEF row
<1> QED BY <1>2 DEF Grown

-----------------------------------------------------------------------------
\* What all orders hold of a product.

Reservations == [Deals -> [Products -> Seq(Reservation)]]

HeldTable(res, p) == [d \in Deals |-> HeldOf(res[d][p])]

TotalOf(res, p) == SumUpTo(HeldTable(res, p), NumDeals)

LEMMA TotalOfType ==
  ASSUME ConstantsAssumption, NEW res \in Reservations, NEW p \in Products
  PROVE  /\ TotalOf(res, p) \in Nat
         /\ \A d \in Deals : /\ HeldTable(res, p)[d] = HeldOf(res[d][p])
                             /\ HeldOf(res[d][p]) \in Nat
                             /\ HeldOf(res[d][p]) <= TotalOf(res, p)
<1> DEFINE t == HeldTable(res, p)
<1>1. NumDeals \in Nat /\ Deals = 1..NumDeals
  BY DEF ConstantsAssumption, Deals
<1>2. \A d \in Deals : t[d] = HeldOf(res[d][p])
  BY DEF HeldTable
<1>3. \A d \in Deals : HeldOf(res[d][p]) \in Nat
  <2> SUFFICES ASSUME NEW d \in Deals PROVE HeldOf(res[d][p]) \in Nat
    OBVIOUS
  <2>1. res[d][p] \in Seq(Reservation)
    BY DEF Reservations
  <2> QED BY <2>1, HeldOfType
<1> HIDE DEF t
<1>4. \A d \in 1..NumDeals : t[d] \in Nat
  BY <1>1, <1>2, <1>3
<1>5. SumUpTo(t, NumDeals) \in Nat
  <2>1. NumDeals \in 0..NumDeals
    BY <1>1
  <2> QED BY <1>1, <1>4, <2>1, SumNat
<1>6. \A d \in 1..NumDeals : t[d] <= SumUpTo(t, NumDeals)
  BY <1>1, <1>4, SumMember
<1> QED BY <1>1, <1>2, <1>3, <1>5, <1>6 DEF t, TotalOf

\* Touching the rows of one order changes the total by what that order gains.
LEMMA TotalOfChanged ==
  ASSUME ConstantsAssumption, NEW res \in Reservations, NEW new \in Reservations,
         NEW p \in Products, NEW d \in Deals,
         \A e \in Deals : e # d => new[e][p] = res[e][p]
  PROVE  TotalOf(new, p) = TotalOf(res, p) - HeldOf(res[d][p]) + HeldOf(new[d][p])
<1> DEFINE t == HeldTable(res, p)
           u == HeldTable(new, p)
<1>1. NumDeals \in Nat /\ Deals = 1..NumDeals
  BY DEF ConstantsAssumption, Deals
<1>2. \A e \in Deals : t[e] = HeldOf(res[e][p]) /\ HeldOf(res[e][p]) \in Nat
  BY TotalOfType
<1>3. \A e \in Deals : u[e] = HeldOf(new[e][p]) /\ HeldOf(new[e][p]) \in Nat
  BY TotalOfType
<1> HIDE DEF t, u
<1>4. \A e \in 1..NumDeals : t[e] \in Int /\ u[e] \in Int
  BY <1>1, <1>2, <1>3
<1>5. \A e \in 1..NumDeals : e # d => u[e] = t[e]
  BY <1>1, <1>2, <1>3
<1>6. SumUpTo(u, NumDeals) = SumUpTo(t, NumDeals) - t[d] + u[d]
  BY <1>1, <1>4, <1>5, SumPoint
<1> QED BY <1>2, <1>3, <1>6 DEF t, u, TotalOf

LEMMA TotalOfSame ==
  ASSUME ConstantsAssumption, NEW res \in Reservations, NEW new \in Reservations,
         NEW p \in Products,
         \A d \in Deals : HeldOf(new[d][p]) = HeldOf(res[d][p])
  PROVE  TotalOf(new, p) = TotalOf(res, p)
<1> DEFINE t == HeldTable(res, p)
           u == HeldTable(new, p)
<1>1. NumDeals \in Nat /\ Deals = 1..NumDeals
  BY DEF ConstantsAssumption, Deals
<1>2. \A e \in Deals : t[e] = HeldOf(res[e][p]) /\ HeldOf(res[e][p]) \in Nat
  BY TotalOfType
<1>3. \A e \in Deals : u[e] = HeldOf(new[e][p])
  BY TotalOfType
<1> HIDE DEF t, u
<1>4. \A e \in 1..NumDeals : t[e] \in Int /\ u[e] = t[e]
  BY <1>1, <1>2, <1>3
<1>5. SumUpTo(u, NumDeals) = SumUpTo(t, NumDeals)
  BY <1>1, <1>4, SumSame
<1> QED BY <1>5 DEF t, u, TotalOf

\* Rows go on, those of every order and product.
GoOn(res, new) == \A d \in Deals, p \in Products : Grown(res[d][p], new[d][p])

\* Some row of product p is three days old.
Late(res, p) ==
  \E d \in Deals : \E k \in DOMAIN res[d][p] : res[d][p][k].age = ReservationTtl

LEMMA LateStays ==
  ASSUME NEW res, NEW new, GoOn(res, new), NEW p \in Products, Late(res, p)
  PROVE  Late(new, p)
BY DEF GoOn, Grown, Late

\* What the job has listed: old rows, and no less than they have.
ListedTrue(res, exp) ==
  \A d \in Deals, p \in Products : \A entry \in exp[d][p] :
    /\ entry \in Nat \X Nat
    /\ entry[1] \in DOMAIN res[d][p]
    /\ res[d][p][entry[1]].quantity <= entry[2]
    /\ res[d][p][entry[1]].age = ReservationTtl

LEMMA ListedStays ==
  ASSUME NEW res \in Reservations, NEW new \in Reservations, GoOn(res, new),
         NEW exp, ListedTrue(res, exp)
  PROVE  ListedTrue(new, exp)
<1> SUFFICES ASSUME NEW d \in Deals, NEW p \in Products, NEW entry \in exp[d][p]
             PROVE  /\ entry \in Nat \X Nat
                    /\ entry[1] \in DOMAIN new[d][p]
                    /\ new[d][p][entry[1]].quantity <= entry[2]
                    /\ new[d][p][entry[1]].age = ReservationTtl
  BY DEF ListedTrue
<1> DEFINE k == entry[1]
<1>1. /\ entry \in Nat \X Nat /\ k \in DOMAIN res[d][p]
      /\ res[d][p][k].quantity <= entry[2] /\ res[d][p][k].age = ReservationTtl
  BY DEF ListedTrue
<1>2. /\ k \in DOMAIN new[d][p]
      /\ new[d][p][k].quantity <= res[d][p][k].quantity
      /\ new[d][p][k].age = ReservationTtl
  BY <1>1 DEF GoOn, Grown
<1>3. res[d][p] \in Seq(Reservation) /\ new[d][p] \in Seq(Reservation)
  BY DEF Reservations
<1>4. res[d][p][k].quantity \in Nat
  BY <1>1, <1>3, ActiveQuantitiesType DEF Reservation
<1>5. new[d][p][k].quantity \in Nat
  BY <1>2, <1>3, ActiveQuantitiesType DEF Reservation
<1>6. entry[2] \in Nat
  BY <1>1
<1> HIDE DEF k
<1>7. new[d][p][k].quantity <= entry[2]
  BY ONLY <1>1, <1>2, <1>4, <1>5, <1>6
<1> QED BY ONLY <1>1, <1>2, <1>7 DEF k

\* What the orders of a pass are given of a product.
TakenTable(taken, p) == [d \in Deals |-> IF p \in taken[d] THEN deals[d].items[p] ELSE 0]

LEMMA TakenOfType ==
  ASSUME ConstantsAssumption, deals \in [Deals -> Deal], NEW p \in Products, NEW taken
  PROVE  /\ TakenOf(taken, p) = SumUpTo(TakenTable(taken, p), NumDeals)
         /\ TakenOf(taken, p) \in Nat
         /\ \A d \in Deals : /\ deals[d].items[p] \in Nat
                             /\ TakenTable(taken, p)[d] \in Nat
<1>1. NumDeals \in Nat /\ Deals = 1..NumDeals
  BY DEF ConstantsAssumption, Deals
<1>2. \A d \in Deals : deals[d].items[p] \in Nat
  <2> SUFFICES ASSUME NEW d \in Deals PROVE deals[d].items[p] \in Nat
    OBVIOUS
  <2>1. deals[d].items \in Baskets
    BY DEF Deal
  <2>2. deals[d].items \in [Products -> Nat]
    BY <2>1 DEF ConstantsAssumption, Lines
  <2> QED BY <2>2
<1>3. \A d \in Deals : TakenTable(taken, p)[d] \in Nat
  BY <1>2 DEF TakenTable
<1>4. SumUpTo(TakenTable(taken, p), NumDeals) \in Nat
  <2>1. \A d \in 1..NumDeals : TakenTable(taken, p)[d] \in Nat
    BY <1>1, <1>3
  <2>2. NumDeals \in 0..NumDeals
    BY <1>1
  <2> QED BY <1>1, <2>1, <2>2, SumNat
<1> QED BY <1>2, <1>3, <1>4 DEF TakenOf, TakenTable

\* Reserving adds to the total exactly what was taken.
LEMMA TotalOfReserved ==
  ASSUME ConstantsAssumption, deals \in [Deals -> Deal], reservations \in Reservations,
         NEW taken
  PROVE  /\ ReserveRows(taken) \in Reservations
         /\ \A p \in Products :
              TotalOf(ReserveRows(taken), p) = TotalOf(reservations, p) + TakenOf(taken, p)
         /\ \A d \in Deals, p \in Products :
              HeldOf(ReserveRows(taken)[d][p])
                = HeldOf(reservations[d][p]) + TakenTable(taken, p)[d]
<1> DEFINE new == ReserveRows(taken)
           Row(d, p) == [quantity |-> deals[d].items[p], age |-> 0, status |-> "ACTIVE"]
<1>1. \A d \in Deals, p \in Products :
        /\ new[d][p] \in Seq(Reservation)
        /\ HeldOf(new[d][p]) = HeldOf(reservations[d][p]) + TakenTable(taken, p)[d]
  <2> SUFFICES ASSUME NEW d \in Deals, NEW p \in Products
               PROVE  /\ new[d][p] \in Seq(Reservation)
                      /\ HeldOf(new[d][p])
                           = HeldOf(reservations[d][p]) + TakenTable(taken, p)[d]
    OBVIOUS
  <2>1. /\ reservations[d][p] \in Seq(Reservation)
        /\ deals[d].items[p] \in Nat
    BY TakenOfType DEF Reservations
  <2>2. /\ Row(d, p) \in Reservation
        /\ ActiveQuantity(Row(d, p)) = deals[d].items[p]
    BY <2>1 DEF Reservation, ReservationStatuses, ActiveQuantity, ConstantsAssumption
  <2>3. HeldOf(reservations[d][p]) \in Nat
    BY <2>1, HeldOfType
  <2>4. TakenTable(taken, p)[d] = IF p \in taken[d] THEN deals[d].items[p] ELSE 0
    BY DEF TakenTable
  <2>5. CASE p \in taken[d]
    <3>1. new[d][p] = Append(reservations[d][p], Row(d, p))
      BY <2>5 DEF ReserveRows
    <3> HIDE DEF new, Row
    <3>2. /\ Append(reservations[d][p], Row(d, p)) \in Seq(Reservation)
          /\ HeldOf(Append(reservations[d][p], Row(d, p)))
               = HeldOf(reservations[d][p]) + ActiveQuantity(Row(d, p))
      BY <2>1, <2>2, HeldOfAppend
    <3> QED BY <2>2, <2>4, <2>5, <3>1, <3>2
  <2>6. CASE p \notin taken[d]
    <3>1. new[d][p] = reservations[d][p]
      BY <2>6 DEF ReserveRows
    <3> QED BY <2>1, <2>3, <2>4, <2>6, <3>1
  <2> QED BY <2>5, <2>6
<1>2. new \in Reservations
  <2>1. new = [d \in Deals |-> [p \in Products |-> new[d][p]]]
    BY DEF ReserveRows
  <2> HIDE DEF new
  <2> QED BY <1>1, <2>1 DEF Reservations
<1> HIDE DEF new
<1>3. ASSUME NEW p \in Products
      PROVE  TotalOf(new, p) = TotalOf(reservations, p) + TakenOf(taken, p)
  <2> DEFINE t == HeldTable(reservations, p)
             u == HeldTable(new, p)
             g == TakenTable(taken, p)
  <2>1. NumDeals \in Nat /\ Deals = 1..NumDeals
    BY DEF ConstantsAssumption, Deals
  <2>2. \A d \in Deals : t[d] = HeldOf(reservations[d][p]) /\ t[d] \in Nat
    BY TotalOfType
  <2>3. \A d \in Deals : u[d] = HeldOf(new[d][p])
    BY <1>2, TotalOfType
  <2>4. \A d \in Deals : g[d] \in Nat
    BY TakenOfType
  <2>5. TakenOf(taken, p) = SumUpTo(g, NumDeals)
    BY TakenOfType
  <2> HIDE DEF t, u, g
  <2>6. \A d \in 1..NumDeals : t[d] \in Int /\ g[d] \in Int /\ u[d] = t[d] + g[d]
    BY <1>1, <2>1, <2>2, <2>3, <2>4 DEF g
  <2>7. SumUpTo(u, NumDeals) = SumUpTo(t, NumDeals) + SumUpTo(g, NumDeals)
    BY <2>1, <2>6, SumAdd
  <2> QED BY <2>5, <2>7 DEF t, u, TotalOf
<1> QED BY <1>1, <1>2, <1>3 DEF new

-----------------------------------------------------------------------------
\* The stock: balances and rows in their domains, and the ledger adds up.  What
\* is reserved is what the rows hold, or less once a row is three days old.
InLedger(reserved, total, late) == reserved <= total /\ (late \/ reserved = total)

StockOK(bal, res) ==
  /\ bal \in [Products -> Balance]
  /\ res \in Reservations
  /\ \A p \in Products : /\ bal[p].available = bal[p].onHand - bal[p].reserved
                         /\ InLedger(bal[p].reserved, TotalOf(res, p), Late(res, p))

\* The two fields of a balance row that a reservation changes.
RowReserved(row, x, y) == [row EXCEPT !.reserved = x, !.available = y]

LEMMA RowReservedFields ==
  ASSUME NEW row \in Balance, NEW x \in Int, NEW y \in Nat
  PROVE  /\ RowReserved(row, x, y) \in Balance
         /\ RowReserved(row, x, y).reserved = x
         /\ RowReserved(row, x, y).available = y
         /\ RowReserved(row, x, y).onHand = row.onHand
<1>1. RowReserved(row, x, y) \in Balance
  BY DEF Balance, RowReserved
<1>2. RowReserved(row, x, y).reserved = x
  BY DEF Balance, RowReserved
<1>3. RowReserved(row, x, y).available = y
  BY DEF Balance, RowReserved
<1>4. RowReserved(row, x, y).onHand = row.onHand
  BY DEF Balance, RowReserved
<1> QED BY <1>1, <1>2, <1>3, <1>4

\* ... that a delivery changes.
RowShipped(row, x, y) == [row EXCEPT !.onHand = x, !.reserved = y]

LEMMA RowShippedFields ==
  ASSUME NEW row \in Balance, NEW x \in Nat, NEW y \in Int
  PROVE  /\ RowShipped(row, x, y) \in Balance
         /\ RowShipped(row, x, y).onHand = x
         /\ RowShipped(row, x, y).reserved = y
         /\ RowShipped(row, x, y).available = row.available
<1>1. RowShipped(row, x, y) \in Balance
  BY DEF Balance, RowShipped
<1>2. RowShipped(row, x, y).onHand = x
  BY DEF Balance, RowShipped
<1>3. RowShipped(row, x, y).reserved = y
  BY DEF Balance, RowShipped
<1>4. RowShipped(row, x, y).available = row.available
  BY DEF Balance, RowShipped
<1> QED BY <1>1, <1>2, <1>3, <1>4

\* ... that a receipt changes.
RowReceived(row, x, y) == [row EXCEPT !.onHand = x, !.available = y]

LEMMA RowReceivedFields ==
  ASSUME NEW row \in Balance, NEW x \in Nat, NEW y \in Nat
  PROVE  /\ RowReceived(row, x, y) \in Balance
         /\ RowReceived(row, x, y).onHand = x
         /\ RowReceived(row, x, y).available = y
         /\ RowReceived(row, x, y).reserved = row.reserved
<1>1. RowReceived(row, x, y) \in Balance
  BY DEF Balance, RowReceived
<1>2. RowReceived(row, x, y).onHand = x
  BY DEF Balance, RowReceived
<1>3. RowReceived(row, x, y).available = y
  BY DEF Balance, RowReceived
<1>4. RowReceived(row, x, y).reserved = row.reserved
  BY DEF Balance, RowReceived
<1> QED BY <1>1, <1>2, <1>3, <1>4

\* Reserved and held go up and down together.
LEMMA LedgerMoves ==
  ASSUME NEW x \in Int, NEW t \in Nat, NEW late, NEW delta \in Int, NEW still, NEW y, NEW u,
         InLedger(x, t, late), late => still, y = x + delta, u = t + delta
  PROVE  InLedger(y, u, still)
BY DEF InLedger

LEMMA ReserveGoOn ==
  ASSUME ConstantsAssumption, deals \in [Deals -> Deal], reservations \in Reservations,
         NEW taken
  PROVE  GoOn(reservations, ReserveRows(taken))
<1> SUFFICES ASSUME NEW d \in Deals, NEW p \in Products
             PROVE  Grown(reservations[d][p], ReserveRows(taken)[d][p])
  BY DEF GoOn
<1> DEFINE row == [quantity |-> deals[d].items[p], age |-> 0, status |-> "ACTIVE"]
<1>1. reservations[d][p] \in Seq(Reservation) /\ deals[d].items[p] \in Nat
  BY TakenOfType DEF Reservations
<1>2. row \in Reservation
  BY <1>1 DEF Reservation, ReservationStatuses, ConstantsAssumption
<1>3. ReserveRows(taken)[d][p] \in {reservations[d][p], Append(reservations[d][p], row)}
  BY DEF ReserveRows
<1> HIDE DEF row
<1> QED BY <1>1, <1>2, <1>3, GrownSame, GrownAppend

\* The rows of one order are rewritten.
LEMMA OrderGoesOn ==
  ASSUME NEW res \in Reservations, NEW d \in Deals, NEW rows,
         \A p \in Products : Grown(res[d][p], rows[p])
  PROVE  GoOn(res, [res EXCEPT ![d] = rows])
<1> SUFFICES ASSUME NEW e \in Deals, NEW p \in Products
             PROVE  Grown(res[e][p], [res EXCEPT ![d] = rows][e][p])
  BY DEF GoOn
<1>1. res[e][p] \in Seq(Reservation)
  BY DEF Reservations
<1>2. CASE e = d
  <2>1. [res EXCEPT ![d] = rows][e] = rows
    BY <1>2 DEF Reservations
  <2> QED BY <1>2, <2>1
<1>3. CASE e # d
  <2>1. [res EXCEPT ![d] = rows][e] = res[e]
    BY <1>3 DEF Reservations
  <2> QED BY <1>1, <2>1, GrownSame
<1> QED BY <1>2, <1>3

LEMMA ReleaseGoOn ==
  ASSUME reservations \in Reservations, NEW d \in Deals
  PROVE  GoOn(reservations, [reservations EXCEPT ![d] =
                               [p \in Products |-> ReleaseRows(reservations[d][p])]])
<1> DEFINE rows == [p \in Products |-> ReleaseRows(reservations[d][p])]
<1>1. \A p \in Products : Grown(reservations[d][p], rows[p])
  BY GrownReleased DEF Reservations
<1> HIDE DEF rows
<1>2. GoOn(reservations, [reservations EXCEPT ![d] = rows])
  BY <1>1, OrderGoesOn
<1> QED BY <1>2 DEF rows

LEMMA CommitGoOn ==
  ASSUME reservations \in Reservations, NEW d \in Deals, NEW quantity \in [Products -> Nat]
  PROVE  GoOn(reservations, [reservations EXCEPT ![d] =
           [p \in Products |-> ConsumeRows(reservations[d][p], quantity[p])]])
<1> DEFINE rows == [p \in Products |-> ConsumeRows(reservations[d][p], quantity[p])]
<1>1. \A p \in Products : Grown(reservations[d][p], rows[p])
  BY GrownConsumed DEF Reservations
<1> HIDE DEF rows
<1>2. GoOn(reservations, [reservations EXCEPT ![d] = rows])
  BY <1>1, OrderGoesOn
<1> QED BY <1>2 DEF rows

LEMMA ExpireGoOn ==
  ASSUME reservations \in Reservations, NEW d \in Deals, NEW p \in Products,
         NEW k \in DOMAIN reservations[d][p]
  PROVE  GoOn(reservations, [reservations EXCEPT ![d][p][k].status = "RELEASED"])
<1> DEFINE old == reservations[d]
           new == [old[p] EXCEPT ![k].status = "RELEASED"]
           rows == [old EXCEPT ![p] = new]
<1>1. old \in [Products -> Seq(Reservation)]
  BY DEF Reservations
<1>2. [reservations EXCEPT ![d][p][k].status = "RELEASED"] = [reservations EXCEPT ![d] = rows]
  BY DEF Reservations
<1>3. Grown(old[p], new)
  BY <1>1, GrownExpired
<1> HIDE DEF new
<1>4. \A q \in Products : Grown(old[q], rows[q])
  BY <1>1, <1>3, GrownSame
<1> HIDE DEF rows
<1>5. GoOn(reservations, [reservations EXCEPT ![d] = rows])
  BY <1>4, OrderGoesOn
<1> QED BY <1>2, <1>5

LEMMA AgeGoOn ==
  ASSUME ConstantsAssumption, reservations \in Reservations
  PROVE  GoOn(reservations, [d \in Deals |-> [p \in Products |-> AgedRows(reservations[d][p])]])
BY GrownAged DEF GoOn, Reservations, ConstantsAssumption

LEMMA ReserveKeepsStock ==
  ASSUME ConstantsAssumption, deals \in [Deals -> Deal], NEW bal,
         StockOK(bal, reservations), NEW taken,
         \A p \in Products : TakenOf(taken, p) <= bal[p].available
  PROVE  StockOK(ReserveBalance(bal, taken), ReserveRows(taken))
<1> DEFINE new == ReserveBalance(bal, taken)
<1>1. /\ reservations \in Reservations /\ bal \in [Products -> Balance]
      /\ \A p \in Products : /\ bal[p].available = bal[p].onHand - bal[p].reserved
                             /\ InLedger(bal[p].reserved, TotalOf(reservations, p), Late(reservations, p))
  BY DEF StockOK
<1>2. /\ ReserveRows(taken) \in Reservations
      /\ \A p \in Products :
           TotalOf(ReserveRows(taken), p) = TotalOf(reservations, p) + TakenOf(taken, p)
  BY <1>1, TotalOfReserved
<1>3. \A p \in Products :
        /\ new[p] \in Balance
        /\ new[p].onHand = bal[p].onHand
        /\ new[p].reserved = bal[p].reserved + TakenOf(taken, p)
        /\ new[p].available = bal[p].available - TakenOf(taken, p)
  <2> SUFFICES ASSUME NEW p \in Products
               PROVE  /\ new[p] \in Balance
                      /\ new[p].onHand = bal[p].onHand
                      /\ new[p].reserved = bal[p].reserved + TakenOf(taken, p)
                      /\ new[p].available = bal[p].available - TakenOf(taken, p)
    OBVIOUS
  <2>1. new[p] = [bal[p] EXCEPT !.reserved  = @ + TakenOf(taken, p),
                                !.available = @ - TakenOf(taken, p)]
    BY DEF ReserveBalance
  <2>2. TakenOf(taken, p) \in Nat /\ TakenOf(taken, p) <= bal[p].available
    BY TakenOfType
  <2>3. bal[p] \in Balance
    BY <1>1
  <2> DEFINE x == bal[p].reserved + TakenOf(taken, p)
             y == bal[p].available - TakenOf(taken, p)
  <2>4. x \in Int /\ y \in Nat
    BY <2>2, <2>3 DEF Balance
  <2> HIDE DEF new, x, y
  <2>5. new[p] = RowReserved(bal[p], x, y)
    BY <2>1 DEF x, y, RowReserved
  <2> DEFINE row == RowReserved(bal[p], x, y)
  <2>6. /\ row \in Balance /\ row.onHand = bal[p].onHand
        /\ row.reserved = x /\ row.available = y
    <3> DEFINE old == bal[p]
    <3>1. old \in Balance
      BY <2>3
    <3> HIDE DEF old
    <3>2. /\ RowReserved(old, x, y) \in Balance /\ RowReserved(old, x, y).onHand = old.onHand
          /\ RowReserved(old, x, y).reserved = x /\ RowReserved(old, x, y).available = y
      BY <2>4, <3>1, RowReservedFields
    <3> QED BY <3>2 DEF old
  <2>7. new[p] = row
    BY <2>5
  <2> HIDE DEF row
  <2> QED BY <2>6, <2>7 DEF x, y
<1>4. new \in [Products -> Balance]
  <2>1. new = [p \in Products |-> new[p]]
    BY DEF ReserveBalance
  <2> HIDE DEF new
  <2> QED BY <1>3, <2>1
<1>5. ASSUME NEW p \in Products
      PROVE  /\ new[p].available = new[p].onHand - new[p].reserved
             /\ InLedger(new[p].reserved, TotalOf(ReserveRows(taken), p), Late(ReserveRows(taken), p))
  <2>1. /\ bal[p].onHand \in Nat /\ bal[p].reserved \in Int /\ TakenOf(taken, p) \in Int
        /\ TotalOf(reservations, p) \in Nat
    BY <1>1, TakenOfType, TotalOfType DEF Balance
  <2>2. Late(reservations, p) => Late(ReserveRows(taken), p)
    BY <1>1, ReserveGoOn, LateStays
  <2> HIDE DEF new
  <2>3. new[p].available = new[p].onHand - new[p].reserved
    BY <1>1, <1>3, <2>1
  <2>4. /\ new[p].reserved = bal[p].reserved + TakenOf(taken, p)
        /\ TotalOf(ReserveRows(taken), p) = TotalOf(reservations, p) + TakenOf(taken, p)
    BY <1>2, <1>3
  <2>5. InLedger(bal[p].reserved, TotalOf(reservations, p), Late(reservations, p))
    BY <1>1
  <2>6. InLedger(new[p].reserved, TotalOf(ReserveRows(taken), p), Late(ReserveRows(taken), p))
    BY ONLY <2>1, <2>2, <2>4, <2>5, LedgerMoves
  <2> QED BY <2>3, <2>6
<1> HIDE DEF new
<1> QED BY <1>2, <1>4, <1>5 DEF StockOK, new

LEMMA ReleaseKeepsStock ==
  ASSUME ConstantsAssumption, StockOK(balance, reservations), NEW d \in Deals
  PROVE  StockOK(ReleaseBalance(d),
                 [reservations EXCEPT ![d] =
                    [p \in Products |-> ReleaseRows(reservations[d][p])]])
<1> DEFINE new == ReleaseBalance(d)
           res == [reservations EXCEPT ![d] =
                     [p \in Products |-> ReleaseRows(reservations[d][p])]]
<1>1. /\ reservations \in Reservations /\ balance \in [Products -> Balance]
      /\ \A p \in Products :
           /\ balance[p].available = balance[p].onHand - balance[p].reserved
           /\ InLedger(balance[p].reserved, TotalOf(reservations, p), Late(reservations, p))
  BY DEF StockOK
<1>2. \A p \in Products : /\ reservations[d][p] \in Seq(Reservation)
                          /\ ReleaseRows(reservations[d][p]) \in Seq(Reservation)
                          /\ HeldOf(ReleaseRows(reservations[d][p])) = 0
  <2>1. \A p \in Products : reservations[d][p] \in Seq(Reservation)
    BY <1>1 DEF Reservations
  <2> QED BY <2>1, HeldOfReleased
<1>3. /\ \A p \in Products : res[d][p] = ReleaseRows(reservations[d][p])
      /\ \A e \in Deals, p \in Products : e # d => res[e][p] = reservations[e][p]
  BY <1>1 DEF Reservations
<1>4. res \in Reservations
  BY <1>1, <1>2 DEF Reservations
<1> HIDE DEF res
<1>5. ASSUME NEW p \in Products
      PROVE  /\ TotalOf(res, p) = TotalOf(reservations, p) - Held(d, p)
             /\ Held(d, p) \in Nat /\ Held(d, p) <= TotalOf(reservations, p)
  <2>1. HeldOf(res[d][p]) = 0
    BY <1>2, <1>3
  <2>2. TotalOf(res, p)
          = TotalOf(reservations, p) - HeldOf(reservations[d][p]) + HeldOf(res[d][p])
    BY <1>1, <1>3, <1>4, TotalOfChanged
  <2>3. /\ TotalOf(reservations, p) \in Nat
        /\ HeldOf(reservations[d][p]) \in Nat
        /\ HeldOf(reservations[d][p]) <= TotalOf(reservations, p)
    BY <1>1, TotalOfType
  <2> QED BY <2>1, <2>2, <2>3 DEF Held
<1>6. \A p \in Products :
        /\ new[p] \in Balance
        /\ new[p].onHand = balance[p].onHand
        /\ new[p].reserved = balance[p].reserved - Held(d, p)
        /\ new[p].available = balance[p].available + Held(d, p)
  <2> SUFFICES ASSUME NEW p \in Products
               PROVE  /\ new[p] \in Balance
                      /\ new[p].onHand = balance[p].onHand
                      /\ new[p].reserved = balance[p].reserved - Held(d, p)
                      /\ new[p].available = balance[p].available + Held(d, p)
    OBVIOUS
  <2>1. new[p] = [balance[p] EXCEPT !.reserved  = @ - Held(d, p),
                                    !.available = @ + Held(d, p)]
    BY DEF ReleaseBalance
  <2>2. Held(d, p) \in Nat
    BY <1>1, <1>5
  <2>3. balance[p] \in Balance
    BY <1>1
  <2> DEFINE x == balance[p].reserved - Held(d, p)
             y == balance[p].available + Held(d, p)
  <2>4. x \in Int /\ y \in Nat
    BY <2>2, <2>3 DEF Balance
  <2> HIDE DEF new, x, y
  <2>5. new[p] = RowReserved(balance[p], x, y)
    BY <2>1 DEF x, y, RowReserved
  <2> DEFINE row == RowReserved(balance[p], x, y)
  <2>6. /\ row \in Balance /\ row.onHand = balance[p].onHand
        /\ row.reserved = x /\ row.available = y
    <3> DEFINE old == balance[p]
    <3>1. old \in Balance
      BY <2>3
    <3> HIDE DEF old
    <3>2. /\ RowReserved(old, x, y) \in Balance /\ RowReserved(old, x, y).onHand = old.onHand
          /\ RowReserved(old, x, y).reserved = x /\ RowReserved(old, x, y).available = y
      BY <2>4, <3>1, RowReservedFields
    <3> QED BY <3>2 DEF old
  <2>7. new[p] = row
    BY <2>5
  <2> HIDE DEF row
  <2> QED BY <2>6, <2>7 DEF x, y
<1>7. new \in [Products -> Balance]
  <2>1. new = [p \in Products |-> new[p]]
    BY DEF ReleaseBalance
  <2> HIDE DEF new
  <2> QED BY <1>6, <2>1
<1>8. ASSUME NEW p \in Products
      PROVE  /\ new[p].available = new[p].onHand - new[p].reserved
             /\ InLedger(new[p].reserved, TotalOf(res, p), Late(res, p))
  <2>1. /\ balance[p].onHand \in Nat /\ balance[p].reserved \in Int
        /\ TotalOf(reservations, p) \in Nat
    BY <1>1, TotalOfType DEF Balance
  <2> HIDE DEF new
  <2>2. /\ new[p].onHand = balance[p].onHand
        /\ new[p].reserved = balance[p].reserved - Held(d, p)
        /\ new[p].available = balance[p].available + Held(d, p)
    BY <1>6
  <2>3. /\ balance[p].available = balance[p].onHand - balance[p].reserved
        /\ InLedger(balance[p].reserved, TotalOf(reservations, p), Late(reservations, p))
    BY <1>1
  <2>4. TotalOf(res, p) = TotalOf(reservations, p) - Held(d, p) /\ Held(d, p) \in Nat
    BY ONLY <1>5
  <2>5. Late(reservations, p) => Late(res, p)
    BY <1>1, ReleaseGoOn, LateStays DEF res
  <2> DEFINE delta == 0 - Held(d, p)
  <2>6. /\ delta \in Int /\ new[p].reserved = balance[p].reserved + delta
        /\ TotalOf(res, p) = TotalOf(reservations, p) + delta
    BY ONLY <2>1, <2>2, <2>4
  <2> HIDE DEF delta
  <2>7. InLedger(new[p].reserved, TotalOf(res, p), Late(res, p))
    BY ONLY <2>1, <2>3, <2>5, <2>6, LedgerMoves
  <2>8. new[p].available = new[p].onHand - new[p].reserved
    BY ONLY <2>1, <2>2, <2>3, <2>4
  <2> QED BY ONLY <2>7, <2>8
<1> HIDE DEF new
<1> QED BY <1>4, <1>7, <1>8 DEF StockOK, new, res

LEMMA ExpireKeepsStock ==
  ASSUME ConstantsAssumption, StockOK(balance, reservations),
         NEW d \in Deals, NEW p \in Products, NEW k \in DOMAIN reservations[d][p],
         IsActive(reservations[d][p][k]), reservations[d][p][k].age = ReservationTtl,
         NEW listed \in Nat, reservations[d][p][k].quantity <= listed
  PROVE  StockOK([balance EXCEPT ![p].reserved  = @ - listed,
                                 ![p].available = @ + listed],
                 [reservations EXCEPT ![d][p][k].status = "RELEASED"])
<1> DEFINE quantity == reservations[d][p][k].quantity
           new == [balance EXCEPT ![p].reserved  = @ - listed,
                                  ![p].available = @ + listed]
           rows == reservations[d][p]
           row == [rows EXCEPT ![k].status = "RELEASED"]
           res == [reservations EXCEPT ![d][p][k].status = "RELEASED"]
<1>1. /\ reservations \in Reservations /\ balance \in [Products -> Balance]
      /\ \A q \in Products :
           /\ balance[q].available = balance[q].onHand - balance[q].reserved
           /\ InLedger(balance[q].reserved, TotalOf(reservations, q), Late(reservations, q))
  BY DEF StockOK
<1>2. rows \in Seq(Reservation)
  BY <1>1 DEF Reservations
<1>3. row \in Seq(Reservation) /\ HeldOf(row) = HeldOf(rows) - quantity
  <2> HIDE DEF rows
  <2>1. quantity = rows[k].quantity /\ k \in DOMAIN rows /\ IsActive(rows[k])
    BY DEF rows
  <2> HIDE DEF quantity
  <2> QED BY <1>2, <2>1, HeldOfExpired
<1>4. quantity \in Nat /\ quantity <= HeldOf(rows)
  <2> HIDE DEF rows
  <2>1. quantity = rows[k].quantity /\ k \in DOMAIN rows /\ IsActive(rows[k])
    BY DEF rows
  <2> HIDE DEF quantity
  <2>2. rows[k] \in Reservation
    BY <1>2, <2>1, ActiveQuantitiesType
  <2>3. ActiveQuantity(rows[k]) = quantity /\ quantity \in Nat
    BY <2>1, <2>2 DEF ActiveQuantity, IsActive, Reservation
  <2>4. ActiveQuantity(rows[k]) <= HeldOf(rows)
    BY <1>2, <2>1, HeldOfType
  <2> QED BY <2>3, <2>4
<1>5. res = [reservations EXCEPT ![d] = [reservations[d] EXCEPT ![p] = row]]
  BY DEF Reservations
<1> HIDE DEF row, res
<1>6. /\ res[d][p] = row
      /\ \A e \in Deals, q \in Products : <<e, q>> # <<d, p>> => res[e][q] = reservations[e][q]
      /\ res \in Reservations
  BY <1>1, <1>3, <1>5 DEF Reservations
<1>7. TotalOf(res, p) = TotalOf(reservations, p) - quantity
  <2>1. \A e \in Deals : e # d => res[e][p] = reservations[e][p]
    BY <1>6
  <2>2. TotalOf(res, p)
          = TotalOf(reservations, p) - HeldOf(reservations[d][p]) + HeldOf(res[d][p])
    BY <1>1, <1>6, <2>1, TotalOfChanged
  <2>3. TotalOf(reservations, p) \in Nat /\ HeldOf(rows) \in Nat
    BY <1>1, TotalOfType
  <2>4. HeldOf(res[d][p]) = HeldOf(rows) - quantity
    BY <1>3, <1>6
  <2> HIDE DEF quantity
  <2> QED BY <1>4, <2>2, <2>3, <2>4
<1>8. ASSUME NEW q \in Products, q # p
      PROVE  TotalOf(res, q) = TotalOf(reservations, q)
  <2>1. \A e \in Deals : HeldOf(res[e][q]) = HeldOf(reservations[e][q])
    BY <1>6, <1>8
  <2> QED BY <1>1, <1>6, <2>1, TotalOfSame
<1>9. quantity <= listed /\ Late(res, p)
  <2>1. Late(reservations, p)
    BY DEF Late
  <2>2. GoOn(reservations, res)
    BY <1>1, ExpireGoOn DEF res
  <2> QED BY <2>1, <2>2, LateStays
<1> HIDE DEF quantity, rows
<1>10. /\ new[p].onHand = balance[p].onHand
       /\ new[p].reserved = balance[p].reserved - listed
       /\ new[p].available = balance[p].available + listed
       /\ \A q \in Products : q # p => new[q] = balance[q]
       /\ new \in [Products -> Balance]
  <2>1. balance[p] \in Balance
    BY <1>1
  <2> DEFINE x == balance[p].reserved - listed
             y == balance[p].available + listed
             row2 == RowReserved(balance[p], x, y)
  <2>2. x \in Int /\ y \in Nat /\ balance[p].onHand \in Nat
    BY <2>1 DEF Balance
  <2>3. new = [balance EXCEPT ![p] = row2]
    BY DEF RowReserved
  <2> HIDE DEF new, x, y
  <2>4. /\ row2 \in Balance /\ row2.onHand = balance[p].onHand
        /\ row2.reserved = x /\ row2.available = y
    <3> DEFINE old == balance[p]
    <3>1. old \in Balance
      BY <2>1
    <3> HIDE DEF old
    <3>2. /\ RowReserved(old, x, y) \in Balance /\ RowReserved(old, x, y).onHand = old.onHand
          /\ RowReserved(old, x, y).reserved = x /\ RowReserved(old, x, y).available = y
      BY <2>2, <3>1, RowReservedFields
    <3> QED BY <3>2 DEF old
  <2> HIDE DEF row2
  <2>8. /\ new[p] = row2 /\ new \in [Products -> Balance]
        /\ \A q \in Products : q # p => new[q] = balance[q]
    BY <1>1, <2>3, <2>4
  <2> QED BY <2>4, <2>8 DEF x, y
<1>11. ASSUME NEW q \in Products
       PROVE  /\ new[q].available = new[q].onHand - new[q].reserved
              /\ InLedger(new[q].reserved, TotalOf(res, q), Late(res, q))
  <2> HIDE DEF new
  <2>1. CASE q = p
    <3>1. /\ balance[p].onHand \in Nat /\ balance[p].reserved \in Int
          /\ TotalOf(reservations, p) \in Nat
      BY <1>1, TotalOfType DEF Balance
    <3>2. /\ balance[p].available = balance[p].onHand - balance[p].reserved
          /\ InLedger(balance[p].reserved, TotalOf(reservations, p), Late(reservations, p))
      BY <1>1
    <3>3. quantity \in Nat /\ quantity <= listed /\ Late(res, p)
      BY <1>4, <1>9
    <3>4. /\ new[p].onHand = balance[p].onHand
          /\ new[p].reserved = balance[p].reserved - listed
          /\ new[p].available = balance[p].available + listed
      BY <1>10
    <3>5. /\ new[p].available = new[p].onHand - new[p].reserved
          /\ InLedger(new[p].reserved, TotalOf(res, p), Late(res, p))
      BY <1>7, <3>1, <3>2, <3>3, <3>4 DEF InLedger
    <3> QED BY <2>1, <3>5
  <2>2. CASE q # p
    <3>1. new[q] = balance[q] /\ TotalOf(res, q) = TotalOf(reservations, q)
      BY ONLY <1>8, <1>10, <2>2
    <3>2. Late(reservations, q) => Late(res, q)
      BY <1>1, ExpireGoOn, LateStays DEF res
    <3>3. /\ balance[q].available = balance[q].onHand - balance[q].reserved
          /\ InLedger(balance[q].reserved, TotalOf(reservations, q), Late(reservations, q))
      BY <1>1
    <3> QED BY ONLY <3>1, <3>2, <3>3 DEF InLedger
  <2> QED BY <2>1, <2>2
<1> QED BY <1>6, <1>10, <1>11, Zenon DEF StockOK, res, quantity

LEMMA CommitKeepsStock ==
  ASSUME ConstantsAssumption, StockOK(balance, reservations), NEW d \in Deals,
         NEW quantity \in [Products -> Nat],
         \A p \in Products :
           quantity[p] > 0 => /\ Held(d, p) >= quantity[p]
                              /\ balance[p].onHand >= quantity[p]
                              /\ balance[p].reserved >= quantity[p]
  PROVE  StockOK([p \in Products |->
                    [balance[p] EXCEPT !.onHand   = @ - quantity[p],
                                       !.reserved = @ - quantity[p]]],
                 [reservations EXCEPT ![d] =
                    [p \in Products |-> ConsumeRows(reservations[d][p], quantity[p])]])
<1> DEFINE new == [p \in Products |->
                     [balance[p] EXCEPT !.onHand   = @ - quantity[p],
                                        !.reserved = @ - quantity[p]]]
           res == [reservations EXCEPT ![d] =
                     [p \in Products |-> ConsumeRows(reservations[d][p], quantity[p])]]
<1>1. /\ reservations \in Reservations /\ balance \in [Products -> Balance]
      /\ \A p \in Products :
           /\ balance[p].available = balance[p].onHand - balance[p].reserved
           /\ InLedger(balance[p].reserved, TotalOf(reservations, p), Late(reservations, p))
  BY DEF StockOK
<1>2. ASSUME NEW p \in Products
      PROVE  /\ Held(d, p) \in Nat /\ Held(d, p) <= TotalOf(reservations, p)
             /\ TotalOf(reservations, p) \in Nat
             /\ quantity[p] \in Nat /\ quantity[p] <= Held(d, p)
             /\ balance[p].onHand \in Nat /\ balance[p].reserved \in Int
             /\ quantity[p] <= balance[p].onHand
  <2>1. /\ TotalOf(reservations, p) \in Nat
        /\ Held(d, p) \in Nat
        /\ Held(d, p) <= TotalOf(reservations, p)
    BY <1>1, TotalOfType DEF Held
  <2>2. balance[p].onHand \in Nat /\ balance[p].reserved \in Int
    BY <1>1 DEF Balance
  <2> QED BY <2>1, <2>2
<1>3. ASSUME NEW p \in Products
      PROVE  /\ ConsumeRows(reservations[d][p], quantity[p]) \in Seq(Reservation)
             /\ HeldOf(ConsumeRows(reservations[d][p], quantity[p])) = Held(d, p) - quantity[p]
  <2>1. reservations[d][p] \in Seq(Reservation)
    BY <1>1 DEF Reservations
  <2>2. quantity[p] \in Nat /\ quantity[p] <= HeldOf(reservations[d][p])
    BY <1>2 DEF Held
  <2> QED BY <2>1, <2>2, HeldOfConsumed DEF Held
<1>4. /\ \A p \in Products : res[d][p] = ConsumeRows(reservations[d][p], quantity[p])
      /\ \A e \in Deals, p \in Products : e # d => res[e][p] = reservations[e][p]
  BY <1>1 DEF Reservations
<1>5. res \in Reservations
  BY <1>1, <1>3 DEF Reservations
<1> HIDE DEF res
<1>6. ASSUME NEW p \in Products
      PROVE  TotalOf(res, p) = TotalOf(reservations, p) - quantity[p]
  <2>1. HeldOf(res[d][p]) = Held(d, p) - quantity[p]
    BY <1>3, <1>4
  <2>2. TotalOf(res, p) = TotalOf(reservations, p) - Held(d, p) + HeldOf(res[d][p])
    BY <1>1, <1>4, <1>5, TotalOfChanged DEF Held
  <2> QED BY <1>2, <2>1, <2>2
<1>7. ASSUME NEW p \in Products
      PROVE  /\ new[p] \in Balance
             /\ new[p].onHand = balance[p].onHand - quantity[p]
             /\ new[p].reserved = balance[p].reserved - quantity[p]
             /\ new[p].available = balance[p].available
  <2> DEFINE x == balance[p].onHand - quantity[p]
             y == balance[p].reserved - quantity[p]
             row == RowShipped(balance[p], x, y)
  <2>1. balance[p] \in Balance
    BY <1>1
  <2>2. x \in Nat /\ y \in Int
    BY <1>2
  <2>3. new[p] = row
    BY DEF RowShipped
  <2> HIDE DEF new, x, y
  <2>4. /\ row \in Balance /\ row.onHand = x /\ row.reserved = y
        /\ row.available = balance[p].available
    <3> DEFINE old == balance[p]
    <3>1. old \in Balance
      BY <2>1
    <3> HIDE DEF old
    <3>2. /\ RowShipped(old, x, y) \in Balance /\ RowShipped(old, x, y).available = old.available
          /\ RowShipped(old, x, y).onHand = x /\ RowShipped(old, x, y).reserved = y
      BY <2>2, <3>1, RowShippedFields
    <3> QED BY <3>2 DEF old
  <2> HIDE DEF row
  <2> QED BY <2>3, <2>4 DEF x, y
<1>8. new \in [Products -> Balance]
  <2>1. new = [p \in Products |-> new[p]]
    OBVIOUS
  <2> HIDE DEF new
  <2> QED BY <1>7, <2>1
<1> HIDE DEF new
<1>9. ASSUME NEW p \in Products
      PROVE  /\ new[p].available = new[p].onHand - new[p].reserved
             /\ InLedger(new[p].reserved, TotalOf(res, p), Late(res, p))
  <2>1. /\ balance[p].available = balance[p].onHand - balance[p].reserved
        /\ InLedger(balance[p].reserved, TotalOf(reservations, p), Late(reservations, p))
    BY <1>1
  <2>2. /\ balance[p].onHand \in Nat /\ balance[p].reserved \in Int /\ quantity[p] \in Nat
        /\ TotalOf(reservations, p) \in Nat
    BY <1>2
  <2>3. /\ new[p].onHand = balance[p].onHand - quantity[p]
        /\ new[p].reserved = balance[p].reserved - quantity[p]
        /\ new[p].available = balance[p].available
    BY <1>7
  <2>4. TotalOf(res, p) = TotalOf(reservations, p) - quantity[p]
    BY <1>6
  <2>5. Late(reservations, p) => Late(res, p)
    BY <1>1, CommitGoOn, LateStays DEF res
  <2> DEFINE delta == 0 - quantity[p]
  <2>6. /\ delta \in Int /\ new[p].reserved = balance[p].reserved + delta
        /\ TotalOf(res, p) = TotalOf(reservations, p) + delta
    BY ONLY <2>2, <2>3, <2>4
  <2> HIDE DEF delta
  <2>7. InLedger(new[p].reserved, TotalOf(res, p), Late(res, p))
    BY ONLY <2>1, <2>2, <2>5, <2>6, LedgerMoves
  <2>8. new[p].available = new[p].onHand - new[p].reserved
    BY ONLY <2>1, <2>2, <2>3
  <2> QED BY ONLY <2>7, <2>8
<1> QED BY ONLY <1>5, <1>8, <1>9 DEF StockOK, new, res

LEMMA ReceiveKeepsStock ==
  ASSUME StockOK(balance, reservations), NEW accepted \in [Products -> Nat]
  PROVE  /\ StockOK(ReceiveBalance(accepted), reservations)
         /\ \A p \in Products : ReceiveBalance(accepted)[p].available \in Nat
<1> DEFINE new == ReceiveBalance(accepted)
<1>1. /\ reservations \in Reservations /\ balance \in [Products -> Balance]
      /\ \A p \in Products :
           /\ balance[p].available = balance[p].onHand - balance[p].reserved
           /\ InLedger(balance[p].reserved, TotalOf(reservations, p), Late(reservations, p))
  BY DEF StockOK
<1>2. ASSUME NEW p \in Products
      PROVE  /\ balance[p].onHand \in Nat /\ balance[p].reserved \in Int
             /\ balance[p].available \in Nat /\ accepted[p] \in Nat
  BY <1>1 DEF Balance
<1>3. ASSUME NEW p \in Products
      PROVE  /\ new[p] \in Balance
             /\ new[p].onHand = balance[p].onHand + accepted[p]
             /\ new[p].available = balance[p].available + accepted[p]
             /\ new[p].reserved = balance[p].reserved
  <2> DEFINE x == balance[p].onHand + accepted[p]
             y == balance[p].available + accepted[p]
             row == RowReceived(balance[p], x, y)
  <2>1. balance[p] \in Balance
    BY <1>1
  <2>2. x \in Nat /\ y \in Nat
    BY <1>2
  <2>3. new[p] = row
    BY DEF RowReceived, ReceiveBalance
  <2> HIDE DEF new, x, y
  <2>4. /\ row \in Balance /\ row.onHand = x /\ row.available = y
        /\ row.reserved = balance[p].reserved
    <3> DEFINE old == balance[p]
    <3>1. old \in Balance
      BY <2>1
    <3> HIDE DEF old
    <3>2. /\ RowReceived(old, x, y) \in Balance /\ RowReceived(old, x, y).reserved = old.reserved
          /\ RowReceived(old, x, y).onHand = x /\ RowReceived(old, x, y).available = y
      BY <2>2, <3>1, RowReceivedFields
    <3> QED BY <3>2 DEF old
  <2> HIDE DEF row
  <2> QED BY <2>3, <2>4 DEF x, y
<1>4. new \in [Products -> Balance]
  <2>1. new = [p \in Products |-> new[p]]
    BY DEF ReceiveBalance
  <2> HIDE DEF new
  <2> QED BY <1>3, <2>1
<1> HIDE DEF new
<1>5. ASSUME NEW p \in Products
      PROVE  /\ new[p].available = new[p].onHand - new[p].reserved
             /\ InLedger(new[p].reserved, TotalOf(reservations, p), Late(reservations, p))
             /\ new[p].available \in Nat
  BY <1>1, <1>2, <1>3
<1> QED BY <1>1, <1>4, <1>5 DEF StockOK, new

LEMMA AgeKeepsStock ==
  ASSUME ConstantsAssumption, StockOK(balance, reservations)
  PROVE  StockOK(balance, [d \in Deals |-> [p \in Products |-> AgedRows(reservations[d][p])]])
<1> DEFINE res == [d \in Deals |-> [p \in Products |-> AgedRows(reservations[d][p])]]
<1>1. /\ reservations \in Reservations /\ balance \in [Products -> Balance]
      /\ \A p \in Products :
           /\ balance[p].available = balance[p].onHand - balance[p].reserved
           /\ InLedger(balance[p].reserved, TotalOf(reservations, p), Late(reservations, p))
  BY DEF StockOK
<1>2. ASSUME NEW d \in Deals, NEW p \in Products
      PROVE  /\ AgedRows(reservations[d][p]) \in Seq(Reservation)
             /\ HeldOf(AgedRows(reservations[d][p])) = HeldOf(reservations[d][p])
  <2>1. reservations[d][p] \in Seq(Reservation) /\ ReservationTtl \in Nat
    BY <1>1 DEF Reservations, ConstantsAssumption
  <2> QED BY <2>1, HeldOfAged
<1>3. res \in Reservations
  BY <1>2 DEF Reservations
<1>4. ASSUME NEW p \in Products PROVE TotalOf(res, p) = TotalOf(reservations, p)
  <2>1. \A d \in Deals : HeldOf(res[d][p]) = HeldOf(reservations[d][p])
    BY <1>2
  <2> HIDE DEF res
  <2> QED BY <1>1, <1>3, <2>1, TotalOfSame
<1>5. ASSUME NEW p \in Products
      PROVE  InLedger(balance[p].reserved, TotalOf(res, p), Late(res, p))
  <2>1. Late(reservations, p) => Late(res, p)
    BY <1>1, AgeGoOn, LateStays
  <2>2. InLedger(balance[p].reserved, TotalOf(reservations, p), Late(reservations, p))
    BY <1>1
  <2>3. TotalOf(res, p) = TotalOf(reservations, p)
    BY <1>4
  <2> HIDE DEF res
  <2> QED BY ONLY <2>1, <2>2, <2>3 DEF InLedger
<1> HIDE DEF res
<1> QED BY <1>1, <1>3, <1>5 DEF StockOK, res

-----------------------------------------------------------------------------
\* Orders in the sequence of their creation.

Created == {d \in Deals : orders[d].status # "NONE"}

\* No two orders were created at the same moment.
CreationOrder ==
  /\ \A d \in Created : orders[d].createdAt <= Cardinality(Created)
  /\ \A d, e \in Created : d # e => orders[d].createdAt # orders[e].createdAt

LEMMA CreatedFinite ==
  ASSUME ConstantsAssumption
  PROVE  /\ \A S \in SUBSET Deals : IsFiniteSet(S) /\ Cardinality(S) \in Nat
         /\ IsFiniteSet(Created) /\ Cardinality(Created) \in Nat
<1>1. IsFiniteSet(Deals)
  <2>1. 1 \in Int /\ NumDeals \in Int
    BY DEF ConstantsAssumption
  <2> QED BY <2>1, FS_Interval DEF Deals
<1>2. \A S \in SUBSET Deals : IsFiniteSet(S) /\ Cardinality(S) \in Nat
  BY <1>1, FS_Subset, FS_CardinalityType
<1>3. Created \in SUBSET Deals
  BY DEF Created
<1> QED BY <1>2, <1>3

LEMMA Latest ==
  ASSUME ConstantsAssumption, orders \in [Deals -> Order], CreationOrder,
         NEW S \in SUBSET Created, S # {}
  PROVE  \E d \in S : \A e \in S : orders[e].createdAt <= orders[d].createdAt
<1> DEFINE n == Cardinality(Created)
           T == {n - orders[d].createdAt : d \in S}
<1>1. n \in Nat
  BY CreatedFinite
<1>2. \A d \in S : orders[d].createdAt \in Nat /\ orders[d].createdAt <= n
  <2>1. \A d \in S : d \in Deals /\ d \in Created
    BY DEF Created
  <2>2. \A d \in Deals : orders[d].createdAt \in Nat
    BY DEF Order
  <2> QED BY <2>1, <2>2 DEF CreationOrder
<1> HIDE DEF n
<1>3. T \in SUBSET Nat /\ T # {}
  BY <1>1, <1>2
<1>4. PICK m \in T : \A x \in T : m <= x
  <2> HIDE DEF T
  <2> QED BY <1>3, NatMin
<1>5. PICK d \in S : m = n - orders[d].createdAt
  BY <1>4
<1>6. ASSUME NEW e \in S PROVE orders[e].createdAt <= orders[d].createdAt
  <2>1. m <= n - orders[e].createdAt
    BY <1>4
  <2> QED BY <1>1, <1>2, <1>5, <2>1
<1> QED BY <1>6

\* An order that is left as it was created keeps the sequence of creations.
LEMMA CreationKept ==
  ASSUME CreationOrder,
         \A d \in Deals : /\ orders'[d].createdAt = orders[d].createdAt
                          /\ orders'[d].status = "NONE" <=> orders[d].status = "NONE"
  PROVE  CreationOrder'
<1>1. \A d \in Deals : orders'[d].status = "NONE" <=> orders[d].status = "NONE"
  OBVIOUS
<1>2. Created' = Created
  BY <1>1 DEF Created
<1>3. \A d \in Created : orders'[d].createdAt = orders[d].createdAt
  BY DEF Created
<1>4. Cardinality(Created)' = Cardinality(Created)
  BY <1>2
<1>5. \A d \in Created' : orders'[d].createdAt <= Cardinality(Created)'
  BY <1>2, <1>3, <1>4 DEF CreationOrder
<1>6. \A d, e \in Created' : d # e => orders'[d].createdAt # orders'[e].createdAt
  BY <1>2, <1>3 DEF CreationOrder
<1> QED BY <1>5, <1>6 DEF CreationOrder

\* A new order comes after all the others.
LEMMA CreationExtended ==
  ASSUME ConstantsAssumption, orders \in [Deals -> Order], CreationOrder,
         NEW d \in Deals, orders[d].status = "NONE",
         orders'[d].status # "NONE",
         orders'[d].createdAt = 1 + Cardinality(Created),
         \A e \in Deals : e # d => orders'[e] = orders[e]
  PROVE  CreationOrder'
<1>1. IsFiniteSet(Created) /\ Cardinality(Created) \in Nat
  BY CreatedFinite
<1>2. Created' = Created \cup {d} /\ d \notin Created /\ Created \subseteq Deals
  BY DEF Created
<1>3. Cardinality(Created') = Cardinality(Created) + 1
  BY <1>1, <1>2, FS_AddElement
<1>4. \A e \in Created : /\ orders'[e].createdAt = orders[e].createdAt
                         /\ orders[e].createdAt \in Nat
                         /\ orders[e].createdAt <= Cardinality(Created)
  <2>1. \A e \in Created : e \in Deals /\ e # d
    BY <1>2
  <2>2. \A e \in Deals : orders[e].createdAt \in Nat
    BY DEF Order
  <2> QED BY <2>1, <2>2 DEF CreationOrder
<1>5. \A e, g \in Created : e # g => orders[e].createdAt # orders[g].createdAt
  BY DEF CreationOrder
<1>6. \A e \in Created' : e \in Created \/ e = d
  BY <1>2
<1>7. \A e \in Created' : orders'[e].createdAt <= Cardinality(Created')
  BY <1>1, <1>3, <1>4, <1>6
<1>8. \A e, g \in Created' : e # g => orders'[e].createdAt # orders'[g].createdAt
  BY <1>1, <1>4, <1>5, <1>6
<1> QED BY <1>7, <1>8 DEF CreationOrder

-----------------------------------------------------------------------------
\* What is taken is there.

\* reserveStock takes only what fits.
LEMMA ReserveStockFits ==
  ASSUME NEW d, NEW available, NEW taken, ReserveStock(d, available, taken), NEW p \in taken
  PROVE  p \in Products /\ available[p] >= deals[d].items[p]
BY DEF ReserveStock, Wanted

LEMMA TakenOfChanged ==
  ASSUME ConstantsAssumption, deals \in [Deals -> Deal], NEW p \in Products,
         NEW taken, NEW other, NEW d \in Deals,
         \A e \in Deals : e # d => TakenTable(taken, p)[e] = TakenTable(other, p)[e]
  PROVE  TakenOf(taken, p)
           = TakenOf(other, p) - TakenTable(other, p)[d] + TakenTable(taken, p)[d]
<1> DEFINE g == TakenTable(taken, p)
           o == TakenTable(other, p)
<1>1. NumDeals \in Nat /\ Deals = 1..NumDeals
  BY DEF ConstantsAssumption, Deals
<1>2. TakenOf(taken, p) = SumUpTo(g, NumDeals) /\ \A e \in Deals : g[e] \in Nat
  BY TakenOfType
<1>3. TakenOf(other, p) = SumUpTo(o, NumDeals) /\ \A e \in Deals : o[e] \in Nat
  BY TakenOfType
<1> HIDE DEF g, o
<1>4. \A e \in 1..NumDeals : o[e] \in Int /\ g[e] \in Int
  BY <1>1, <1>2, <1>3
<1>5. \A e \in 1..NumDeals : e # d => g[e] = o[e]
  BY <1>1 DEF g, o
<1>6. NumDeals \in Nat /\ d \in 1..NumDeals
  BY <1>1
<1>7. SumUpTo(g, NumDeals) = SumUpTo(o, NumDeals) - o[d] + g[d]
  BY <1>4, <1>5, <1>6, SumPoint
<1> QED BY <1>2, <1>3, <1>7 DEF g, o

LEMMA TakenOfOne ==
  ASSUME ConstantsAssumption, deals \in [Deals -> Deal], NEW p \in Products,
         NEW d \in Deals, NEW taken
  PROVE  TakenOf(OnlyFor(d, taken), p) = IF p \in taken THEN deals[d].items[p] ELSE 0
<1> DEFINE g == TakenTable(OnlyFor(d, taken), p)
           z == [e \in Deals |-> 0]
<1>1. NumDeals \in Nat /\ Deals = 1..NumDeals
  BY DEF ConstantsAssumption, Deals
<1>2. /\ TakenOf(OnlyFor(d, taken), p) = SumUpTo(g, NumDeals)
      /\ \A e \in Deals : g[e] \in Nat
  BY TakenOfType
<1>3. /\ g[d] = IF p \in taken THEN deals[d].items[p] ELSE 0
      /\ \A e \in Deals : e # d => g[e] = 0
  BY DEF TakenTable, OnlyFor
<1>4. \A e \in Deals : z[e] = 0
  OBVIOUS
<1> HIDE DEF g, z
<1>5. SumUpTo(z, NumDeals) = 0
  BY <1>1, <1>4, SumZeros
<1>6. SumUpTo(g, NumDeals) = SumUpTo(z, NumDeals) - z[d] + g[d]
  <2>1. \A e \in 1..NumDeals : z[e] \in Int /\ g[e] \in Int
    BY <1>1, <1>2, <1>4
  <2>2. \A e \in 1..NumDeals : e # d => g[e] = z[e]
    BY <1>1, <1>3, <1>4
  <2>3. NumDeals \in Nat /\ d \in 1..NumDeals
    BY <1>1
  <2> QED BY <2>1, <2>2, <2>3, SumPoint
<1>7. SumUpTo(g, NumDeals) = g[d]
  BY <1>2, <1>4, <1>5, <1>6
<1> QED BY <1>2, <1>3, <1>7

\* The pass over the waiting orders gives away no more than there is: the
\* latest order served found its quantity in what all the others had left.
LEMMA PassWithinStock ==
  ASSUME ConstantsAssumption, orders \in [Deals -> Order], deals \in [Deals -> Deal],
         CreationOrder, NEW batch \in SUBSET Created, NEW bal, NEW taken,
         ProcessWaitingOrders(batch, bal, taken),
         NEW p \in Products, bal[p].available \in Nat
  PROVE  TakenOf(taken, p) <= bal[p].available
<1> DEFINE S == {d \in Deals : p \in taken[d]}
           g == TakenTable(taken, p)
<1>1. NumDeals \in Nat /\ Deals = 1..NumDeals
  BY DEF ConstantsAssumption, Deals
<1>2. TakenOf(taken, p) = SumUpTo(g, NumDeals) /\ \A d \in Deals : g[d] \in Nat
  BY TakenOfType
<1>3. \A d \in Deals : g[d] = IF d \in S THEN deals[d].items[p] ELSE 0
  BY DEF TakenTable
<1>4. CASE S = {}
  <2>1. \A d \in 1..NumDeals : g[d] = 0
    BY <1>1, <1>3, <1>4
  <2> HIDE DEF g
  <2>2. SumUpTo(g, NumDeals) = 0
    BY <1>1, <2>1, SumZeros
  <2> QED BY <1>2, <2>2
<1>5. CASE S # {}
  <2>1. \A d \in S : d \in Deals /\ d \in batch
    BY DEF ProcessWaitingOrders
  <2>2. S \in SUBSET Created
    BY <2>1
  <2>3. PICK last \in S : \A e \in S : orders[e].createdAt <= orders[last].createdAt
    <3> HIDE DEF S
    <3> QED BY <1>5, <2>2, Latest
  <2> DEFINE rest == [e \in Deals |-> IF e \in Older(last) THEN taken[e] ELSE {}]
             o == TakenTable(rest, p)
  <2>4. \A e \in S : e # last => e \in Older(last)
    <3>1. \A e \in S : e # last => orders[e].createdAt # orders[last].createdAt
      BY <2>2, <2>3 DEF CreationOrder
    <3>2. \A e \in Deals : orders[e].createdAt \in Nat
      BY DEF Order
    <3> QED BY <2>1, <2>3, <3>1, <3>2 DEF Older
  <2>5. last \notin Older(last)
    <3>1. orders[last].createdAt \in Nat
      BY DEF Order
    <3> QED BY <3>1 DEF Older
  <2>6. /\ TakenOf(rest, p) = SumUpTo(o, NumDeals)
        /\ \A e \in Deals : o[e] \in Nat
    BY TakenOfType
  <2>7. o[last] = 0 /\ \A e \in Deals : e # last => g[e] = o[e]
    BY <1>3, <2>4, <2>5 DEF TakenTable
  <2>8. bal[p].available - TakenOf(rest, p) >= deals[last].items[p]
    <3>1. ReserveStock(last, LeftFor(last, bal, taken), taken[last])
      BY <2>1 DEF ProcessWaitingOrders
    <3>2. LeftFor(last, bal, taken)[p] >= deals[last].items[p]
      BY <3>1, ReserveStockFits
    <3> QED BY <3>2 DEF LeftFor
  <2>9. g[last] = deals[last].items[p] /\ deals[last].items[p] \in Nat
    BY <1>2, <1>3
  <2> HIDE DEF g, o, rest, S
  <2>10. TakenOf(taken, p) = TakenOf(rest, p) - o[last] + g[last]
    BY <2>1, <2>7, TakenOfChanged DEF o, g
  <2>11. TakenOf(rest, p) \in Nat
    BY TakenOfType
  <2> QED BY <2>7, <2>8, <2>9, <2>10, <2>11
<1> QED BY <1>4, <1>5

-----------------------------------------------------------------------------
\* The rows of orders, as the handlers rewrite them.

WithStatus(order, s) == [order EXCEPT !.status = s]

LEMMA WithStatusFields ==
  ASSUME NEW order \in Order, NEW s \in OrderStatuses
  PROVE  /\ WithStatus(order, s) \in Order
         /\ WithStatus(order, s).status = s
         /\ WithStatus(order, s).createdAt = order.createdAt
<1>1. WithStatus(order, s) \in Order
  BY DEF WithStatus, Order
<1>2. WithStatus(order, s).status = s
  BY DEF WithStatus, Order
<1>3. WithStatus(order, s).createdAt = order.createdAt
  BY DEF WithStatus, Order
<1> QED BY <1>1, <1>2, <1>3

Closed(order, by) == [order EXCEPT !.status = "CANCELLED", !.closedBy = by]

LEMMA ClosedFields ==
  ASSUME NEW order \in Order, NEW by \in {"nobody", "user", "ttl"}
  PROVE  /\ Closed(order, by) \in Order
         /\ Closed(order, by).status = "CANCELLED"
         /\ Closed(order, by).createdAt = order.createdAt
<1>1. Closed(order, by) \in Order
  BY DEF Closed, Order, OrderStatuses
<1>2. Closed(order, by).status = "CANCELLED"
  BY DEF Closed, Order
<1>3. Closed(order, by).createdAt = order.createdAt
  BY DEF Closed, Order
<1> QED BY <1>1, <1>2, <1>3

LEMMA PaidFields ==
  ASSUME NEW order \in Order, NEW paid \in Nat, NEW total \in Nat
  PROVE  /\ Paid(order, paid, total) \in Order
         /\ Paid(order, paid, total).status = order.status
         /\ Paid(order, paid, total).createdAt = order.createdAt
<1> DEFINE left == IF paid > total THEN 0 ELSE total - paid
           status == calculatePaymentStatus(paid, total)
           new == [order EXCEPT !.paidAmount = paid, !.remainingAmount = left,
                                !.paymentStatus = status]
<1>1. left \in Nat
  OBVIOUS
<1>2. status \in PaymentStatuses
  BY DEF calculatePaymentStatus, PaymentStatuses
<1>3. Paid(order, paid, total) = new
  BY DEF Paid
<1> HIDE DEF left, status
<1>4. new \in Order
  BY <1>1, <1>2 DEF Order
<1>5. new.status = order.status
  BY DEF Order
<1>6. new.createdAt = order.createdAt
  BY DEF Order
<1> QED BY <1>3, <1>4, <1>5, <1>6

Moved(order, delivered) == [order EXCEPT !.delivered = delivered]

LEMMA MovedFields ==
  ASSUME NEW order \in Order, NEW delivered \in Lines
  PROVE  /\ Moved(order, delivered) \in Order
         /\ Moved(order, delivered).delivered = delivered
         /\ Moved(order, delivered).status = order.status
         /\ Moved(order, delivered).createdAt = order.createdAt
<1>1. Moved(order, delivered) \in Order
  BY DEF Moved, Order
<1>2. Moved(order, delivered).delivered = delivered
  BY DEF Moved, Order
<1>3. Moved(order, delivered).status = order.status
  BY DEF Moved, Order
<1>4. Moved(order, delivered).createdAt = order.createdAt
  BY DEF Moved, Order
<1> QED BY <1>1, <1>2, <1>3, <1>4

AgedOrder(order) == [order EXCEPT !.age = Aged(@)]

LEMMA AgedOrderFields ==
  ASSUME ConstantsAssumption, NEW order \in Order
  PROVE  /\ AgedOrder(order) \in Order
         /\ AgedOrder(order).status = order.status
         /\ AgedOrder(order).createdAt = order.createdAt
<1>1. Aged(order.age) \in 0..ReservationTtl
  <2>1. order.age \in 0..ReservationTtl /\ ReservationTtl \in Nat
    BY DEF Order, ConstantsAssumption
  <2> QED BY <2>1 DEF Aged
<1>2. AgedOrder(order) \in Order
  BY <1>1 DEF AgedOrder, Order
<1>3. AgedOrder(order).status = order.status
  BY DEF AgedOrder, Order
<1>4. AgedOrder(order).createdAt = order.createdAt
  BY DEF AgedOrder, Order
<1> QED BY <1>2, <1>3, <1>4

Served(order, items, all, late) ==
  [order EXCEPT !.status = IF all THEN "WAITING_PAYMENT" ELSE @,
                !.reservedQuantity = IF all THEN items ELSE @,
                !.late = late]

LEMMA ServedFields ==
  ASSUME NEW order \in Order, NEW items \in Lines, NEW all \in BOOLEAN, NEW late \in BOOLEAN
  PROVE  /\ Served(order, items, all, late) \in Order
         /\ Served(order, items, all, late).status
              = IF all THEN "WAITING_PAYMENT" ELSE order.status
         /\ Served(order, items, all, late).createdAt = order.createdAt
<1> DEFINE new == Served(order, items, all, late)
           s == IF all THEN "WAITING_PAYMENT" ELSE order.status
           q == IF all THEN items ELSE order.reservedQuantity
<1>1. new = [order EXCEPT !.status = s, !.reservedQuantity = q, !.late = late]
  BY DEF Served
<1>2. s \in OrderStatuses /\ q \in Lines
  BY DEF Order, OrderStatuses
<1> HIDE DEF new, s, q
<1>3. new \in Order
  BY <1>1, <1>2 DEF Order
<1>4. new.status = s
  BY <1>1 DEF Order
<1>5. new.createdAt = order.createdAt
  BY <1>1 DEF Order
<1> QED BY <1>3, <1>4, <1>5 DEF new, s

LEMMA NewOrderFields ==
  ASSUME ConstantsAssumption, deals \in [Deals -> Deal], NEW d \in Deals, NEW taken
  PROVE  /\ NewOrder(d, taken) \in Order
         /\ NewOrder(d, taken).status # "NONE"
         /\ NewOrder(d, taken).createdAt = 1 + Cardinality(Created)
<1> DEFINE s == IF taken = Wanted(d) THEN "WAITING_PAYMENT" ELSE "WAITING_STOCK"
           c == 1 + Cardinality(Created)
           q == IF taken = Wanted(d) THEN deals[d].items ELSE NoLines
           total == deals[d].totalAmount
           new == [NoOrder EXCEPT !.status = s, !.createdAt = c,
                                  !.reservedQuantity = q, !.remainingAmount = total]
<1>1. NewOrder(d, taken) = new
  BY DEF NewOrder, Created
<1>2. s \in OrderStatuses /\ s # "NONE" /\ "UNPAID" \in PaymentStatuses
  BY DEF OrderStatuses, PaymentStatuses
<1>3. c \in Nat
  BY CreatedFinite
<1>4. deals[d].items \in Lines /\ total \in Nat /\ NoLines \in Lines
  <2>1. deals[d].items \in Baskets /\ deals[d].totalAmount \in Totals
    BY DEF Deal
  <2> QED BY <2>1 DEF ConstantsAssumption, NoLines, Lines
<1>5. q \in Lines
  BY <1>4
<1>6. 0 \in 0..ReservationTtl
  BY DEF ConstantsAssumption
<1> HIDE DEF s, c, q, total
<1>7. NoOrder \in Order
  BY <1>2, <1>4, <1>6 DEF NoOrder, Order, OrderStatuses
<1>8. new \in Order
  BY <1>2, <1>3, <1>4, <1>5, <1>7 DEF Order
<1>9. new.status = s
  BY <1>7 DEF Order
<1>10. new.createdAt = c
  BY <1>7 DEF Order
<1> HIDE DEF new
<1> QED BY <1>1, <1>2, <1>8, <1>9, <1>10 DEF c

\* Finalizing a deal leaves the rows in their domains.
LEMMA FinalizedFields ==
  ASSUME NEW deal \in Deal, NEW order \in Order
  PROVE  /\ FinalizedDeal(deal, order) \in Deal
         /\ FinalizedOrder(deal, order) \in Order
         /\ FinalizedOrder(deal, order).createdAt = order.createdAt
         /\ FinalizedOrder(deal, order).status = "NONE" <=> order.status = "NONE"
<1> DEFINE snap == Snapshot(deal, order)
<1>1. FinalizedDeal(deal, order) \in Deal
  <2> DEFINE i == deal.installationCompleted \/ canCompleteInstallation(snap)
             c == deal.completed \/ canCompleteDeal(snap)
  <2>1. i \in BOOLEAN /\ c \in BOOLEAN
    OBVIOUS
  <2>2. FinalizedDeal(deal, order)
          = [deal EXCEPT !.installationCompleted = i, !.completed = c]
    BY DEF FinalizedDeal
  <2> HIDE DEF i, c
  <2>3. [deal EXCEPT !.installationCompleted = i, !.completed = c] \in Deal
    BY <2>1 DEF Deal
  <2> QED BY <2>2, <2>3
<1>2. CASE canCompleteDeal(snap) /\ order.status \notin {"CANCELLED", "COMPLETED"}
  <2>1. FinalizedOrder(deal, order) = WithStatus(order, "COMPLETED")
    BY <1>2 DEF FinalizedOrder, WithStatus
  <2>2. snap.orderStatus \in {"SHIPPED", "COMPLETED"}
    BY <1>2 DEF canCompleteDeal, areMaterialsDelivered, Snapshot
  <2>3. order.status # "NONE"
    BY <2>2 DEF Snapshot
  <2>4. "COMPLETED" \in OrderStatuses
    BY DEF OrderStatuses
  <2> QED BY <1>1, <2>1, <2>3, <2>4, WithStatusFields
<1>3. CASE ~ (canCompleteDeal(snap) /\ order.status \notin {"CANCELLED", "COMPLETED"})
  <2>1. FinalizedOrder(deal, order) = order
    BY <1>3 DEF FinalizedOrder
  <2> QED BY <1>1, <2>1
<1> QED BY <1>2, <1>3

LEMMA ConfirmedTotalType ==
  ASSUME ConstantsAssumption, NEW rows \in Seq(Payment)
  PROVE  ConfirmedTotal(rows) \in Nat
<1> DEFINE amounts == [k \in DOMAIN rows |->
                         IF rows[k].status = "CONFIRMED" THEN rows[k].amount ELSE 0]
           n == Len(rows)
<1>1. n \in Nat /\ DOMAIN rows = 1..n /\ \A k \in 1..n : rows[k] \in Payment
  BY LenProperties, ElementOfSeq
<1>2. \A k \in 1..n : amounts[k] \in Nat
  <2>1. \A k \in 1..n : rows[k].amount \in Nat
    BY <1>1 DEF Payment, ConstantsAssumption
  <2> QED BY <1>1, <2>1
<1>3. amounts \in [1..n -> Nat]
  BY <1>1, <1>2
<1>4. Len(amounts) = n
  BY <1>1, <1>3, TableIsSeq
<1>5. ConfirmedTotal(rows) = SumUpTo(amounts, n)
  BY <1>4 DEF ConfirmedTotal, SumSeq
<1> HIDE DEF amounts, n
<1>6. n \in 0..n
  BY <1>1
<1> QED BY <1>1, <1>2, <1>5, <1>6, SumNat

-----------------------------------------------------------------------------
\* Only orders have reservations.
NoRows ==
  \A d \in Deals : orders[d].status = "NONE" => \A p \in Products : reservations[d][p] = <<>>

\* The lists handlers still work off: of rows that are still old and no larger,
\* and of orders that were created.
ListsTrue ==
  /\ expired \in [Deals -> [Products -> SUBSET (Nat \X Nat)]]
  /\ ListedTrue(reservations, expired)
  /\ passes \in [Receipts -> Pass]
  /\ \A r \in Receipts : passes[r].batch \subseteq Created

\* The inductive invariant.  The ledger alone is not inductive: the pass over
\* the waiting orders takes stock for several of them in one step, and that
\* what they take together is there follows from the order they are served
\* in, which is that of their creation; and that the release job gives back no
\* less than it takes out of the rows follows from what it has listed.
RestOK ==
  /\ orders \in [Deals -> Order]
  /\ payments \in [Deals -> Seq(Payment)]
  /\ receipts \in [Receipts -> Receipt]
  /\ deals \in [Deals -> Deal]
  /\ CreationOrder
  /\ NoRows
  /\ ListsTrue

IInv == StockOK(balance, reservations) /\ RestOK

LEMMA IInvImplies == IInv => TypeOK /\ LedgerBalanced
<1> SUFFICES ASSUME IInv PROVE TypeOK /\ LedgerBalanced
  OBVIOUS
<1>1. TypeOK
  BY DEF IInv, StockOK, RestOK, ListsTrue, TypeOK, Reservations
<1>2. \A p \in Products : TotalHeld(p) = TotalOf(reservations, p)
  BY DEF TotalHeld, TotalOf, HeldTable, Held
<1>3. \A p \in Products : Late(reservations, p) => Overdue(p)
  BY DEF Late, Overdue
<1>4. LedgerBalanced
  BY <1>2, <1>3 DEF IInv, StockOK, InLedger, LedgerBalanced
<1> QED BY <1>1, <1>4

LEMMA InitIInv ==
  ASSUME ConstantsAssumption, Init
  PROVE  IInv
<1> DEFINE none == [d \in Deals |-> [p \in Products |-> <<>>]]
           first == [p \in Products |-> [onHand    |-> InitialStock[p],
                                         reserved  |-> 0,
                                         available |-> InitialStock[p]]]
<1>1. none \in Reservations
  <2>1. <<>> \in Seq(Reservation)
    BY EmptySeq
  <2> QED BY <2>1 DEF Reservations
<1>2. ASSUME NEW p \in Products PROVE TotalOf(none, p) = 0
  <2> DEFINE t == HeldTable(none, p)
  <2>1. \A d \in Deals : t[d] = 0
    BY HeldOfEmpty DEF HeldTable
  <2>2. NumDeals \in Nat /\ \A d \in 1..NumDeals : t[d] = 0
    BY <2>1 DEF ConstantsAssumption, Deals
  <2> HIDE DEF t
  <2>3. SumUpTo(t, NumDeals) = 0
    BY <2>2, SumZeros
  <2> QED BY <2>3 DEF TotalOf, t
<1>3. ASSUME NEW p \in Products
      PROVE  /\ first[p] \in Balance /\ first[p].reserved = 0
             /\ first[p].available = first[p].onHand - first[p].reserved
  <2>1. InitialStock[p] \in Nat
    BY DEF ConstantsAssumption, Lines
  <2> QED BY <2>1 DEF Balance
<1>4. first \in [Products -> Balance]
  <2>1. first = [p \in Products |-> first[p]]
    OBVIOUS
  <2> HIDE DEF first
  <2> QED BY <1>3, <2>1
<1>5. balance = first /\ reservations = none
  BY DEF Init
<1> HIDE DEF first, none
<1>6. StockOK(balance, reservations)
  BY <1>1, <1>2, <1>3, <1>4, <1>5 DEF StockOK, InLedger
<1>7. orders \in [Deals -> Order]
  <2>1. NoLines \in Lines /\ 0 \in 0..ReservationTtl
    BY DEF NoLines, Lines, ConstantsAssumption
  <2>2. NoOrder \in Order
    BY <2>1 DEF NoOrder, Order, OrderStatuses, PaymentStatuses
  <2> HIDE DEF NoOrder
  <2> QED BY <2>2 DEF Init
<1>8. payments \in [Deals -> Seq(Payment)]
  <2>1. <<>> \in Seq(Payment)
    BY EmptySeq
  <2> QED BY <2>1 DEF Init
<1>9. receipts \in [Receipts -> Receipt]
  <2>1. NoLines \in Lines
    BY DEF NoLines, Lines
  <2>2. <<>> \in Seq([key : ReceiptKeys \cup {NoKey}, accepted : Lines])
    BY EmptySeq
  <2>3. NoReceipt \in Receipt
    BY <2>1, <2>2 DEF NoReceipt, Receipt, ReceiptStatuses
  <2> HIDE DEF NoReceipt
  <2> QED BY <2>3 DEF Init
<1>10. deals \in [Deals -> Deal]
  BY DEF Init, Deal, ConstantsAssumption
<1>11. CreationOrder
  <2>1. \A d \in Deals : orders[d].status = "NONE"
    BY DEF Init, NoOrder
  <2>2. Created = {}
    BY <2>1 DEF Created
  <2> QED BY <2>2 DEF CreationOrder
<1>12. NoRows
  BY <1>5 DEF NoRows, none
<1>13. ListsTrue
  BY DEF Init, ListsTrue, ListedTrue, NoPass, Pass
<1> QED BY <1>6, <1>7, <1>8, <1>9, <1>10, <1>11, <1>12, <1>13 DEF IInv, RestOK

\* One order is replaced by a row of the same creation.
LEMMA OrderReplaced ==
  ASSUME orders \in [Deals -> Order], CreationOrder, NEW d \in Deals, NEW new \in Order,
         new.createdAt = orders[d].createdAt,
         (new.status = "NONE") <=> (orders[d].status = "NONE"),
         orders' = [orders EXCEPT ![d] = new]
  PROVE  /\ orders' \in [Deals -> Order] /\ CreationOrder'
         /\ \A e \in Deals : orders'[e].status = "NONE" => orders[e].status = "NONE"
<1>1. orders' \in [Deals -> Order]
  OBVIOUS
<1>2. \A e \in Deals : /\ orders'[e].createdAt = orders[e].createdAt
                       /\ (orders'[e].status = "NONE") <=> (orders[e].status = "NONE")
  OBVIOUS
<1>3. CreationOrder'
  BY <1>2, CreationKept
<1> QED BY <1>1, <1>2, <1>3

LEMMA NoRowsKept ==
  ASSUME NoRows,
         \A d \in Deals : orders'[d].status = "NONE" =>
           /\ orders[d].status = "NONE"
           /\ \A p \in Products : reservations'[d][p] = reservations[d][p]
  PROVE  NoRows'
BY DEF NoRows

LEMMA CreationUnchanged ==
  ASSUME CreationOrder, orders' = orders
  PROVE  CreationOrder'
BY DEF CreationOrder, Created

LEMMA GoOnSame ==
  ASSUME NEW res \in Reservations
  PROVE  GoOn(res, res)
BY GrownSame DEF GoOn, Reservations

\* Whatever happens to orders and rows, what is on the lists stays true.
LEMMA ListsKept ==
  ASSUME ListsTrue, reservations \in Reservations, reservations' \in Reservations,
         GoOn(reservations, reservations'), expired' = expired, passes' = passes,
         \A d \in Deals : orders'[d].status = "NONE" => orders[d].status = "NONE"
  PROVE  ListsTrue'
<1>1. ListedTrue(reservations', expired)
  BY ListedStays DEF ListsTrue
<1>2. Created \subseteq Created'
  BY DEF Created
<1> QED BY <1>1, <1>2 DEF ListsTrue

LEMMA ListsUnchanged ==
  ASSUME ListsTrue, reservations' = reservations, expired' = expired, passes' = passes,
         \A d \in Deals : orders'[d].status = "NONE" => orders[d].status = "NONE"
  PROVE  ListsTrue'
<1>1. Created \subseteq Created'
  BY DEF Created
<1> QED BY <1>1 DEF ListsTrue

LEMMA TryFinalizeKeeps ==
  ASSUME orders \in [Deals -> Order], deals \in [Deals -> Deal], CreationOrder,
         NEW d \in Deals, NEW deal \in Deal, NEW order \in Order,
         order.createdAt = orders[d].createdAt,
         (order.status = "NONE") <=> (orders[d].status = "NONE"),
         TryFinalize(d, deal, order)
  PROVE  /\ orders' \in [Deals -> Order] /\ CreationOrder'
         /\ \A e \in Deals : orders'[e].status = "NONE" => orders[e].status = "NONE"
         /\ deals' \in [Deals -> Deal]
<1> DEFINE new == FinalizedOrder(deal, order)
<1>1. /\ FinalizedDeal(deal, order) \in Deal
      /\ new \in Order
      /\ new.createdAt = order.createdAt
      /\ new.status = "NONE" <=> order.status = "NONE"
  BY FinalizedFields
<1>2. deals' \in [Deals -> Deal]
  BY <1>1 DEF TryFinalize
<1>3. orders' = [orders EXCEPT ![d] = new]
  BY DEF TryFinalize
<1> HIDE DEF new
<1>4. /\ new.createdAt = orders[d].createdAt
      /\ (new.status = "NONE") <=> (orders[d].status = "NONE")
  BY <1>1
<1> QED BY <1>1, <1>2, <1>3, <1>4, OrderReplaced

-----------------------------------------------------------------------------
\* One lemma per operation that touches the stock.

LEMMA CreateOrderIInv ==
  ASSUME ConstantsAssumption, IInv, NEW d \in Deals, NEW taken \in SUBSET Products,
         orders[d].status = "NONE", CreateOrder(d, taken),
         \A p \in taken : deals[d].items[p] <= balance[p].available
  PROVE  IInv'
<1>1. StockOK(balance, reservations) /\ balance \in [Products -> Balance] /\ RestOK
  BY DEF IInv, StockOK
<1>2. deals \in [Deals -> Deal] /\ orders \in [Deals -> Order] /\ CreationOrder
  BY <1>1 DEF RestOK
<1>3. \A p \in Products : TakenOf(OnlyFor(d, taken), p) <= balance[p].available
  <2> SUFFICES ASSUME NEW p \in Products
               PROVE  TakenOf(OnlyFor(d, taken), p) <= balance[p].available
    OBVIOUS
  <2>1. TakenOf(OnlyFor(d, taken), p) = IF p \in taken THEN deals[d].items[p] ELSE 0
    BY <1>2, TakenOfOne
  <2>2. balance[p].available \in Nat
    BY <1>1 DEF Balance
  <2> QED BY <2>1, <2>2
<1>4. StockOK(ReserveBalance(balance, OnlyFor(d, taken)), ReserveRows(OnlyFor(d, taken)))
  BY <1>1, <1>2, <1>3, ReserveKeepsStock
<1>5. StockOK(balance', reservations')
  BY <1>4 DEF CreateOrder
<1>6. /\ NewOrder(d, taken) \in Order /\ NewOrder(d, taken).status # "NONE"
      /\ NewOrder(d, taken).createdAt = 1 + Cardinality(Created)
  BY <1>2, NewOrderFields
<1>7. orders' = [orders EXCEPT ![d] = NewOrder(d, taken)]
  BY DEF CreateOrder
<1>8. orders' \in [Deals -> Order]
  BY <1>2, <1>6, <1>7
<1>9. CreationOrder'
  <2>1. orders'[d] = NewOrder(d, taken) /\ \A e \in Deals : e # d => orders'[e] = orders[e]
    BY <1>2, <1>7
  <2> QED BY <1>2, <1>6, <2>1, CreationExtended
<1>10. NoRows'
  <2>1. \A e \in Deals : orders'[e].status = "NONE" => e # d /\ orders[e].status = "NONE"
    BY <1>2, <1>6, <1>7
  <2>2. \A e \in Deals : e # d =>
          \A p \in Products : reservations'[e][p] = reservations[e][p]
    BY DEF CreateOrder, ReserveRows, OnlyFor
  <2> QED BY <1>1, <2>1, <2>2, NoRowsKept DEF RestOK
<1>11. ListsTrue'
  <2>1. GoOn(reservations, reservations')
    BY <1>1, <1>2, ReserveGoOn DEF StockOK, CreateOrder
  <2>2. \A e \in Deals : orders'[e].status = "NONE" => orders[e].status = "NONE"
    BY <1>2, <1>6, <1>7
  <2> QED BY <1>1, <1>5, <2>1, <2>2, ListsKept DEF RestOK, StockOK, CreateOrder
<1>12. RestOK'
  BY <1>1, <1>8, <1>9, <1>10, <1>11 DEF RestOK, CreateOrder
<1> QED BY <1>5, <1>12 DEF IInv

LEMMA ReleaseIInv ==
  ASSUME ConstantsAssumption, IInv, NEW d \in Deals, NEW by \in {"user", "ttl"},
         orders[d].status # "NONE", ReleaseReservation(d),
         orders' = [orders EXCEPT ![d].status = "CANCELLED", ![d].closedBy = by],
         UNCHANGED <<payments, receipts, deals, expired, passes>>
  PROVE  IInv'
<1>1. StockOK(balance, reservations) /\ RestOK
  BY DEF IInv
<1>2. orders \in [Deals -> Order] /\ CreationOrder
  BY <1>1 DEF RestOK
<1>3. StockOK(balance', reservations')
  <2>1. StockOK(ReleaseBalance(d),
                [reservations EXCEPT ![d] =
                   [p \in Products |-> ReleaseRows(reservations[d][p])]])
    BY <1>1, ReleaseKeepsStock
  <2> QED BY <2>1 DEF ReleaseReservation
<1>4. orders' = [orders EXCEPT ![d] = Closed(orders[d], by)]
  BY DEF Closed
<1>5. /\ Closed(orders[d], by) \in Order
      /\ Closed(orders[d], by).status = "CANCELLED"
      /\ Closed(orders[d], by).createdAt = orders[d].createdAt
  <2> DEFINE old == orders[d]
  <2>1. old \in Order /\ by \in {"nobody", "user", "ttl"}
    BY <1>2
  <2> HIDE DEF old
  <2>2. /\ Closed(old, by) \in Order
        /\ Closed(old, by).status = "CANCELLED"
        /\ Closed(old, by).createdAt = old.createdAt
    BY <2>1, ClosedFields
  <2> QED BY <2>2 DEF old
<1>6. /\ orders' \in [Deals -> Order] /\ CreationOrder'
      /\ \A e \in Deals : orders'[e].status = "NONE" => orders[e].status = "NONE"
  <2> DEFINE new == Closed(orders[d], by)
  <2>1. /\ new \in Order /\ new.createdAt = orders[d].createdAt
        /\ (new.status = "NONE") <=> (orders[d].status = "NONE")
        /\ orders' = [orders EXCEPT ![d] = new]
    BY <1>4, <1>5
  <2> HIDE DEF new
  <2> QED BY <1>2, <2>1, OrderReplaced
<1>7. NoRows'
  <2>1. \A e \in Deals : orders'[e].status = "NONE" => e # d
    BY <1>6
  <2>2. \A e \in Deals : e # d =>
          \A p \in Products : reservations'[e][p] = reservations[e][p]
    BY <1>1 DEF ReleaseReservation, StockOK, Reservations
  <2> QED BY <1>1, <1>6, <2>1, <2>2, NoRowsKept DEF RestOK
<1>8. ListsTrue'
  <2>1. GoOn(reservations, reservations')
    BY <1>1, ReleaseGoOn DEF StockOK, ReleaseReservation
  <2> QED BY <1>1, <1>3, <1>6, <2>1, ListsKept DEF RestOK, StockOK
<1>9. RestOK'
  BY <1>1, <1>6, <1>7, <1>8 DEF RestOK
<1> QED BY <1>3, <1>9 DEF IInv

\* An entry is taken off the list.
LEMMA EntryHandled ==
  ASSUME ListsTrue, NEW d \in Deals, NEW p \in Products, NEW entry,
         expired' = [expired EXCEPT ![d][p] = @ \ {entry}]
  PROVE  /\ expired' \in [Deals -> [Products -> SUBSET (Nat \X Nat)]]
         /\ ListedTrue(reservations, expired')
<1>1. expired \in [Deals -> [Products -> SUBSET (Nat \X Nat)]]
  BY DEF ListsTrue
<1>2. /\ expired' \in [Deals -> [Products -> SUBSET (Nat \X Nat)]]
      /\ \A e \in Deals, q \in Products : expired'[e][q] \subseteq expired[e][q]
  BY <1>1
<1> QED BY <1>2 DEF ListsTrue, ListedTrue

LEMMA ReleaseExpiredIInv ==
  ASSUME ConstantsAssumption, IInv, NEW d \in Deals, NEW p \in Products,
         NEW entry \in expired[d][p],
         expired' = [expired EXCEPT ![d][p] = @ \ {entry}],
         ReleaseExpired(d, p, entry[1], entry[2]),
         UNCHANGED <<payments, receipts, deals, passes>>
  PROVE  IInv'
<1> DEFINE k == entry[1]
           listed == entry[2]
<1>2. StockOK(balance, reservations) /\ RestOK
  BY DEF IInv
<1>1. /\ k \in DOMAIN reservations[d][p] /\ ReleaseExpired(d, p, k, listed)
      /\ listed \in Nat /\ reservations[d][p][k].quantity <= listed
      /\ reservations[d][p][k].age = ReservationTtl
  BY <1>2 DEF RestOK, ListsTrue, ListedTrue
<1> HIDE DEF k, listed
<1>3. orders \in [Deals -> Order] /\ CreationOrder
  BY <1>2 DEF RestOK
<1>4. StockOK(balance', reservations')
  <2>1. IsActive(reservations[d][p][k])
    BY <1>1 DEF ReleaseExpired, IsActive
  <2>2. StockOK([balance EXCEPT ![p].reserved  = @ - listed,
                                ![p].available = @ + listed],
                [reservations EXCEPT ![d][p][k].status = "RELEASED"])
    BY <1>1, <1>2, <2>1, ExpireKeepsStock
  <2> QED BY <1>1, <2>2 DEF ReleaseExpired
<1>5. orders[d].status # "NONE"
  <2>1. reservations[d][p] # <<>>
    BY <1>1
  <2> QED BY <1>2, <2>1 DEF RestOK, NoRows
<1>6. /\ orders' \in [Deals -> Order] /\ CreationOrder'
      /\ \A e \in Deals : orders'[e].status = "NONE" => orders[e].status = "NONE"
  <2>1. CASE orders' = orders
    BY <1>3, <2>1, CreationUnchanged
  <2>2. CASE orders' = [orders EXCEPT ![d] = ExpiredOrder(orders[d])]
    <3> DEFINE old == orders[d]
               new == ExpiredOrder(old)
    <3>1. old \in Order /\ old.status # "NONE"
      BY <1>3, <1>5
    <3>2. orders' = [orders EXCEPT ![d] = new]
      BY <2>2
    <3> HIDE DEF old
    <3>3. new \in Order /\ new.createdAt = old.createdAt /\ new.status # "NONE"
      <4>1. new = old \/ new = WithStatus(old, "WAITING_STOCK")
        BY DEF ExpiredOrder, WithStatus
      <4>2. "WAITING_STOCK" \in OrderStatuses
        BY DEF OrderStatuses
      <4> QED BY <3>1, <4>1, <4>2, WithStatusFields
    <3> HIDE DEF new
    <3>4. /\ new.createdAt = orders[d].createdAt
          /\ (new.status = "NONE") <=> (orders[d].status = "NONE")
      BY <1>5, <3>3 DEF old
    <3> QED BY <1>3, <3>2, <3>3, <3>4, OrderReplaced
  <2> QED BY <1>1, <2>1, <2>2 DEF ReleaseExpired
<1>7. NoRows'
  <2>1. \A e \in Deals : orders'[e].status = "NONE" => e # d
    BY <1>5, <1>6
  <2>2. \A e \in Deals : e # d =>
          \A q \in Products : reservations'[e][q] = reservations[e][q]
    BY <1>1, <1>2 DEF ReleaseExpired, StockOK, Reservations
  <2> QED BY <1>2, <1>6, <2>1, <2>2, NoRowsKept DEF RestOK
<1>8. ListsTrue'
  <2>1. /\ expired' \in [Deals -> [Products -> SUBSET (Nat \X Nat)]]
        /\ ListedTrue(reservations, expired')
    BY <1>2, EntryHandled DEF RestOK
  <2>2. GoOn(reservations, reservations')
    <3>1. reservations \in Reservations /\ k \in DOMAIN reservations[d][p]
      BY <1>1, <1>2 DEF StockOK
    <3>2. reservations' = [reservations EXCEPT ![d][p][k].status = "RELEASED"]
      BY <1>1 DEF ReleaseExpired
    <3> QED BY <3>1, <3>2, ExpireGoOn
  <2>3. ListedTrue(reservations', expired')
    BY <1>2, <1>4, <2>1, <2>2, ListedStays DEF StockOK
  <2>4. Created \subseteq Created'
    BY <1>6 DEF Created
  <2> QED BY <1>2, <2>1, <2>3, <2>4 DEF RestOK, ListsTrue
<1>9. RestOK'
  BY <1>2, <1>6, <1>7, <1>8 DEF RestOK
<1> QED BY <1>4, <1>9 DEF IInv

LEMMA HandleExpiredIInv ==
  ASSUME ConstantsAssumption, IInv, NEW d \in Deals, NEW p \in Products,
         HandleExpired(d, p)
  PROVE  IInv'
<1>1. PICK entry \in expired[d][p] :
        /\ expired' = [expired EXCEPT ![d][p] = @ \ {entry}]
        /\ \/ ReleaseExpired(d, p, entry[1], entry[2])
           \/ UNCHANGED <<balance, reservations, orders>>
        /\ UNCHANGED <<payments, receipts, deals, passes>>
  BY DEF HandleExpired
<1>2. CASE ReleaseExpired(d, p, entry[1], entry[2])
  BY <1>1, <1>2, ReleaseExpiredIInv
<1>3. CASE UNCHANGED <<balance, reservations, orders>>
  <2>1. StockOK(balance', reservations') /\ CreationOrder' /\ NoRows' /\ Created' = Created
    BY <1>3, CreationUnchanged DEF IInv, RestOK, NoRows, Created
  <2>2. ListsTrue'
    <3>1. /\ expired' \in [Deals -> [Products -> SUBSET (Nat \X Nat)]]
          /\ ListedTrue(reservations, expired')
      BY <1>1, EntryHandled DEF IInv, RestOK
    <3> QED BY <1>1, <1>3, <2>1, <3>1 DEF IInv, RestOK, ListsTrue
  <2> QED BY <1>1, <1>3, <2>1, <2>2 DEF IInv, RestOK
<1> QED BY <1>1, <1>2, <1>3

LEMMA ListExpiredIInv ==
  ASSUME ConstantsAssumption, IInv, ListExpired
  PROVE  IInv'
<1>1. StockOK(balance, reservations) /\ RestOK
  BY DEF IInv
<1>2. StockOK(balance', reservations') /\ CreationOrder' /\ NoRows' /\ Created' = Created
  BY <1>1, CreationUnchanged DEF ListExpired, RestOK, NoRows, Created
<1> DEFINE New(d, p) == {<<k, reservations[d][p][k].quantity>> : k \in Due(d, p)}
<1>3. ASSUME NEW d \in Deals, NEW p \in Products, NEW entry \in New(d, p)
      PROVE  /\ entry \in Nat \X Nat
             /\ entry[1] \in DOMAIN reservations[d][p]
             /\ reservations[d][p][entry[1]].quantity <= entry[2]
             /\ reservations[d][p][entry[1]].age = ReservationTtl
  <2>1. PICK k \in Due(d, p) : entry = <<k, reservations[d][p][k].quantity>>
    OBVIOUS
  <2>2. /\ k \in DOMAIN reservations[d][p]
        /\ reservations[d][p][k].age = ReservationTtl
    BY DEF Due
  <2>3. reservations[d][p] \in Seq(Reservation)
    BY <1>1 DEF StockOK, Reservations
  <2>4. k \in 1..Len(reservations[d][p]) /\ Len(reservations[d][p]) \in Nat
    BY <2>2, <2>3, LenProperties
  <2>5. reservations[d][p][k] \in Reservation
    BY <2>3, <2>4, ElementOfSeq
  <2>6. k \in Nat /\ reservations[d][p][k].quantity \in Nat
    BY <2>4, <2>5 DEF Reservation
  <2> QED BY <2>1, <2>2, <2>6
<1>4. \A d \in Deals, p \in Products : expired'[d][p] = expired[d][p] \cup New(d, p)
  BY DEF ListExpired
<1>5. expired' = [d \in Deals |-> [p \in Products |-> expired[d][p] \cup New(d, p)]]
  BY DEF ListExpired
<1> HIDE DEF New
<1>6. expired \in [Deals -> [Products -> SUBSET (Nat \X Nat)]] /\ ListedTrue(reservations, expired)
  BY <1>1 DEF RestOK, ListsTrue
<1>7. \A d \in Deals, p \in Products : New(d, p) \subseteq Nat \X Nat
  BY <1>3
<1>8. expired' \in [Deals -> [Products -> SUBSET (Nat \X Nat)]]
  BY <1>5, <1>6, <1>7
<1>9. ListedTrue(reservations, expired')
  BY <1>3, <1>4, <1>6 DEF ListedTrue
<1>10. ListsTrue'
  BY <1>1, <1>2, <1>8, <1>9 DEF RestOK, ListsTrue, ListExpired
<1> QED BY <1>1, <1>2, <1>10 DEF IInv, RestOK, ListExpired


LEMMA PartsType ==
  ASSUME NEW basket \in Lines, NEW q \in Parts(basket)
  PROVE  q \in [Products -> Nat] /\ \A p \in Products : q[p] <= basket[p]
<1>1. q \in [Products -> UNION {0..basket[p] : p \in Products}]
  BY DEF Parts
<1>2. \A p \in Products : basket[p] \in Nat
  BY DEF Lines
<1>3. UNION {0..basket[p] : p \in Products} \subseteq Nat
  BY <1>2
<1>4. q \in [Products -> Nat]
  BY <1>1, <1>3
<1> QED BY <1>4 DEF Parts

LEMMA DeliveryIInv ==
  ASSUME ConstantsAssumption, IInv, NEW d \in Deals,
         NEW quantity \in Parts(deals[d].items), CreateDelivery(d, quantity)
  PROVE  IInv'
<1>1. StockOK(balance, reservations) /\ RestOK
  BY DEF IInv
<1>2. /\ orders \in [Deals -> Order] /\ CreationOrder /\ deals \in [Deals -> Deal]
  BY <1>1 DEF RestOK
<1>3. deals[d].items \in Lines /\ deals[d] \in Deal
  <2>1. deals[d].items \in Baskets /\ deals[d] \in Deal
    BY <1>2 DEF Deal
  <2> QED BY <2>1 DEF ConstantsAssumption
<1>4. quantity \in [Products -> Nat]
  BY <1>3, PartsType
<1>5. StockOK(balance', reservations')
  <2>1. \A p \in Products :
          quantity[p] > 0 => /\ Held(d, p) >= quantity[p]
                             /\ balance[p].onHand >= quantity[p]
                             /\ balance[p].reserved >= quantity[p]
    BY DEF CreateDelivery, CommitReservation
  <2>2. StockOK([p \in Products |->
                   [balance[p] EXCEPT !.onHand   = @ - quantity[p],
                                      !.reserved = @ - quantity[p]]],
                [reservations EXCEPT ![d] =
                   [p \in Products |-> ConsumeRows(reservations[d][p], quantity[p])]])
    BY <1>1, <1>4, <2>1, CommitKeepsStock
  <2> QED BY <2>2 DEF CreateDelivery, CommitReservation
<1> DEFINE delivered == [p \in Products |-> orders[d].delivered[p] + quantity[p]]
           moved == Moved(orders[d], delivered)
           shipped == WithStatus(moved, ShipmentStatus(moved, deals[d].items))
<1>6. TryFinalize(d, deals[d], shipped) /\ orders[d].status # "NONE"
  BY DEF CreateDelivery, Moved, WithStatus
<1>7. orders[d] \in Order
  BY <1>2
<1>8. delivered \in Lines
  <2>1. orders[d].delivered \in [Products -> Nat]
    BY <1>7 DEF Order, Lines
  <2> QED BY <1>4, <2>1 DEF Lines
<1> HIDE DEF delivered
<1>9. /\ moved \in Order /\ moved.status = orders[d].status
      /\ moved.createdAt = orders[d].createdAt
  <2> DEFINE old == orders[d]
  <2>1. old \in Order
    BY <1>7
  <2> HIDE DEF old
  <2>2. /\ Moved(old, delivered) \in Order
        /\ Moved(old, delivered).status = old.status
        /\ Moved(old, delivered).createdAt = old.createdAt
    BY <1>8, <2>1, MovedFields
  <2> QED BY <2>2 DEF old
<1>10. /\ ShipmentStatus(moved, deals[d].items) \in OrderStatuses
       /\ ShipmentStatus(moved, deals[d].items) # "NONE"
  <2>1. moved.status \in OrderStatuses /\ moved.status # "NONE"
    BY <1>6, <1>7, <1>9 DEF Order
  <2> HIDE DEF moved
  <2> QED BY <2>1 DEF ShipmentStatus, OrderStatuses
<1>11. /\ shipped \in Order /\ shipped.status # "NONE"
       /\ shipped.createdAt = orders[d].createdAt
  <2> DEFINE s == ShipmentStatus(moved, deals[d].items)
  <2>1. s \in OrderStatuses /\ s # "NONE" /\ moved \in Order
    BY <1>9, <1>10
  <2> HIDE DEF s, moved
  <2>2. /\ WithStatus(moved, s) \in Order
        /\ WithStatus(moved, s).status = s
        /\ WithStatus(moved, s).createdAt = moved.createdAt
    BY <2>1, WithStatusFields
  <2> QED BY <1>9, <2>1, <2>2 DEF s
<1> HIDE DEF shipped
<1>12. /\ orders' \in [Deals -> Order] /\ CreationOrder'
       /\ \A e \in Deals : orders'[e].status = "NONE" => orders[e].status = "NONE"
       /\ deals' \in [Deals -> Deal]
  <2>1. (shipped.status = "NONE") <=> (orders[d].status = "NONE")
    BY <1>6, <1>11
  <2> QED BY <1>2, <1>3, <1>6, <1>11, <2>1, TryFinalizeKeeps
<1>13. NoRows'
  <2>1. \A e \in Deals : orders'[e].status = "NONE" => e # d
    BY <1>6, <1>12
  <2>2. \A e \in Deals : e # d =>
          \A p \in Products : reservations'[e][p] = reservations[e][p]
    BY <1>1 DEF CreateDelivery, CommitReservation, StockOK, Reservations
  <2> QED BY <1>1, <1>12, <2>1, <2>2, NoRowsKept DEF RestOK
<1>14. ListsTrue'
  <2>1. GoOn(reservations, reservations')
    BY <1>1, <1>4, CommitGoOn DEF StockOK, CreateDelivery, CommitReservation
  <2> QED BY <1>1, <1>5, <1>12, <2>1, ListsKept DEF RestOK, StockOK, CreateDelivery
<1>15. RestOK'
  BY <1>1, <1>12, <1>13, <1>14 DEF RestOK, CreateDelivery
<1> QED BY <1>5, <1>15 DEF IInv

LEMMA CalculatedReceiptStatus ==
  ASSUME NEW ordered, NEW received
  PROVE  calculateReceiptStatus(ordered, received) \in ReceiptStatuses
BY DEF calculateReceiptStatus, ReceiptStatuses

LEMMA ReceiptIInv ==
  ASSUME ConstantsAssumption, IInv, NEW r \in Receipts,
         NEW key \in ReceiptKeys \cup {NoKey},
         NEW accepted \in Parts(receipts[r].ordered), ProcessReceipt(r, key, accepted)
  PROVE  IInv'
<1>1. StockOK(balance, reservations) /\ RestOK
  BY DEF IInv
<1>2. /\ orders \in [Deals -> Order] /\ CreationOrder /\ deals \in [Deals -> Deal]
      /\ receipts \in [Receipts -> Receipt]
  BY <1>1 DEF RestOK
<1>3. /\ receipts[r].ordered \in Lines /\ receipts[r].received \in Lines
      /\ receipts[r].events \in Seq([key : ReceiptKeys \cup {NoKey}, accepted : Lines])
  BY <1>2 DEF Receipt
<1>4. accepted \in [Products -> Nat]
  BY <1>3, PartsType
<1> DEFINE bal == ReceiveBalance(accepted)
           batch == passes[r].batch
<1>5. /\ StockOK(bal, reservations)
      /\ \A p \in Products : bal[p].available \in Nat
  BY <1>1, <1>4, ReceiveKeepsStock
<1>6. PICK taken \in [Deals -> SUBSET Products] :
        /\ ProcessWaitingOrders(batch, bal, taken)
        /\ balance' = ReserveBalance(bal, taken)
        /\ reservations' = ReserveRows(taken)
        /\ orders' = [d \in Deals |->
             IF d \in batch THEN ServedOrder(d, taken[d]) ELSE orders[d]]
  BY DEF ProcessReceipt
<1> HIDE DEF bal, batch
<1>0. batch \in SUBSET Created
  BY <1>1 DEF RestOK, ListsTrue, batch
<1>7. StockOK(balance', reservations')
  <2>1. \A p \in Products : TakenOf(taken, p) <= bal[p].available
    BY <1>0, <1>2, <1>5, <1>6, PassWithinStock
  <2>2. StockOK(ReserveBalance(bal, taken), ReserveRows(taken))
    BY <1>2, <1>5, <2>1, ReserveKeepsStock
  <2> QED BY <1>6, <2>2
<1>8. ASSUME NEW d \in Deals
      PROVE  /\ orders'[d] \in Order
             /\ orders'[d].createdAt = orders[d].createdAt
             /\ (orders'[d].status = "NONE") <=> (orders[d].status = "NONE")
  <2>1. orders[d] \in Order
    BY <1>2
  <2>2. CASE d \in batch
    <3> DEFINE old == orders[d]
               items == deals[d].items
               all == taken[d] = Wanted(d)
               late == old.late \/ (taken[d] # {} /\ old.status # "WAITING_STOCK")
    <3>1. orders'[d] = Served(old, items, all, late)
      BY <1>6, <2>2 DEF ServedOrder, Served
    <3>2. old.status # "NONE"
      BY <1>0, <2>2 DEF Created
    <3>3. items \in Lines
      <4>1. items \in Baskets
        BY <1>2 DEF Deal
      <4> QED BY <4>1 DEF ConstantsAssumption
    <3>4. old \in Order
      BY <2>1
    <3>5. all \in BOOLEAN /\ late \in BOOLEAN
      BY <3>4 DEF Order
    <3> HIDE DEF old, items, all, late
    <3>6. /\ Served(old, items, all, late) \in Order
          /\ Served(old, items, all, late).status
               = IF all THEN "WAITING_PAYMENT" ELSE old.status
          /\ Served(old, items, all, late).createdAt = old.createdAt
      BY <3>3, <3>4, <3>5, ServedFields
    <3> QED BY <3>1, <3>2, <3>6 DEF old
  <2>3. CASE d \notin batch
    BY <1>6, <2>1, <2>3
  <2> QED BY <2>2, <2>3
<1>9. orders' \in [Deals -> Order]
  <2>1. orders' = [d \in Deals |-> orders'[d]]
    BY <1>6
  <2> QED BY <1>8, <2>1
<1>10. CreationOrder'
  BY <1>2, <1>8, CreationKept
<1>11. NoRows'
  <2>1. ASSUME NEW d \in Deals, orders[d].status = "NONE", NEW p \in Products
        PROVE  reservations'[d][p] = reservations[d][p]
    <3>1. d \notin batch
      BY <1>0, <2>1 DEF Created
    <3>2. taken[d] = {}
      BY <1>6, <3>1 DEF ProcessWaitingOrders
    <3> QED BY <1>6, <3>2 DEF ReserveRows
  <2> QED BY <1>1, <1>8, <2>1, NoRowsKept DEF RestOK
<1>12. receipts' \in [Receipts -> Receipt]
  <2> DEFINE received == [p \in Products |-> receipts[r].received[p] + accepted[p]]
             status == calculateReceiptStatus(receipts[r].ordered, received)
             old == receipts[r]
             event == [key |-> key, accepted |-> accepted]
             events == Append(old.events, event)
             new == [old EXCEPT !.received = received, !.status = status, !.events = events]
  <2>1. receipts' = [receipts EXCEPT ![r] = new]
    BY DEF ProcessReceipt
  <2>2. received \in Lines
    <3>1. /\ receipts[r].received \in [Products -> Nat]
          /\ accepted \in [Products -> Nat]
      BY <1>3, <1>4 DEF Lines
    <3>2. \A p \in Products : receipts[r].received[p] + accepted[p] \in Nat
      BY ONLY <3>1
    <3> QED BY ONLY <3>2 DEF Lines
  <2>3. status \in ReceiptStatuses
    BY CalculatedReceiptStatus
  <2>4. events \in Seq([key : ReceiptKeys \cup {NoKey}, accepted : Lines])
    <3>1. event \in [key : ReceiptKeys \cup {NoKey}, accepted : Lines]
      BY <1>4 DEF Lines
    <3> HIDE DEF event
    <3> QED BY <1>3, <3>1
  <2>5. old \in Receipt
    BY <1>2
  <2> HIDE DEF received, status, events, old
  <2>6. new \in Receipt
    BY <2>2, <2>3, <2>4, <2>5 DEF Receipt
  <2> HIDE DEF new
  <2> QED BY <1>2, <2>1, <2>6
<1>13. ListsTrue'
  <2>1. GoOn(reservations, reservations')
    BY <1>1, <1>2, <1>6, ReserveGoOn DEF StockOK
  <2>2. ListedTrue(reservations', expired)
    BY <1>1, <1>7, <2>1, ListedStays DEF RestOK, ListsTrue, StockOK
  <2>3. Created \subseteq Created'
    BY <1>8 DEF Created
  <2>4. passes' = [passes EXCEPT ![r] = NoPass] /\ expired' = expired
    BY DEF ProcessReceipt
  <2>5. NoPass \in Pass /\ NoPass.batch = {}
    BY DEF NoPass, Pass
  <2>6. /\ passes \in [Receipts -> Pass]
        /\ \A q \in Receipts : passes[q].batch \subseteq Created
    BY <1>1 DEF RestOK, ListsTrue
  <2>7. /\ passes' \in [Receipts -> Pass]
        /\ \A q \in Receipts : passes'[q].batch \subseteq Created'
    BY <2>3, <2>4, <2>5, <2>6
  <2> QED BY <1>1, <2>2, <2>4, <2>7 DEF RestOK, ListsTrue
<1>14. RestOK'
  BY <1>1, <1>9, <1>10, <1>11, <1>12, <1>13 DEF RestOK, ProcessReceipt
<1> QED BY <1>7, <1>14 DEF IInv

LEMMA ListWaitingIInv ==
  ASSUME ConstantsAssumption, IInv, NEW r \in Receipts, ListWaiting(r)
  PROVE  IInv'
<1>1. StockOK(balance, reservations) /\ RestOK
  BY DEF IInv
<1>2. StockOK(balance', reservations') /\ CreationOrder' /\ NoRows' /\ Created' = Created
  BY <1>1, CreationUnchanged DEF ListWaiting, RestOK, NoRows, Created
<1> DEFINE new == [open |-> TRUE, batch |-> WaitingBatch]
<1>3. WaitingBatch \subseteq Created /\ new \in Pass /\ new.batch = WaitingBatch
  BY DEF WaitingBatch, Waiting, Created, Pass
<1>4. passes' = [passes EXCEPT ![r] = new]
  BY DEF ListWaiting
<1> HIDE DEF new
<1>5. /\ passes \in [Receipts -> Pass]
      /\ \A q \in Receipts : passes[q].batch \subseteq Created
  BY <1>1 DEF RestOK, ListsTrue
<1>6. /\ passes' \in [Receipts -> Pass]
      /\ \A q \in Receipts : passes'[q].batch \subseteq Created
  BY <1>3, <1>4, <1>5
<1>7. ListsTrue'
  BY <1>1, <1>2, <1>6 DEF RestOK, ListsTrue, ListWaiting
<1> QED BY <1>1, <1>2, <1>7 DEF IInv, RestOK, ListWaiting

LEMMA TickIInv ==
  ASSUME ConstantsAssumption, IInv, Tick
  PROVE  IInv'
<1>1. StockOK(balance, reservations) /\ RestOK
  BY DEF IInv
<1>2. orders \in [Deals -> Order] /\ CreationOrder
  BY <1>1 DEF RestOK
<1>3. StockOK(balance', reservations')
  <2>1. StockOK(balance,
                [d \in Deals |-> [p \in Products |-> AgedRows(reservations[d][p])]])
    BY <1>1, AgeKeepsStock
  <2> QED BY <2>1 DEF Tick
<1>4. ASSUME NEW d \in Deals
      PROVE  /\ orders'[d] \in Order
             /\ orders'[d].createdAt = orders[d].createdAt
             /\ (orders'[d].status = "NONE") <=> (orders[d].status = "NONE")
  <2> DEFINE old == orders[d]
  <2>1. old \in Order
    BY <1>2
  <2>2. orders'[d] = old \/ orders'[d] = AgedOrder(old)
    BY DEF Tick, AgedOrder
  <2> HIDE DEF old
  <2>3. /\ AgedOrder(old) \in Order
        /\ AgedOrder(old).status = old.status
        /\ AgedOrder(old).createdAt = old.createdAt
    BY <2>1, AgedOrderFields
  <2>4. /\ orders'[d] \in Order
        /\ orders'[d].status = old.status
        /\ orders'[d].createdAt = old.createdAt
    BY <2>1, <2>2, <2>3
  <2> QED BY <2>4 DEF old
<1>5. orders' \in [Deals -> Order]
  <2>1. orders' = [d \in Deals |-> orders'[d]]
    BY DEF Tick
  <2> QED BY <1>4, <2>1
<1>6. CreationOrder'
  BY <1>2, <1>4, CreationKept
<1>7. NoRows'
  <2>1. ASSUME NEW d \in Deals, orders[d].status = "NONE", NEW p \in Products
        PROVE  reservations'[d][p] = reservations[d][p]
    <3>1. reservations[d][p] = <<>>
      BY <1>1, <2>1 DEF RestOK, NoRows
    <3>2. AgedRows(<<>>) = <<>>
      BY DEF AgedRows
    <3> QED BY <3>1, <3>2 DEF Tick
  <2> QED BY <1>1, <1>4, <2>1, NoRowsKept DEF RestOK
<1>8. ListsTrue'
  <2>1. GoOn(reservations, reservations')
    BY <1>1, AgeGoOn DEF StockOK, Tick
  <2> QED BY <1>1, <1>3, <1>4, <2>1, ListsKept DEF RestOK, StockOK, Tick
<1>9. RestOK'
  BY <1>1, <1>5, <1>6, <1>7, <1>8 DEF RestOK, Tick
<1> QED BY <1>3, <1>9 DEF IInv

-----------------------------------------------------------------------------
\* The operations that leave the stock alone.

\* When the stock and the orders stay, so does what ties them together.
LEMMA StockUnchanged ==
  ASSUME StockOK(balance, reservations), balance' = balance, reservations' = reservations
  PROVE  StockOK(balance', reservations')
OBVIOUS

LEMMA NoRowsUnchanged ==
  ASSUME NoRows, reservations' = reservations,
         \A d \in Deals : orders'[d].status = "NONE" => orders[d].status = "NONE"
  PROVE  NoRows'
BY DEF NoRows

LEMMA AddPaymentIInv ==
  ASSUME ConstantsAssumption, IInv, NEW d \in Deals, AddPayment(d)
  PROVE  IInv'
<1>1. StockOK(balance, reservations) /\ RestOK
  BY DEF IInv
<1>2. payments \in [Deals -> Seq(Payment)] /\ CreationOrder /\ NoRows
  BY <1>1 DEF RestOK
<1>3. PICK amount \in PaymentAmounts, u \in Recorders :
        payments' = [payments EXCEPT ![d] =
          Append(@, [amount |-> amount, createdBy |-> u, status |-> "PENDING"])]
  BY DEF AddPayment
<1>4. payments' \in [Deals -> Seq(Payment)]
  <2> DEFINE row == [amount |-> amount, createdBy |-> u, status |-> "PENDING"]
  <2>1. row \in Payment
    BY DEF Payment
  <2> HIDE DEF row
  <2>2. Append(payments[d], row) \in Seq(Payment)
    BY <1>2, <2>1
  <2>3. payments' = [payments EXCEPT ![d] = Append(payments[d], row)]
    BY <1>3 DEF row
  <2> QED BY <1>2, <2>2, <2>3
<1>5. CreationOrder' /\ NoRows' /\ ListsTrue'
  BY <1>1, <1>2, CreationUnchanged, NoRowsUnchanged, ListsUnchanged DEF AddPayment, RestOK
<1>6. StockOK(balance', reservations')
  BY <1>1, StockUnchanged DEF AddPayment
<1>7. RestOK'
  BY <1>1, <1>4, <1>5 DEF RestOK, AddPayment
<1> QED BY <1>6, <1>7 DEF IInv

LEMMA ConfirmPaymentIInv ==
  ASSUME ConstantsAssumption, IInv, NEW d \in Deals, NEW k \in DOMAIN payments[d],
         NEW verdict \in {"CONFIRMED", "REJECTED"}, ConfirmPayment(d, k, verdict)
  PROVE  IInv'
<1>1. StockOK(balance, reservations) /\ RestOK
  BY DEF IInv
<1>2. /\ orders \in [Deals -> Order] /\ payments \in [Deals -> Seq(Payment)]
      /\ deals \in [Deals -> Deal] /\ CreationOrder /\ NoRows
  BY <1>1 DEF RestOK
<1> DEFINE rows == [payments[d] EXCEPT ![k].status = verdict]
           paid == ConfirmedTotal(rows)
           total == deals[d].totalAmount
           order == Paid(orders[d], paid, total)
<1>3. rows \in Seq(Payment)
  <2> DEFINE old == payments[d]
             row == [old[k] EXCEPT !.status = verdict]
  <2>1. old \in Seq(Payment) /\ k \in DOMAIN old
    BY <1>2
  <2>2. rows = [old EXCEPT ![k] = row]
    OBVIOUS
  <2> HIDE DEF old, rows
  <2>3. Len(old) \in Nat /\ DOMAIN old = 1..Len(old)
    BY <2>1, LenProperties
  <2>4. old[k] \in Payment
    BY <2>1, <2>3, ElementOfSeq
  <2>5. row \in Payment
    BY <2>4 DEF Payment
  <2> HIDE DEF row
  <2> QED BY <2>1, <2>2, <2>3, <2>5
<1> HIDE DEF rows
<1>4. paid \in Nat
  BY <1>3, ConfirmedTotalType
<1>5. total \in Nat /\ deals[d] \in Deal
  <2>1. deals[d].totalAmount \in Totals /\ deals[d] \in Deal
    BY <1>2 DEF Deal
  <2> QED BY <2>1 DEF ConstantsAssumption
<1> HIDE DEF paid, total
<1>6. /\ order \in Order /\ order.createdAt = orders[d].createdAt
      /\ (order.status = "NONE") <=> (orders[d].status = "NONE")
  <2> DEFINE old == orders[d]
  <2>1. old \in Order
    BY <1>2
  <2> HIDE DEF old
  <2>2. /\ Paid(old, paid, total) \in Order
        /\ Paid(old, paid, total).status = old.status
        /\ Paid(old, paid, total).createdAt = old.createdAt
    BY <1>4, <1>5, <2>1, PaidFields
  <2> QED BY <2>2 DEF old
<1>7. /\ payments' = [payments EXCEPT ![d] = rows]
      /\ \/ TryFinalize(d, deals[d], order)
         \/ orders' = [orders EXCEPT ![d] = order] /\ deals' = deals
      /\ UNCHANGED <<balance, reservations, receipts, expired, passes>>
  BY DEF ConfirmPayment, rows, paid, total
<1> HIDE DEF order
<1>8. /\ orders' \in [Deals -> Order] /\ CreationOrder'
      /\ \A e \in Deals : orders'[e].status = "NONE" => orders[e].status = "NONE"
      /\ deals' \in [Deals -> Deal]
  <2>1. CASE TryFinalize(d, deals[d], order)
    BY <1>2, <1>5, <1>6, <2>1, TryFinalizeKeeps
  <2>2. CASE orders' = [orders EXCEPT ![d] = order] /\ deals' = deals
    BY <1>2, <1>6, <2>2, OrderReplaced
  <2> QED BY <1>7, <2>1, <2>2
<1>9. NoRows' /\ ListsTrue'
  BY <1>1, <1>2, <1>7, <1>8, NoRowsUnchanged, ListsUnchanged DEF RestOK
<1>10. payments' \in [Deals -> Seq(Payment)]
  BY <1>2, <1>3, <1>7
<1>11. StockOK(balance', reservations')
  BY <1>1, <1>7, StockUnchanged
<1>12. RestOK'
  BY <1>1, <1>7, <1>8, <1>9, <1>10 DEF RestOK
<1> QED BY <1>11, <1>12 DEF IInv

\* Only the row of one purchase changes.
LEMMA PurchaseIInv ==
  ASSUME IInv, NEW r \in Receipts, NEW new \in Receipt,
         receipts' = [receipts EXCEPT ![r] = new],
         UNCHANGED <<balance, reservations, orders, payments, deals, expired, passes>>
  PROVE  IInv'
<1>1. StockOK(balance, reservations) /\ RestOK
  BY DEF IInv
<1>2. receipts' \in [Receipts -> Receipt]
  BY <1>1 DEF RestOK
<1>3. CreationOrder' /\ NoRows' /\ ListsTrue'
  BY <1>1, CreationUnchanged, NoRowsUnchanged, ListsUnchanged DEF RestOK
<1>4. RestOK'
  BY <1>1, <1>2, <1>3 DEF RestOK
<1> QED BY <1>1, <1>4 DEF IInv

WithOrdered(receipt, ordered, s) == [receipt EXCEPT !.ordered = ordered, !.status = s]

LEMMA WithOrderedType ==
  ASSUME NEW receipt \in Receipt, NEW ordered \in Lines, NEW s \in ReceiptStatuses
  PROVE  WithOrdered(receipt, ordered, s) \in Receipt
BY DEF WithOrdered, Receipt

LEMMA PurchaseStepIInv ==
  ASSUME ConstantsAssumption, IInv, NEW r \in Receipts,
         \/ CreateExpectedReceipt(r)
         \/ UpdateWarehousePurchase(r)
         \/ CancelWarehousePurchase(r)
  PROVE  IInv'
<1>1. receipts \in [Receipts -> Receipt]
  BY DEF IInv, RestOK
<1> DEFINE old == receipts[r]
<1>2. old \in Receipt /\ old.ordered \in Lines
  BY <1>1 DEF Receipt
<1>3. PurchaseBaskets \subseteq Lines
  BY DEF ConstantsAssumption
<1>4. CASE CreateExpectedReceipt(r)
  <2>1. PICK ordered \in PurchaseBaskets :
          receipts' = [receipts EXCEPT ![r].status = "PENDING", ![r].ordered = ordered]
    BY <1>4 DEF CreateExpectedReceipt
  <2> DEFINE new == [old EXCEPT !.status = "PENDING", !.ordered = ordered]
  <2>2. receipts' = [receipts EXCEPT ![r] = new]
    BY <2>1
  <2>3. "PENDING" \in ReceiptStatuses /\ ordered \in Lines
    BY <1>3 DEF ReceiptStatuses
  <2> HIDE DEF old
  <2>4. new \in Receipt
    BY <1>2, <2>3 DEF Receipt
  <2> HIDE DEF new
  <2> QED BY <1>4, <2>2, <2>4, PurchaseIInv DEF CreateExpectedReceipt
<1>5. CASE UpdateWarehousePurchase(r)
  <2>1. PICK ordered \in PurchaseBaskets :
          receipts' = [receipts EXCEPT
            ![r].ordered = ordered,
            ![r].status = calculateReceiptStatus(ordered, receipts[r].received)]
    BY <1>5 DEF UpdateWarehousePurchase
  <2> DEFINE s == calculateReceiptStatus(ordered, old.received)
             new == WithOrdered(old, ordered, s)
  <2>2. receipts' = [receipts EXCEPT ![r] = new]
    BY <2>1 DEF WithOrdered
  <2>3. s \in ReceiptStatuses /\ ordered \in Lines
    BY <1>3, CalculatedReceiptStatus
  <2> HIDE DEF old, s
  <2>4. new \in Receipt
    BY <1>2, <2>3, WithOrderedType
  <2> HIDE DEF new
  <2> QED BY <1>5, <2>2, <2>4, PurchaseIInv DEF UpdateWarehousePurchase
<1>6. CASE CancelWarehousePurchase(r)
  <2> DEFINE new == [old EXCEPT !.status = "CANCELLED"]
  <2>1. receipts' = [receipts EXCEPT ![r] = new]
    BY <1>6 DEF CancelWarehousePurchase
  <2>2. "CANCELLED" \in ReceiptStatuses
    BY DEF ReceiptStatuses
  <2> HIDE DEF old
  <2>3. new \in Receipt
    BY <1>2, <2>2 DEF Receipt
  <2> HIDE DEF new
  <2> QED BY <1>6, <2>1, <2>3, PurchaseIInv DEF CancelWarehousePurchase
<1> QED BY <1>4, <1>5, <1>6

LEMMA ConfirmSupervisorIInv ==
  ASSUME ConstantsAssumption, IInv, NEW d \in Deals, ConfirmSupervisor(d)
  PROVE  IInv'
<1>1. StockOK(balance, reservations) /\ RestOK
  BY DEF IInv
<1>2. /\ orders \in [Deals -> Order] /\ deals \in [Deals -> Deal]
      /\ CreationOrder /\ NoRows
  BY <1>1 DEF RestOK
<1> DEFINE deal == [deals[d] EXCEPT !.supervisorConfirmed = TRUE]
           order == orders[d]
<1>3. TryFinalize(d, deal, order)
  BY DEF ConfirmSupervisor
<1>4. deal \in Deal
  <2> DEFINE old == deals[d]
  <2>1. old \in Deal
    BY <1>2
  <2> HIDE DEF old
  <2>2. [old EXCEPT !.supervisorConfirmed = TRUE] \in Deal
    BY <2>1 DEF Deal
  <2> QED BY <2>2 DEF old
<1>5. /\ order \in Order /\ order.createdAt = orders[d].createdAt
      /\ (order.status = "NONE") <=> (orders[d].status = "NONE")
  BY <1>2
<1> HIDE DEF deal, order
<1>6. /\ orders' \in [Deals -> Order] /\ CreationOrder'
      /\ \A e \in Deals : orders'[e].status = "NONE" => orders[e].status = "NONE"
      /\ deals' \in [Deals -> Deal]
  BY <1>2, <1>3, <1>4, <1>5, TryFinalizeKeeps
<1>7. NoRows' /\ StockOK(balance', reservations') /\ ListsTrue'
  BY <1>1, <1>2, <1>6, NoRowsUnchanged, StockUnchanged, ListsUnchanged
     DEF ConfirmSupervisor, RestOK
<1>8. RestOK'
  BY <1>1, <1>6, <1>7 DEF RestOK, ConfirmSupervisor
<1> QED BY <1>7, <1>8 DEF IInv

LEMMA ChangeStageIInv ==
  ASSUME ConstantsAssumption, IInv, NEW d \in Deals,
         NEW stage \in {"OPEN", "WON", "LOST"}, ChangeStage(d, stage)
  PROVE  IInv'
<1>1. StockOK(balance, reservations) /\ RestOK
  BY DEF IInv
<1>2. deals' \in [Deals -> Deal]
  <2> DEFINE old == deals[d]
             new == [old EXCEPT !.stage = stage]
  <2>1. old \in Deal
    BY <1>1 DEF RestOK
  <2>2. deals' = [deals EXCEPT ![d] = new]
    BY DEF ChangeStage
  <2> HIDE DEF old
  <2>3. new \in Deal
    BY <2>1 DEF Deal
  <2> HIDE DEF new
  <2> QED BY <1>1, <2>2, <2>3 DEF RestOK
<1>3. CreationOrder' /\ NoRows' /\ StockOK(balance', reservations') /\ ListsTrue'
  BY <1>1, CreationUnchanged, NoRowsUnchanged, StockUnchanged, ListsUnchanged
     DEF RestOK, ChangeStage
<1>4. RestOK'
  BY <1>1, <1>2, <1>3 DEF RestOK, ChangeStage
<1> QED BY <1>3, <1>4 DEF IInv

-----------------------------------------------------------------------------
\* Every step keeps the invariant.

LEMMA OrderStepIInv ==
  ASSUME ConstantsAssumption, IInv, NEW d \in Deals, OrderStep(d)
  PROVE  IInv'
<1>1. CASE CreateFromDeal(d)
  <2>1. PICK taken \in SUBSET Wanted(d) :
          ReserveStock(d, Available(balance), taken) /\ CreateOrder(d, taken)
    BY <1>1 DEF CreateFromDeal
  <2>2. taken \in SUBSET Products
    BY DEF Wanted
  <2>3. \A p \in taken : deals[d].items[p] <= balance[p].available
    <3> SUFFICES ASSUME NEW p \in taken PROVE deals[d].items[p] <= balance[p].available
      OBVIOUS
    <3>1. p \in Products /\ Available(balance)[p] >= deals[d].items[p]
      BY <2>1, ReserveStockFits
    <3> QED BY <3>1 DEF Available
  <2>4. orders[d].status = "NONE"
    BY <1>1 DEF CreateFromDeal
  <2> QED BY <2>1, <2>2, <2>3, <2>4, CreateOrderIInv
<1>2. CASE ConvertStockOnlyQuote(d)
  <2> DEFINE taken == Wanted(d)
  <2>1. ReserveStock(d, Available(balance), taken) /\ CreateOrder(d, taken)
    BY <1>2 DEF ConvertStockOnlyQuote
  <2>2. taken \in SUBSET Products
    BY DEF Wanted
  <2> HIDE DEF taken
  <2>3. \A p \in taken : deals[d].items[p] <= balance[p].available
    <3> SUFFICES ASSUME NEW p \in taken PROVE deals[d].items[p] <= balance[p].available
      OBVIOUS
    <3>1. p \in Products /\ Available(balance)[p] >= deals[d].items[p]
      BY <2>1, ReserveStockFits
    <3> QED BY <3>1 DEF Available
  <2>4. orders[d].status = "NONE"
    BY <1>2 DEF ConvertStockOnlyQuote
  <2> QED BY <2>1, <2>2, <2>3, <2>4, CreateOrderIInv
<1>3. CASE CancelOrder(d)
  <2>1. orders[d].status # "NONE"
    BY <1>3 DEF CancelOrder
  <2> QED BY <1>3, <2>1, ReleaseIInv DEF CancelOrder
<1>4. CASE CancelExpiredWaitingPayment(d)
  <2>1. orders[d].status # "NONE"
    BY <1>4 DEF CancelExpiredWaitingPayment
  <2> QED BY <1>4, <2>1, ReleaseIInv DEF CancelExpiredWaitingPayment
<1>5. CASE \E p \in Products : HandleExpired(d, p)
  BY <1>5, HandleExpiredIInv
<1>6. CASE AddPayment(d)
  BY <1>6, AddPaymentIInv
<1>7. CASE \E k \in DOMAIN payments[d], verdict \in {"CONFIRMED", "REJECTED"} :
             ConfirmPayment(d, k, verdict)
  BY <1>7, ConfirmPaymentIInv
<1>8. CASE \E quantity \in Parts(deals[d].items) : CreateDelivery(d, quantity)
  BY <1>8, DeliveryIInv
<1>9. CASE ConfirmSupervisor(d)
  BY <1>9, ConfirmSupervisorIInv
<1>10. CASE \E stage \in {"OPEN", "WON", "LOST"} : ChangeStage(d, stage)
  BY <1>10, ChangeStageIInv
<1> QED BY <1>1, <1>2, <1>3, <1>4, <1>5, <1>6, <1>7, <1>8, <1>9, <1>10 DEF OrderStep

LEMMA ReceiptStepIInv ==
  ASSUME ConstantsAssumption, IInv, NEW r \in Receipts, ReceiptStep(r)
  PROVE  IInv'
<1>1. CASE \/ CreateExpectedReceipt(r)
           \/ UpdateWarehousePurchase(r)
           \/ CancelWarehousePurchase(r)
  BY <1>1, PurchaseStepIInv
<1>2. CASE \E key \in ReceiptKeys \cup {NoKey}, accepted \in Parts(receipts[r].ordered) :
             ProcessReceipt(r, key, accepted)
  BY <1>2, ReceiptIInv
<1>3. CASE ListWaiting(r)
  BY <1>3, ListWaitingIInv
<1> QED BY <1>1, <1>2, <1>3 DEF ReceiptStep

LEMMA StutterIInv ==
  ASSUME IInv, UNCHANGED vars
  PROVE  IInv'
<1>1. StockOK(balance, reservations) /\ RestOK
  BY DEF IInv
<1>2. CreationOrder' /\ NoRows' /\ StockOK(balance', reservations') /\ ListsTrue'
  BY <1>1, CreationUnchanged, NoRowsUnchanged, StockUnchanged, ListsUnchanged
     DEF RestOK, vars
<1>3. RestOK'
  BY <1>1, <1>2 DEF RestOK, vars
<1> QED BY <1>2, <1>3 DEF IInv

LEMMA StepIInv ==
  ASSUME ConstantsAssumption, IInv, [Next]_vars
  PROVE  IInv'
<1>1. CASE \E d \in Deals : OrderStep(d)
  BY <1>1, OrderStepIInv
<1>2. CASE \E r \in Receipts : ReceiptStep(r)
  BY <1>2, ReceiptStepIInv
<1>3. CASE Tick
  BY <1>3, TickIInv
<1>4. CASE UNCHANGED vars
  BY <1>4, StutterIInv
<1>5. CASE ListExpired
  BY <1>5, ListExpiredIInv
<1> QED BY <1>1, <1>2, <1>3, <1>4, <1>5 DEF Next

\* Whatever the services, the cron jobs and the receipts do in whatever order,
\* every row stays in its domain: what is on hand and what is available never
\* go below zero.
THEOREM TypeCorrect == Spec => []TypeOK
<1>1. Init => IInv
  BY ConstantsAssumption, InitIInv
<1>2. IInv /\ [Next]_vars => IInv'
  BY ConstantsAssumption, StepIInv
<1>3. IInv => TypeOK
  BY IInvImplies
<1> QED BY <1>1, <1>2, <1>3, PTL DEF Spec

\* The ledger of every product adds up in every reachable state: what the balance
\* calls reserved is what the active reservations hold, or less when something
\* of the product is three days old and the release job may have given back what
\* a delivery had taken since the job listed it.
THEOREM LedgerCorrect == Spec => []LedgerBalanced
<1>1. Init => IInv
  BY ConstantsAssumption, InitIInv
<1>2. IInv /\ [Next]_vars => IInv'
  BY ConstantsAssumption, StepIInv
<1>3. IInv => LedgerBalanced
  BY IInvImplies
<1> QED BY <1>1, <1>2, <1>3, PTL DEF Spec


-----------------------------------------------------------------------------
\* What is true of one order, with the payments and the deal it belongs to.

\* The row tells what was paid, and nothing is delivered before all of it is.
PaymentTrue(order, rows, deal) ==
  /\ order.paidAmount = ConfirmedTotal(rows)
  /\ order.paidAmount + order.remainingAmount = deal.totalAmount
  /\ order.paymentStatus = "PAID" <=> order.paidAmount > 0 /\ order.remainingAmount = 0
  /\ (\E p \in Products : order.delivered[p] > 0) => order.paymentStatus = "PAID"

Full(order, deal) == \A p \in Products : order.delivered[p] = deal.items[p]
Nothing(order) == \A p \in Products : order.delivered[p] = 0
WaitingStatuses == {"WAITING_PAYMENT", "WAITING_STOCK"}

\* An order has lines, and its status tells what left the warehouse, unless a
\* receipt has overwritten it.
ShipmentTrue(order, deal) ==
  /\ \E p \in Products : deal.items[p] > 0
  /\ \A p \in Products : order.delivered[p] <= deal.items[p]
  /\ order.status \in {"SHIPPED", "COMPLETED"} => Full(order, deal)
  /\ order.status = "PARTIALLY_SHIPPED" => ~Full(order, deal) /\ ~Nothing(order)
  /\ order.status \in WaitingStatuses \cup {"CANCELLED"} => Nothing(order) \/ order.late

CompletionTrue(order, deal) ==
  /\ order.status = "COMPLETED" => deal.completed
  /\ deal.completed => order.status = "COMPLETED" \/ order.late
  /\ deal.installationCompleted => deal.supervisorConfirmed
  /\ deal.completed =>
       /\ order.paymentStatus = "PAID"
       /\ Full(order, deal)
       /\ deal.installationRequired = "yes" => deal.installationCompleted
       /\ deal.installationRequired # "null"

\* An order that was not created has been paid and delivered nothing.
BlankTrue(order, rows) ==
  order.status = "NONE" => Nothing(order) /\ order.paymentStatus = "UNPAID" /\ rows = <<>>

OrderTrue(order, rows, deal) ==
  /\ order.status # "NONE" => PaymentTrue(order, rows, deal) /\ ShipmentTrue(order, deal)
  /\ CompletionTrue(order, deal)
  /\ BlankTrue(order, rows)

OrdersTrue == \A d \in Deals : OrderTrue(orders[d], payments[d], deals[d])

\* Together they are what the runs check.
LEMMA OrdersTrueImplies == OrdersTrue => OrderFaithful /\ CompletedMeansSettled
<1> SUFFICES ASSUME OrdersTrue PROVE OrderFaithful /\ CompletedMeansSettled
  OBVIOUS
<1>1. PaymentsReconcile
  BY DEF OrdersTrue, OrderTrue, PaymentTrue, PaymentsReconcile
<1>2. ShipmentStatusFaithful
  <2>1. \A d \in Deals : /\ Full(orders[d], deals[d]) <=> FullyDelivered(d)
                         /\ Nothing(orders[d]) <=> NothingDelivered(d)
    BY DEF Full, Nothing, FullyDelivered, NothingDelivered
  <2> QED BY <2>1 DEF OrdersTrue, OrderTrue, ShipmentTrue, ShipmentStatusFaithful, WaitingStatuses
<1>3. CompletedMeansSettled
  <2> SUFFICES ASSUME NEW d \in Deals
               PROVE  /\ orders[d].status = "COMPLETED" => deals[d].completed
                      /\ deals[d].completed => orders[d].status = "COMPLETED" \/ orders[d].late
                      /\ deals[d].installationCompleted => deals[d].supervisorConfirmed
                      /\ deals[d].completed =>
                           /\ orders[d].paymentStatus = "PAID"
                           /\ FullyDelivered(d)
                           /\ deals[d].installationRequired = "yes"
                                => deals[d].installationCompleted
                           /\ deals[d].installationRequired # "null"
    BY DEF CompletedMeansSettled
  <2>1. CompletionTrue(orders[d], deals[d])
    BY DEF OrdersTrue, OrderTrue
  <2>2. Full(orders[d], deals[d]) <=> FullyDelivered(d)
    BY DEF Full, FullyDelivered
  <2> QED BY <2>1, <2>2 DEF CompletionTrue
<1> QED BY <1>1, <1>2, <1>3 DEF OrderFaithful

-----------------------------------------------------------------------------
\* Rewriting an order's status.

\* What was paid and what was delivered are the same in both rows.
SameTruth(o, n) ==
  /\ n.delivered = o.delivered
  /\ n.paidAmount = o.paidAmount
  /\ n.remainingAmount = o.remainingAmount
  /\ n.paymentStatus = o.paymentStatus
  /\ n.late = o.late

LEMMA RewrittenSame ==
  ASSUME NEW order \in Order
  PROVE  /\ \A s : SameTruth(order, WithStatus(order, s))
         /\ \A by : SameTruth(order, Closed(order, by))
         /\ SameTruth(order, AgedOrder(order))
         /\ SameTruth(order, order)
<1>1. \A s : SameTruth(order, WithStatus(order, s))
  BY DEF SameTruth, WithStatus, Order
<1>2. \A by : SameTruth(order, Closed(order, by))
  BY DEF SameTruth, Closed, Order
<1>4. SameTruth(order, AgedOrder(order))
  BY DEF SameTruth, AgedOrder, Order
<1>5. SameTruth(order, order)
  BY DEF SameTruth
<1> QED BY <1>1, <1>2, <1>4, <1>5

\* A waiting order may be told to wait for something else, or be cancelled.
LEMMA StatusTrue ==
  ASSUME NEW order, NEW new, NEW rows, NEW deal,
         OrderTrue(order, rows, deal), SameTruth(order, new),
         \/ new.status = order.status
         \/ /\ order.status \in WaitingStatuses
            /\ new.status \in WaitingStatuses \cup {"CANCELLED"}
  PROVE  /\ OrderTrue(new, rows, deal)
         /\ new.status \in LaterStatuses(order.status) \/ order.status \notin OrderStatuses
<1>1. new.status # "NONE" => PaymentTrue(new, rows, deal)
  BY DEF OrderTrue, SameTruth, PaymentTrue, WaitingStatuses
<1>2. new.status # "NONE" => ShipmentTrue(new, deal)
  BY DEF OrderTrue, SameTruth, ShipmentTrue, Full, Nothing, WaitingStatuses
<1>3. CompletionTrue(new, deal)
  BY DEF OrderTrue, SameTruth, CompletionTrue, Full, WaitingStatuses
<1>4. BlankTrue(new, rows)
  BY DEF OrderTrue, SameTruth, BlankTrue, Nothing, WaitingStatuses
<1>5. new.status \in LaterStatuses(order.status) \/ order.status \notin OrderStatuses
  BY DEF LaterStatuses, OrderStatuses, WaitingStatuses
<1> QED BY <1>1, <1>2, <1>3, <1>4, <1>5 DEF OrderTrue

\* The status of an order that finalizing leaves is its own or COMPLETED.
LEMMA FinalizedStatus ==
  ASSUME NEW order \in Order, NEW deal
  PROVE  FinalizedOrder(deal, order).status \in {order.status, "COMPLETED"}
<1>1. \/ FinalizedOrder(deal, order) = order
      \/ FinalizedOrder(deal, order) = WithStatus(order, "COMPLETED")
  BY DEF FinalizedOrder, WithStatus
<1> QED BY <1>1, WithStatusFields DEF OrderStatuses

\* Finalizing completes the order and its deal together.
LEMMA FinalizedTrue ==
  ASSUME NEW order \in Order, NEW rows, NEW deal \in Deal, OrderTrue(order, rows, deal)
  PROVE  /\ OrderTrue(FinalizedOrder(deal, order), rows, FinalizedDeal(deal, order))
         /\ \/ FinalizedOrder(deal, order).status = order.status
            \/ order.status = "SHIPPED" /\ FinalizedOrder(deal, order).status = "COMPLETED"
<1> DEFINE snap == Snapshot(deal, order)
           i == deal.installationCompleted \/ canCompleteInstallation(snap)
           c == deal.completed \/ canCompleteDeal(snap)
           nd == [deal EXCEPT !.installationCompleted = i, !.completed = c]
           no == FinalizedOrder(deal, order)
<1>1. FinalizedDeal(deal, order) = nd
  BY DEF FinalizedDeal
<1>2. /\ nd.items = deal.items /\ nd.totalAmount = deal.totalAmount
      /\ nd.installationRequired = deal.installationRequired
      /\ nd.supervisorConfirmed = deal.supervisorConfirmed
      /\ nd.installationCompleted = i /\ nd.completed = c
  <2> HIDE DEF i, c
  <2> QED BY DEF Deal
<1>3. /\ canCompleteInstallation(snap) => deal.supervisorConfirmed
      /\ canCompleteDeal(snap) =>
           /\ ~ deal.completed
           /\ order.paymentStatus = "PAID"
           /\ order.status \in {"SHIPPED", "COMPLETED"}
           /\ \/ deal.installationRequired = "no"
              \/ deal.installationRequired = "yes" /\ canCompleteInstallation(snap)
  BY DEF canCompleteDeal, canCompleteInstallation, areMaterialsDelivered, Snapshot
<1>4. CompletionTrue(order, deal)
  BY DEF OrderTrue
<1>5. CASE canCompleteDeal(snap)
  <2>1. order.status = "SHIPPED" /\ Full(order, deal)
    BY <1>3, <1>4, <1>5 DEF CompletionTrue, OrderTrue, ShipmentTrue
  <2>2. no = WithStatus(order, "COMPLETED")
    BY <1>5, <2>1 DEF FinalizedOrder, WithStatus
  <2>3. no.status = "COMPLETED" /\ SameTruth(order, no)
    BY <2>2, RewrittenSame, WithStatusFields DEF OrderStatuses
  <2> HIDE DEF snap, nd, no, i, c
  <2>4. PaymentTrue(no, rows, nd)
    BY <1>2, <2>1, <2>3 DEF OrderTrue, PaymentTrue, SameTruth
  <2>5. ShipmentTrue(no, nd)
    BY <1>2, <2>1, <2>3 DEF OrderTrue, ShipmentTrue, SameTruth, Full, Nothing, WaitingStatuses
  <2>6. CompletionTrue(no, nd)
    <3>1. c /\ (i => deal.supervisorConfirmed) /\ order.paymentStatus = "PAID"
      BY <1>3, <1>4, <1>5 DEF c, i, CompletionTrue
    <3>2. /\ deal.installationRequired = "yes" => i
          /\ deal.installationRequired # "null"
      BY <1>3, <1>5 DEF i
    <3> QED BY <1>2, <2>1, <2>3, <3>1, <3>2 DEF CompletionTrue, SameTruth, Full
  <2>7. BlankTrue(no, rows)
    BY <2>3 DEF BlankTrue
  <2> QED BY <1>1, <2>1, <2>3, <2>4, <2>5, <2>6, <2>7 DEF OrderTrue, no
<1>6. CASE ~ canCompleteDeal(snap)
  <2>1. no = order
    BY <1>6 DEF FinalizedOrder
  <2>2. c <=> deal.completed
    BY <1>6
  <2>3. (i => deal.supervisorConfirmed) /\ (deal.installationCompleted => i)
    BY <1>3, <1>4 DEF CompletionTrue
  <2> HIDE DEF snap, nd, i, c
  <2>4. order.status # "NONE" => PaymentTrue(order, rows, nd)
    BY <1>2 DEF OrderTrue, PaymentTrue
  <2>5. order.status # "NONE" => ShipmentTrue(order, nd)
    BY <1>2 DEF OrderTrue, ShipmentTrue, Full
  <2>6. CompletionTrue(order, nd)
    BY <1>2, <1>4, <2>2, <2>3 DEF CompletionTrue, Full
  <2> QED BY <1>1, <2>1, <2>4, <2>5, <2>6 DEF OrderTrue
<1> QED BY <1>5, <1>6

-----------------------------------------------------------------------------
\* What was paid.

ConfirmedAmount(row) == IF row.status = "CONFIRMED" THEN row.amount ELSE 0

LEMMA ConfirmedSum ==
  ASSUME ConstantsAssumption, NEW rows \in Seq(Payment)
  PROVE  LET amounts == [k \in 1..Len(rows) |-> ConfirmedAmount(rows[k])] IN
         /\ Len(rows) \in Nat /\ DOMAIN rows = 1..Len(rows)
         /\ \A k \in 1..Len(rows) : /\ rows[k] \in Payment
                                    /\ amounts[k] = ConfirmedAmount(rows[k])
                                    /\ ConfirmedAmount(rows[k]) \in Nat
         /\ ConfirmedTotal(rows) = SumUpTo(amounts, Len(rows))
<1> DEFINE n == Len(rows)
           amounts == [k \in 1..n |-> ConfirmedAmount(rows[k])]
<1>1. n \in Nat /\ DOMAIN rows = 1..n /\ \A k \in 1..n : rows[k] \in Payment
  BY LenProperties, ElementOfSeq
<1>2. \A k \in 1..n : ConfirmedAmount(rows[k]) \in Nat
  <2>1. \A k \in 1..n : rows[k].amount \in Nat
    BY <1>1 DEF Payment, ConstantsAssumption
  <2> QED BY <2>1 DEF ConfirmedAmount
<1>3. amounts \in [1..n -> Nat]
  BY <1>2
<1>4. Len(amounts) = n
  BY <1>1, <1>3, TableIsSeq
<1>5. ConfirmedTotal(rows) = SumUpTo(amounts, n)
  BY <1>1, <1>4 DEF ConfirmedTotal, SumSeq, ConfirmedAmount
<1> QED BY <1>1, <1>2, <1>5

LEMMA ConfirmedNone == ConstantsAssumption => ConfirmedTotal(<<>>) = 0
<1> SUFFICES ASSUME ConstantsAssumption PROVE ConfirmedTotal(<<>>) = 0
  OBVIOUS
<1>1. <<>> \in Seq(Payment) /\ Len(<<>>) = 0
  BY EmptySeq
<1>2. ConfirmedTotal(<<>>) = SumUpTo([k \in 1..0 |-> ConfirmedAmount(<<>>[k])], 0)
  BY <1>1, ConfirmedSum
<1> QED BY <1>2, SumZeros

\* A payment that is recorded is not paid yet.
LEMMA ConfirmedAppend ==
  ASSUME ConstantsAssumption, NEW rows \in Seq(Payment), NEW row \in Payment,
         row.status = "PENDING"
  PROVE  ConfirmedTotal(Append(rows, row)) = ConfirmedTotal(rows)
<1> DEFINE longer == Append(rows, row)
           n == Len(rows)
           f == [k \in 1..n |-> ConfirmedAmount(rows[k])]
           g == [k \in 1..(n + 1) |-> ConfirmedAmount(longer[k])]
<1>1. /\ n \in Nat /\ ConfirmedTotal(rows) = SumUpTo(f, n)
      /\ \A k \in 1..n : f[k] = ConfirmedAmount(rows[k]) /\ f[k] \in Nat
  BY ConfirmedSum
<1>2. /\ longer \in Seq(Payment) /\ Len(longer) = n + 1
      /\ \A k \in 1..n : longer[k] = rows[k]
      /\ longer[n + 1] = row
  BY LenProperties
<1>3. /\ ConfirmedTotal(longer) = SumUpTo(g, n + 1)
      /\ \A k \in 1..(n + 1) : g[k] = ConfirmedAmount(longer[k]) /\ g[k] \in Nat
  <2> HIDE DEF longer
  <2> QED BY <1>2, ConfirmedSum
<1> HIDE DEF longer, n, f, g
<1>4. g[n + 1] = 0
  BY <1>1, <1>2, <1>3 DEF ConfirmedAmount
<1>5. SumUpTo(g, n + 1) = SumUpTo(g, n) + g[n + 1]
  <2>1. n \in Nat /\ (n + 1) \in Nat /\ \A k \in 1..(n + 1) : g[k] \in Int
    BY <1>1, <1>3
  <2>2. SumUpTo(g, n + 1) = SumUpTo(g, (n + 1) - 1) + g[n + 1]
    BY <2>1, SumStep
  <2> QED BY <2>1, <2>2
<1>6. SumUpTo(g, n) = SumUpTo(f, n)
  <2>1. \A k \in 1..n : f[k] \in Int /\ g[k] = f[k]
    BY <1>1, <1>2, <1>3
  <2> QED BY <1>1, <2>1, SumSame
<1>7. SumUpTo(f, n) \in Nat
  BY <1>1, ConfirmedTotalType
<1> QED BY <1>1, <1>3, <1>4, <1>5, <1>6, <1>7 DEF longer

\* A payment that is decided on counts when it is confirmed.
LEMMA ConfirmedDecided ==
  ASSUME ConstantsAssumption, NEW rows, NEW k, NEW verdict, rows \in Seq(Payment),
         k \in 1..Len(rows), rows[k].status = "PENDING",
         verdict \in {"CONFIRMED", "REJECTED"}
  PROVE  LET new == [rows EXCEPT ![k].status = verdict] IN
         /\ new \in Seq(Payment) /\ Len(new) = Len(rows)
         /\ ConfirmedTotal(new) = ConfirmedTotal(rows)
              + IF verdict = "CONFIRMED" THEN rows[k].amount ELSE 0
         /\ rows[k].amount \in Nat \ {0}
<1> DEFINE row == [rows[k] EXCEPT !.status = verdict]
           new == [rows EXCEPT ![k] = row]
           n == Len(rows)
           f == [j \in 1..n |-> ConfirmedAmount(rows[j])]
           g == [j \in 1..n |-> ConfirmedAmount(new[j])]
<1>1. /\ n \in Nat /\ DOMAIN rows = 1..n /\ ConfirmedTotal(rows) = SumUpTo(f, n)
      /\ \A j \in 1..n : rows[j] \in Payment /\ f[j] = ConfirmedAmount(rows[j]) /\ f[j] \in Nat
  BY ConfirmedSum
<1>2. /\ row \in Payment /\ row.status = verdict /\ row.amount = rows[k].amount
      /\ row.amount \in Nat \ {0}
  <2> DEFINE old == rows[k]
  <2>1. old \in Payment
    BY <1>1
  <2> HIDE DEF old
  <2>2. [old EXCEPT !.status = verdict] \in Payment
    BY <2>1 DEF Payment
  <2>3. /\ [old EXCEPT !.status = verdict].status = verdict
        /\ [old EXCEPT !.status = verdict].amount = old.amount
    BY <2>1 DEF Payment
  <2>4. old.amount \in Nat \ {0}
    BY <2>1 DEF Payment, ConstantsAssumption
  <2> QED BY <2>2, <2>3, <2>4 DEF old
<1> HIDE DEF row
<1>3. /\ new \in Seq(Payment) /\ Len(new) = n /\ new[k] = row
      /\ \A j \in 1..n : j # k => new[j] = rows[j]
  BY <1>1, <1>2, ExceptSeq
<1> HIDE DEF new
<1>4. /\ ConfirmedTotal(new) = SumUpTo(g, n)
      /\ \A j \in 1..n : g[j] = ConfirmedAmount(new[j]) /\ g[j] \in Nat
  BY <1>3, ConfirmedSum
<1>5. SumUpTo(g, n) = SumUpTo(f, n) - f[k] + g[k]
  <2>1. PICK m, u, v : m = n /\ u = f /\ v = g
    OBVIOUS
  <2> HIDE DEF n, f, g
  <2>2. m \in Nat
    BY <1>1, <2>1
  <2>3. k \in 1..m /\ \A j \in 1..m : j # k => v[j] = u[j]
    BY <1>1, <1>3, <1>4, <2>1
  <2>4. \A j \in 1..m : u[j] \in Int /\ v[j] \in Int
    BY <1>1, <1>4, <2>1
  <2>5. SumUpTo(v, m) = SumUpTo(u, m) - u[k] + v[k]
    BY ONLY <2>2, <2>3, <2>4, SumPoint
  <2> QED BY <2>1, <2>5
<1> HIDE DEF n, f, g
<1>6. f[k] = 0 /\ g[k] = IF verdict = "CONFIRMED" THEN rows[k].amount ELSE 0
  BY <1>1, <1>2, <1>3, <1>4 DEF ConfirmedAmount
<1>7. SumUpTo(f, n) \in Nat /\ g[k] \in Nat
  BY <1>1, <1>4, ConfirmedTotalType
<1>8. [rows EXCEPT ![k].status = verdict] = new
  BY DEF new, row
<1>9. ConfirmedTotal(new)
        = ConfirmedTotal(rows) + IF verdict = "CONFIRMED" THEN rows[k].amount ELSE 0
  BY <1>1, <1>4, <1>5, <1>6, <1>7
<1> QED BY <1>2, <1>3, <1>8, <1>9 DEF n

-----------------------------------------------------------------------------
\* One lemma per operation: what it makes of an order is true again, and its
\* status is one that may follow.

Kept(d) ==
  /\ OrderTrue(orders'[d], payments'[d], deals'[d])
  /\ orders'[d].status \in LaterStatuses(orders[d].status)

\* The rows of order d, typed.
LEMMA OrderRows ==
  ASSUME ConstantsAssumption, IInv, OrdersTrue, NEW d \in Deals
  PROVE  /\ orders[d] \in Order /\ orders[d].status \in OrderStatuses
         /\ payments[d] \in Seq(Payment)
         /\ deals[d] \in Deal /\ deals[d].items \in Lines /\ deals[d].totalAmount \in Nat
         /\ OrderTrue(orders[d], payments[d], deals[d])
<1>1. orders[d] \in Order /\ payments[d] \in Seq(Payment) /\ deals[d] \in Deal
  BY DEF IInv, RestOK
<1>2. deals[d].items \in Baskets /\ deals[d].totalAmount \in Totals
  BY <1>1 DEF Deal
<1>3. orders[d].status \in OrderStatuses
  BY <1>1 DEF Order
<1> QED BY <1>1, <1>2, <1>3 DEF ConstantsAssumption, OrdersTrue

LEMMA SameKept ==
  ASSUME NEW d, orders[d].status \in OrderStatuses,
         OrderTrue(orders[d], payments[d], deals[d]),
         orders'[d] = orders[d], payments'[d] = payments[d], deals'[d] = deals[d]
  PROVE  Kept(d)
<1>1. orders[d].status \in LaterStatuses(orders[d].status)
  BY DEF LaterStatuses, OrderStatuses
<1> QED BY <1>1 DEF Kept

LEMMA StatusKept ==
  ASSUME NEW d, orders[d].status \in OrderStatuses,
         OrderTrue(orders[d], payments[d], deals[d]),
         payments'[d] = payments[d], deals'[d] = deals[d],
         SameTruth(orders[d], orders'[d]),
         \/ orders'[d].status = orders[d].status
         \/ /\ orders[d].status \in WaitingStatuses
            /\ orders'[d].status \in WaitingStatuses \cup {"CANCELLED"}
  PROVE  Kept(d)
<1> DEFINE o == orders[d]
           n == orders'[d]
           r == payments[d]
           l == deals[d]
<1>1. /\ OrderTrue(o, r, l) /\ SameTruth(o, n) /\ o.status \in OrderStatuses
      /\ \/ n.status = o.status
         \/ /\ o.status \in WaitingStatuses
            /\ n.status \in WaitingStatuses \cup {"CANCELLED"}
  OBVIOUS
<1> HIDE DEF o, n, r, l
<1>2. OrderTrue(n, r, l) /\ n.status \in LaterStatuses(o.status)
  BY <1>1, StatusTrue
<1> QED BY <1>2 DEF Kept, o, n, r, l

LEMMA CreateOrderKept ==
  ASSUME ConstantsAssumption, IInv, OrdersTrue, NEW d \in Deals, NEW taken,
         orders[d].status = "NONE", Wanted(d) # {}, CreateOrder(d, taken)
  PROVE  \A e \in Deals : Kept(e)
<1>1. /\ orders \in [Deals -> Order] /\ orders' = [orders EXCEPT ![d] = NewOrder(d, taken)]
      /\ payments' = payments /\ deals' = deals
  BY DEF IInv, RestOK, CreateOrder
<1>2. ASSUME NEW e \in Deals, e # d PROVE Kept(e)
  <2>1. orders'[e] = orders[e] /\ payments'[e] = payments[e] /\ deals'[e] = deals[e]
    BY <1>1, <1>2
  <2> QED BY <2>1, OrderRows, SameKept
<1>3. Kept(d)
  <2> DEFINE new == NewOrder(d, taken)
             r == payments[d]
             l == deals[d]
  <2>1. OrderTrue(orders[d], r, l) /\ l.items \in Lines /\ l.totalAmount \in Nat
    BY OrderRows
  <2>2. r = <<>> /\ ConfirmedTotal(r) = 0
    BY <2>1, ConfirmedNone DEF OrderTrue, BlankTrue
  <2>3. CompletionTrue(orders[d], l) /\ ~l.completed
    BY <2>1 DEF OrderTrue, BlankTrue, CompletionTrue
  <2>4. /\ new.status \in WaitingStatuses /\ new.delivered = NoLines /\ new.paidAmount = 0
        /\ new.remainingAmount = l.totalAmount /\ new.paymentStatus = "UNPAID"
    BY DEF NewOrder, NoOrder, WaitingStatuses
  <2>5. PICK q \in Products : l.items[q] > 0
    BY DEF Wanted
  <2>6. orders'[d] = new /\ payments'[d] = r /\ deals'[d] = l
    BY <1>1
  <2> HIDE DEF new, r, l
  <2>7. \A p \in Products : new.delivered[p] = 0 /\ l.items[p] \in Nat
    BY <2>1, <2>4 DEF NoLines, Lines
  <2>8. PaymentTrue(new, r, l)
    BY <2>1, <2>2, <2>4, <2>7 DEF PaymentTrue
  <2>9. ShipmentTrue(new, l)
    BY <2>4, <2>5, <2>7 DEF ShipmentTrue, Full, Nothing, WaitingStatuses
  <2>10. CompletionTrue(new, l)
    BY <2>3, <2>4 DEF CompletionTrue, WaitingStatuses
  <2>11. BlankTrue(new, r)
    BY <2>4 DEF BlankTrue, WaitingStatuses
  <2>12. new.status \in LaterStatuses("NONE")
    BY <2>4 DEF LaterStatuses, OrderStatuses, WaitingStatuses
  <2> QED BY <2>6, <2>8, <2>9, <2>10, <2>11, <2>12 DEF Kept, OrderTrue
<1> QED BY <1>2, <1>3

LEMMA CloseKept ==
  ASSUME ConstantsAssumption, IInv, OrdersTrue, NEW d \in Deals, NEW by,
         orders[d].status \in WaitingStatuses,
         orders' = [orders EXCEPT ![d].status = "CANCELLED", ![d].closedBy = by],
         payments' = payments, deals' = deals
  PROVE  \A e \in Deals : Kept(e)
<1>1. orders \in [Deals -> Order]
  BY DEF IInv, RestOK
<1>2. ASSUME NEW e \in Deals, e # d PROVE Kept(e)
  <2>1. orders'[e] = orders[e] /\ payments'[e] = payments[e] /\ deals'[e] = deals[e]
    BY <1>1, <1>2
  <2> QED BY <2>1, OrderRows, SameKept
<1>3. Kept(d)
  <2>1. orders'[d] = Closed(orders[d], by)
    BY <1>1 DEF Closed
  <2>2. orders'[d].status = "CANCELLED"
    BY <1>1
  <2>3. SameTruth(orders[d], orders'[d])
    BY <1>1, <2>1, RewrittenSame
  <2> QED BY <2>2, <2>3, OrderRows, StatusKept
<1> QED BY <1>2, <1>3

\* An order whose reservation expires may go back to waiting.
LEMMA ExpireKept ==
  ASSUME ConstantsAssumption, IInv, OrdersTrue, NEW d \in Deals, NEW p \in Products,
         HandleExpired(d, p)
  PROVE  \A e \in Deals : Kept(e)
<1>1. PICK entry \in expired[d][p] :
        /\ \/ ReleaseExpired(d, p, entry[1], entry[2])
           \/ UNCHANGED <<balance, reservations, orders>>
        /\ UNCHANGED <<payments, receipts, deals, passes>>
  BY DEF HandleExpired
<1>2. /\ orders \in [Deals -> Order] /\ payments' = payments /\ deals' = deals
      /\ orders' = orders \/ orders' = [orders EXCEPT ![d] = ExpiredOrder(orders[d])]
  BY <1>1 DEF IInv, RestOK, ReleaseExpired
<1>3. ASSUME NEW e \in Deals, orders'[e] = orders[e] PROVE Kept(e)
  <2>1. payments'[e] = payments[e] /\ deals'[e] = deals[e]
    BY <1>2
  <2> QED BY <1>3, <2>1, OrderRows, SameKept
<1>4. CASE orders' = [orders EXCEPT ![d] = ExpiredOrder(orders[d])]
  <2>1. \A e \in Deals : e # d => orders'[e] = orders[e]
    BY <1>2, <1>4
  <2>2. orders'[d] = ExpiredOrder(orders[d])
    BY <1>2, <1>4
  <2>3. orders[d].status # "NONE"
    <3>1. entry[1] \in DOMAIN reservations[d][p]
      BY DEF IInv, RestOK, ListsTrue, ListedTrue
    <3>2. reservations[d][p] # <<>>
      BY <3>1
    <3> QED BY <3>2 DEF IInv, RestOK, NoRows
  <2>4. CASE orders[d].status \in TerminalStatuses
    BY <1>3, <2>1, <2>2, <2>4 DEF ExpiredOrder
  <2>5. CASE orders[d].status \notin TerminalStatuses
    <3>1. orders[d].status \in WaitingStatuses
      BY <2>3, <2>5, OrderRows DEF OrderStatuses, TerminalStatuses, FinalStatuses, WaitingStatuses
    <3>2. orders'[d] = WithStatus(orders[d], "WAITING_STOCK")
      BY <2>2, <2>5 DEF ExpiredOrder, WithStatus
    <3>3. SameTruth(orders[d], orders'[d])
      BY <1>2, <3>2, RewrittenSame
    <3>4. orders'[d].status = "WAITING_STOCK"
      <4>1. orders[d] \in Order /\ "WAITING_STOCK" \in OrderStatuses
        BY <1>2 DEF OrderStatuses
      <4> QED BY <3>2, <4>1, WithStatusFields
    <3>5. Kept(d)
      BY <1>2, <3>1, <3>3, <3>4, OrderRows, StatusKept DEF WaitingStatuses
    <3> QED BY <1>3, <2>1, <3>5
  <2> QED BY <2>4, <2>5
<1> QED BY <1>2, <1>3, <1>4

LEMMA AddPaymentKept ==
  ASSUME ConstantsAssumption, IInv, OrdersTrue, NEW d \in Deals, AddPayment(d)
  PROVE  \A e \in Deals : Kept(e)
<1>1. PICK amount \in PaymentAmounts, u \in Recorders :
        payments' = [payments EXCEPT ![d] =
          Append(@, [amount |-> amount, createdBy |-> u, status |-> "PENDING"])]
  BY DEF AddPayment
<1>2. /\ payments \in [Deals -> Seq(Payment)] /\ orders' = orders /\ deals' = deals
      /\ orders[d].status # "NONE"
  BY DEF IInv, RestOK, AddPayment
<1>3. ASSUME NEW e \in Deals, e # d PROVE Kept(e)
  <2>1. orders'[e] = orders[e] /\ payments'[e] = payments[e] /\ deals'[e] = deals[e]
    BY <1>1, <1>2, <1>3
  <2> QED BY <2>1, OrderRows, SameKept
<1>4. Kept(d)
  <2> DEFINE row == [amount |-> amount, createdBy |-> u, status |-> "PENDING"]
             rows == Append(payments[d], row)
  <2>1. row \in Payment /\ row.status = "PENDING"
    BY DEF Payment
  <2>2. payments'[d] = rows
    BY <1>1, <1>2
  <2> HIDE DEF row
  <2>3. ConfirmedTotal(rows) = ConfirmedTotal(payments[d])
    BY <1>2, <2>1, ConfirmedAppend
  <2> HIDE DEF rows
  <2>4. /\ PaymentTrue(orders[d], payments[d], deals[d])
        /\ ShipmentTrue(orders[d], deals[d]) /\ CompletionTrue(orders[d], deals[d])
    BY <1>2, OrderRows DEF OrderTrue
  <2>5. PaymentTrue(orders[d], rows, deals[d])
    BY <2>3, <2>4 DEF PaymentTrue
  <2>6. orders[d].status \in LaterStatuses(orders[d].status)
    BY OrderRows DEF LaterStatuses, OrderStatuses
  <2> QED BY <1>2, <2>2, <2>4, <2>5, <2>6 DEF Kept, OrderTrue, BlankTrue
<1> QED BY <1>3, <1>4

\* Finalizing, after the row became order and the deal became deal.
LEMMA FinalizeKept ==
  ASSUME NEW d \in Deals, orders \in [Deals -> Order], deals \in [Deals -> Deal],
         NEW order \in Order, NEW deal \in Deal, OrderTrue(order, payments'[d], deal),
         \/ order.status = orders[d].status
         \/ /\ orders[d].status \in WaitingStatuses \cup {"PARTIALLY_SHIPPED"}
            /\ order.status \in {"PARTIALLY_SHIPPED", "SHIPPED"},
         TryFinalize(d, deal, order)
  PROVE  Kept(d)
<1> DEFINE no == FinalizedOrder(deal, order)
           nd == FinalizedDeal(deal, order)
<1>1. orders'[d] = no /\ deals'[d] = nd
  BY DEF TryFinalize
<1>2. PICK rows : rows = payments'[d]
  OBVIOUS
<1>3. /\ OrderTrue(no, rows, nd)
      /\ no.status = order.status \/ (order.status = "SHIPPED" /\ no.status = "COMPLETED")
  <2>1. OrderTrue(order, rows, deal)
    BY <1>2
  <2> QED BY ONLY order \in Order, deal \in Deal, <2>1, FinalizedTrue
<1>4. orders[d].status \in OrderStatuses
  BY DEF Order
<1> HIDE DEF no, nd
<1>5. no.status \in LaterStatuses(orders[d].status)
  BY <1>3, <1>4 DEF LaterStatuses, OrderStatuses, WaitingStatuses
<1> QED BY <1>1, <1>2, <1>3, <1>5 DEF Kept

\* Paying never takes back what was paid.
LEMMA PaidTrue ==
  ASSUME NEW order \in Order, NEW rows, NEW new, NEW deal, NEW more \in Nat,
         deal.totalAmount \in Nat,
         order.status # "NONE", OrderTrue(order, rows, deal),
         ConfirmedTotal(rows) \in Nat,
         ConfirmedTotal(new) = ConfirmedTotal(rows) + more,
         more > 0 => ConfirmedTotal(new) <= deal.totalAmount
  PROVE  OrderTrue(Paid(order, ConfirmedTotal(new), deal.totalAmount), new, deal)
<1> DEFINE total == deal.totalAmount
           before == ConfirmedTotal(rows)
           paid == ConfirmedTotal(new)
           no == Paid(order, paid, total)
<1>1. /\ PaymentTrue(order, rows, deal) /\ ShipmentTrue(order, deal)
      /\ CompletionTrue(order, deal)
  BY DEF OrderTrue
<1>2. /\ before \in Nat /\ paid = before + more /\ total \in Nat
      /\ order.paidAmount = before /\ order.paidAmount + order.remainingAmount = total
      /\ order.remainingAmount \in Nat
      /\ order.paymentStatus = "PAID" <=> order.paidAmount > 0 /\ order.remainingAmount = 0
      /\ (\E p \in Products : order.delivered[p] > 0) => order.paymentStatus = "PAID"
  BY <1>1 DEF PaymentTrue, Order
<1>3. paid \in Nat /\ paid <= total
  BY <1>2
<1>4. /\ no.paidAmount = paid /\ no.remainingAmount = total - paid
      /\ no.paymentStatus = calculatePaymentStatus(paid, total)
      /\ no.status = order.status /\ no.delivered = order.delivered
      /\ no.late = order.late
  <2> DEFINE left == IF paid > total THEN 0 ELSE total - paid
             s == calculatePaymentStatus(paid, total)
  <2>1. no = [order EXCEPT !.paidAmount = paid, !.remainingAmount = left, !.paymentStatus = s]
    BY DEF Paid
  <2>2. left = total - paid
    BY <1>3, <1>2
  <2> HIDE DEF left, s, paid, total, no
  <2> QED BY <2>1, <2>2 DEF Order, s
<1> HIDE DEF no, paid, total, before
<1>5. no.paymentStatus = "PAID" <=> paid > 0 /\ paid >= total
  BY <1>2, <1>3, <1>4 DEF calculatePaymentStatus
<1>6. order.paymentStatus = "PAID" => no.paymentStatus = "PAID"
  BY <1>2, <1>3, <1>5
<1>7. PaymentTrue(no, new, deal)
  BY <1>2, <1>3, <1>4, <1>5, <1>6 DEF PaymentTrue, paid, total
<1>8. ShipmentTrue(no, deal)
  BY <1>1, <1>4 DEF ShipmentTrue, Full, Nothing
<1>9. CompletionTrue(no, deal)
  BY <1>1, <1>4, <1>6 DEF CompletionTrue, Full
<1> QED BY <1>4, <1>7, <1>8, <1>9 DEF OrderTrue, BlankTrue, no, paid, total

LEMMA ConfirmPaymentKept ==
  ASSUME ConstantsAssumption, IInv, OrdersTrue, NEW d \in Deals, NEW k \in DOMAIN payments[d],
         NEW verdict \in {"CONFIRMED", "REJECTED"}, ConfirmPayment(d, k, verdict)
  PROVE  \A e \in Deals : Kept(e)
<1> DEFINE old == payments[d]
           rows == [old EXCEPT ![k].status = verdict]
           total == deals[d].totalAmount
           order == Paid(orders[d], ConfirmedTotal(rows), total)
           more == IF verdict = "CONFIRMED" THEN old[k].amount ELSE 0
<1>1. /\ old[k].status = "PENDING"
      /\ verdict = "CONFIRMED" => ConfirmedTotal(rows) <= total
      /\ payments' = [payments EXCEPT ![d] = rows]
      /\ \/ TryFinalize(d, deals[d], order)
         \/ orders' = [orders EXCEPT ![d] = order] /\ deals' = deals
  BY DEF ConfirmPayment
<1>2. /\ orders \in [Deals -> Order] /\ payments \in [Deals -> Seq(Payment)]
      /\ deals \in [Deals -> Deal]
  BY DEF IInv, RestOK
<1>3. ASSUME NEW e \in Deals, e # d PROVE Kept(e)
  <2>1. orders'[e] = orders[e] /\ payments'[e] = payments[e] /\ deals'[e] = deals[e]
    BY <1>1, <1>2, <1>3 DEF TryFinalize
  <2> QED BY <2>1, OrderRows, SameKept
<1>4. /\ orders[d] \in Order /\ old \in Seq(Payment) /\ deals[d] \in Deal /\ total \in Nat
      /\ OrderTrue(orders[d], old, deals[d])
  BY OrderRows
<1>5. k \in 1..Len(old)
  BY <1>4, LenProperties
<1> HIDE DEF old
<1>6. /\ rows \in Seq(Payment) /\ ConfirmedTotal(rows) = ConfirmedTotal(old) + more
      /\ old[k].amount \in Nat
  BY <1>1, <1>4, <1>5, ConfirmedDecided
<1>7. ConfirmedTotal(old) \in Nat /\ ConfirmedTotal(rows) \in Nat /\ more \in Nat
  <2> HIDE DEF rows
  <2> QED BY <1>4, <1>6, ConfirmedTotalType
<1>8. orders[d].status # "NONE"
  BY <1>4, <1>5 DEF OrderTrue, BlankTrue
<1>9. more > 0 => ConfirmedTotal(rows) <= total
  BY <1>1
<1> HIDE DEF rows, more
<1>10. OrderTrue(order, rows, deals[d])
  BY <1>4, <1>6, <1>7, <1>8, <1>9, PaidTrue
<1>11. order \in Order /\ order.status = orders[d].status
  <2> DEFINE before == orders[d]
             paid == ConfirmedTotal(rows)
  <2>1. before \in Order /\ paid \in Nat /\ total \in Nat
    BY <1>4, <1>7
  <2> HIDE DEF before, paid, total
  <2>2. Paid(before, paid, total) \in Order /\ Paid(before, paid, total).status = before.status
    BY <2>1, PaidFields
  <2> QED BY <2>2 DEF before, paid
<1>12. payments'[d] = rows
  BY <1>1, <1>2
<1> HIDE DEF order, total
<1>13. CASE TryFinalize(d, deals[d], order)
  <2>1. Kept(d)
    BY <1>2, <1>4, <1>10, <1>11, <1>12, <1>13, FinalizeKept
  <2> QED BY <1>3, <2>1
<1>14. CASE orders' = [orders EXCEPT ![d] = order] /\ deals' = deals
  <2>1. order.status \in LaterStatuses(orders[d].status)
    BY <1>11, OrderRows DEF LaterStatuses, OrderStatuses
  <2>2. Kept(d)
    BY <1>2, <1>10, <1>12, <1>14, <2>1 DEF Kept
  <2> QED BY <1>3, <2>2
<1> QED BY <1>1, <1>13, <1>14

LEMMA DeliveryKept ==
  ASSUME ConstantsAssumption, IInv, OrdersTrue, NEW d \in Deals,
         NEW quantity \in Parts(deals[d].items), CreateDelivery(d, quantity)
  PROVE  /\ \A e \in Deals : Kept(e)
         /\ orders'[d].status \in {"PARTIALLY_SHIPPED", "SHIPPED", "COMPLETED"}
<1> DEFINE o == orders[d]
           deal == deals[d]
           delivered == [p \in Products |-> o.delivered[p] + quantity[p]]
           moved == Moved(o, delivered)
           s == ShipmentStatus(moved, deal.items)
           shipped == WithStatus(moved, s)
<1>1. /\ o.status \notin FinalStatuses \cup {"NONE"}
      /\ o.paymentStatus = "PAID"
      /\ \E p \in Products : quantity[p] > 0
      /\ \A p \in Products : delivered[p] <= deal.items[p]
      /\ TryFinalize(d, deal, shipped)
      /\ payments' = payments
  BY DEF CreateDelivery, Moved, WithStatus
<1>2. /\ orders \in [Deals -> Order] /\ deals \in [Deals -> Deal]
  BY DEF IInv, RestOK
<1>3. /\ o \in Order /\ o.status \in OrderStatuses /\ deal \in Deal /\ deal.items \in Lines
      /\ OrderTrue(o, payments[d], deal)
  BY OrderRows
<1>4. quantity \in [Products -> Nat]
  BY <1>3, PartsType
<1>5. o.delivered \in [Products -> Nat] /\ delivered \in Lines
  <2>1. o.delivered \in [Products -> Nat]
    BY <1>3 DEF Order, Lines
  <2> QED BY <1>4, <2>1 DEF Lines
<1>6. \A p \in Products : /\ delivered[p] = o.delivered[p] + quantity[p]
                          /\ delivered[p] \in Nat /\ deal.items[p] \in Nat
  BY <1>3, <1>4, <1>5 DEF Lines
<1>7. PICK q \in Products : delivered[q] > 0
  BY <1>1, <1>4, <1>5, <1>6
<1> HIDE DEF o, deal, delivered
<1>8. /\ moved \in Order /\ moved.delivered = delivered /\ moved.status = o.status
      /\ moved.paidAmount = o.paidAmount /\ moved.remainingAmount = o.remainingAmount
      /\ moved.paymentStatus = o.paymentStatus /\ moved.late = o.late
  <2>1. moved \in Order /\ moved.delivered = delivered /\ moved.status = o.status
    BY <1>3, <1>5, MovedFields
  <2>2. /\ moved.paidAmount = o.paidAmount /\ moved.remainingAmount = o.remainingAmount
        /\ moved.paymentStatus = o.paymentStatus /\ moved.late = o.late
    BY <1>3 DEF Moved, Order
  <2> QED BY <2>1, <2>2
<1> HIDE DEF moved
<1>9. /\ s \in {"SHIPPED", "PARTIALLY_SHIPPED"}
      /\ s = "SHIPPED" <=> \A p \in Products : delivered[p] = deal.items[p]
  <2>1. s = IF \A p \in Products : delivered[p] >= deal.items[p] THEN "SHIPPED"
            ELSE IF \E p \in Products : delivered[p] > 0 THEN "PARTIALLY_SHIPPED"
            ELSE o.status
    BY <1>8 DEF ShipmentStatus
  <2>2. (\A p \in Products : delivered[p] >= deal.items[p])
          <=> (\A p \in Products : delivered[p] = deal.items[p])
    BY <1>1, <1>6
  <2> HIDE DEF s
  <2> QED BY <1>7, <2>1, <2>2
<1> HIDE DEF s
<1>10. shipped \in Order /\ shipped.status = s /\ SameTruth(moved, shipped)
  <2>1. s \in OrderStatuses
    BY <1>9 DEF OrderStatuses
  <2> QED BY <1>8, <2>1, WithStatusFields, RewrittenSame
<1> HIDE DEF shipped
<1>11. /\ PaymentTrue(o, payments[d], deal) /\ ShipmentTrue(o, deal) /\ CompletionTrue(o, deal)
  BY <1>1, <1>3 DEF OrderTrue
<1>12. PaymentTrue(shipped, payments[d], deal)
  BY <1>1, <1>8, <1>10, <1>11 DEF PaymentTrue, SameTruth
<1>13. ShipmentTrue(shipped, deal)
  <2>1. /\ \A p \in Products : shipped.delivered[p] <= deal.items[p]
        /\ Full(shipped, deal) <=> s = "SHIPPED"
        /\ ~ Nothing(shipped)
    BY <1>1, <1>6, <1>7, <1>8, <1>9, <1>10 DEF SameTruth, Full, Nothing
  <2> QED BY <1>9, <1>10, <1>11, <2>1 DEF ShipmentTrue, WaitingStatuses
<1>14. CompletionTrue(shipped, deal)
  <2>1. deal.completed => Full(shipped, deal)
    <3> SUFFICES ASSUME deal.completed, NEW p \in Products
                 PROVE  shipped.delivered[p] = deal.items[p]
      BY DEF Full
    <3>1. o.delivered[p] = deal.items[p]
      BY <1>11 DEF CompletionTrue, Full
    <3>2. delivered[p] <= deal.items[p] /\ delivered[p] = o.delivered[p] + quantity[p]
      BY <1>1, <1>6
    <3>3. quantity[p] \in Nat /\ o.delivered[p] \in Nat
      BY <1>4, <1>5
    <3> QED BY <1>8, <1>10, <3>1, <3>2, <3>3 DEF SameTruth
  <2>2. shipped.status # "COMPLETED" /\ o.status # "COMPLETED" /\ shipped.late = o.late
    BY <1>1, <1>8, <1>9, <1>10 DEF SameTruth, FinalStatuses
  <2> QED BY <1>8, <1>10, <1>11, <2>1, <2>2 DEF CompletionTrue, SameTruth
<1>15. OrderTrue(shipped, payments'[d], deal)
  BY <1>1, <1>9, <1>10, <1>12, <1>13, <1>14 DEF OrderTrue, BlankTrue
<1>16. /\ o.status \in WaitingStatuses \cup {"PARTIALLY_SHIPPED"}
       /\ shipped.status \in {"PARTIALLY_SHIPPED", "SHIPPED"}
  BY <1>1, <1>3, <1>9, <1>10 DEF OrderStatuses, FinalStatuses, WaitingStatuses
<1>17. Kept(d)
  BY <1>1, <1>2, <1>3, <1>10, <1>15, <1>16, FinalizeKept DEF o, deal
<1>18. ASSUME NEW e \in Deals, e # d PROVE Kept(e)
  <2>1. orders'[e] = orders[e] /\ payments'[e] = payments[e] /\ deals'[e] = deals[e]
    BY <1>1, <1>2, <1>18 DEF TryFinalize
  <2> QED BY <2>1, OrderRows, SameKept
<1>19. orders'[d].status \in {"PARTIALLY_SHIPPED", "SHIPPED", "COMPLETED"}
  <2>1. orders'[d] = FinalizedOrder(deal, shipped)
    BY <1>1, <1>2 DEF TryFinalize
  <2>2. FinalizedOrder(deal, shipped).status \in {shipped.status, "COMPLETED"}
    BY <1>10, FinalizedStatus
  <2> QED BY <1>16, <2>1, <2>2
<1> QED BY <1>17, <1>18, <1>19

LEMMA ConfirmSupervisorKept ==
  ASSUME ConstantsAssumption, IInv, OrdersTrue, NEW d \in Deals, ConfirmSupervisor(d)
  PROVE  \A e \in Deals : Kept(e)
<1> DEFINE old == deals[d]
           deal == [old EXCEPT !.supervisorConfirmed = TRUE]
<1>1. TryFinalize(d, deal, orders[d]) /\ payments' = payments
  BY DEF ConfirmSupervisor
<1>2. orders \in [Deals -> Order] /\ deals \in [Deals -> Deal]
  BY DEF IInv, RestOK
<1>3. orders[d] \in Order /\ old \in Deal /\ OrderTrue(orders[d], payments[d], old)
  BY OrderRows
<1> HIDE DEF old
<1>4. /\ deal \in Deal /\ deal.items = old.items /\ deal.totalAmount = old.totalAmount
      /\ deal.completed = old.completed /\ deal.supervisorConfirmed = TRUE
      /\ deal.installationCompleted = old.installationCompleted
      /\ deal.installationRequired = old.installationRequired
  <2>1. deal \in Deal
    BY <1>3 DEF Deal
  <2> QED BY <1>3, <2>1 DEF Deal
<1> HIDE DEF deal
<1>5. OrderTrue(orders[d], payments[d], deal)
  <2>1. orders[d].status # "NONE" => PaymentTrue(orders[d], payments[d], deal)
    BY <1>3, <1>4 DEF OrderTrue, PaymentTrue
  <2>2. orders[d].status # "NONE" => ShipmentTrue(orders[d], deal)
    BY <1>3, <1>4 DEF OrderTrue, ShipmentTrue, Full
  <2>3. CompletionTrue(orders[d], deal)
    BY <1>3, <1>4 DEF OrderTrue, CompletionTrue, Full
  <2> QED BY <1>3, <2>1, <2>2, <2>3 DEF OrderTrue
<1>6. Kept(d)
  BY <1>1, <1>2, <1>3, <1>4, <1>5, FinalizeKept
<1>7. ASSUME NEW e \in Deals, e # d PROVE Kept(e)
  <2>1. orders'[e] = orders[e] /\ payments'[e] = payments[e] /\ deals'[e] = deals[e]
    BY <1>1, <1>2, <1>7 DEF TryFinalize
  <2> QED BY <2>1, OrderRows, SameKept
<1> QED BY <1>6, <1>7

LEMMA ChangeStageKept ==
  ASSUME ConstantsAssumption, IInv, OrdersTrue, NEW d \in Deals, NEW stage,
         ChangeStage(d, stage)
  PROVE  \A e \in Deals : Kept(e)
<1> SUFFICES ASSUME NEW e \in Deals PROVE Kept(e)
  OBVIOUS
<1> DEFINE old == deals[e]
           deal == IF e = d THEN [old EXCEPT !.stage = stage] ELSE old
<1>1. orders' = orders /\ payments' = payments /\ deals'[e] = deal
  BY DEF ChangeStage, IInv, RestOK
<1>2. /\ orders[e] \in Order /\ orders[e].status \in OrderStatuses
      /\ old \in Deal /\ OrderTrue(orders[e], payments[e], old)
  BY OrderRows
<1> HIDE DEF old
<1>3. /\ deal.items = old.items /\ deal.totalAmount = old.totalAmount
      /\ deal.completed = old.completed /\ deal.supervisorConfirmed = old.supervisorConfirmed
      /\ deal.installationCompleted = old.installationCompleted
      /\ deal.installationRequired = old.installationRequired
  BY <1>2 DEF Deal
<1> HIDE DEF deal
<1>4. OrderTrue(orders[e], payments[e], deal)
  <2>1. orders[e].status # "NONE" => PaymentTrue(orders[e], payments[e], deal)
    BY <1>2, <1>3 DEF OrderTrue, PaymentTrue
  <2>2. orders[e].status # "NONE" => ShipmentTrue(orders[e], deal)
    BY <1>2, <1>3 DEF OrderTrue, ShipmentTrue, Full
  <2>3. CompletionTrue(orders[e], deal)
    BY <1>2, <1>3 DEF OrderTrue, CompletionTrue, Full
  <2> QED BY <1>2, <2>1, <2>2, <2>3 DEF OrderTrue
<1>5. orders[e].status \in LaterStatuses(orders[e].status)
  BY <1>2 DEF LaterStatuses, OrderStatuses
<1> QED BY <1>1, <1>4, <1>5 DEF Kept

\* A receipt that served an order which no longer waited sets goods aside for
\* it and says so in its history.
LEMMA ServedTrue ==
  ASSUME NEW order, NEW new, NEW rows, NEW deal,
         OrderTrue(order, rows, deal), order.status # "NONE",
         new.delivered = order.delivered, new.paidAmount = order.paidAmount,
         new.remainingAmount = order.remainingAmount,
         new.paymentStatus = order.paymentStatus, order.late => new.late,
         \/ new.status = order.status
         \/ /\ new.status = "WAITING_PAYMENT"
            /\ order.status = "WAITING_STOCK" \/ new.late
  PROVE  OrderTrue(new, rows, deal)
<1>1. PaymentTrue(order, rows, deal) /\ ShipmentTrue(order, deal) /\ CompletionTrue(order, deal)
  BY DEF OrderTrue
<1>2. PaymentTrue(new, rows, deal)
  BY <1>1 DEF PaymentTrue
<1>3. ShipmentTrue(new, deal)
  BY <1>1 DEF ShipmentTrue, Full, Nothing, WaitingStatuses
<1>4. CompletionTrue(new, deal)
  BY <1>1 DEF CompletionTrue, Full
<1>5. BlankTrue(new, rows)
  BY DEF BlankTrue
<1> QED BY <1>2, <1>3, <1>4, <1>5 DEF OrderTrue

\* A receipt that has listed the order sets all its goods aside.
ServedAgain(d) ==
  /\ \E r \in Receipts : d \in passes[r].batch /\ receipts'[r].events # receipts[r].events
  /\ orders'[d].status = "WAITING_PAYMENT"
  /\ \A p \in Products : Held(d, p)' = Held(d, p) + deals[d].items[p]

KeptOrServed(d) ==
  /\ OrderTrue(orders'[d], payments'[d], deals'[d])
  /\ orders'[d].status \in LaterStatuses(orders[d].status) \/ ServedAgain(d)

LEMMA ReceiptKept ==
  ASSUME ConstantsAssumption, IInv, OrdersTrue, NEW r \in Receipts, NEW key, NEW accepted,
         ProcessReceipt(r, key, accepted)
  PROVE  \A e \in Deals : KeptOrServed(e)
<1> SUFFICES ASSUME NEW e \in Deals PROVE KeptOrServed(e)
  OBVIOUS
<1> DEFINE batch == passes[r].batch
<1>1. PICK taken \in [Deals -> SUBSET Products] :
        /\ reservations' = ReserveRows(taken)
        /\ orders' = [d \in Deals |->
             IF d \in batch THEN ServedOrder(d, taken[d]) ELSE orders[d]]
  BY DEF ProcessReceipt
<1>2. /\ payments' = payments /\ deals' = deals
      /\ receipts' = [receipts EXCEPT
           ![r].received = [p \in Products |-> receipts[r].received[p] + accepted[p]],
           ![r].status = calculateReceiptStatus(receipts[r].ordered,
                           [p \in Products |-> receipts[r].received[p] + accepted[p]]),
           ![r].events = Append(@, [key |-> key, accepted |-> accepted])]
  BY DEF ProcessReceipt
<1>3. CASE e \notin batch
  <2>1. orders'[e] = orders[e] /\ payments'[e] = payments[e] /\ deals'[e] = deals[e]
    BY <1>1, <1>2, <1>3
  <2>2. Kept(e)
    BY <2>1, OrderRows, SameKept
  <2> QED BY <2>2 DEF Kept, KeptOrServed
<1>4. CASE e \in batch
  <2> DEFINE old == orders[e]
             items == deals[e].items
             all == taken[e] = Wanted(e)
             late == old.late \/ (taken[e] # {} /\ old.status # "WAITING_STOCK")
             new == Served(old, items, all, late)
  <2>1. /\ old \in Order /\ items \in Lines /\ old.status \in OrderStatuses
        /\ OrderTrue(old, payments[e], deals[e])
    BY OrderRows
  <2>2. old.status # "NONE"
    BY <1>4 DEF IInv, RestOK, ListsTrue, Created
  <2>3. orders'[e] = new
    BY <1>1, <1>4 DEF ServedOrder, Served
  <2>4. Wanted(e) # {}
    BY <2>1, <2>2 DEF OrderTrue, ShipmentTrue, Wanted
  <2>5. all => taken[e] # {}
    BY <2>4
  <2>6. all \in BOOLEAN /\ late \in BOOLEAN
    BY <2>1 DEF Order
  <2>7. all => old.status = "WAITING_STOCK" \/ late
    BY <2>5
  <2>8. old.late => late
    OBVIOUS
  <2> HIDE DEF old, items, all, late
  <2>9. /\ new.status = IF all THEN "WAITING_PAYMENT" ELSE old.status
        /\ new.delivered = old.delivered /\ new.paidAmount = old.paidAmount
        /\ new.remainingAmount = old.remainingAmount
        /\ new.paymentStatus = old.paymentStatus /\ new.late = late
    <3>1. new.status = IF all THEN "WAITING_PAYMENT" ELSE old.status
      BY <2>1, <2>6, ServedFields
    <3>2. /\ new.delivered = old.delivered /\ new.paidAmount = old.paidAmount
          /\ new.remainingAmount = old.remainingAmount
          /\ new.paymentStatus = old.paymentStatus /\ new.late = late
      BY <2>1 DEF Served, Order
    <3> QED BY <3>1, <3>2
  <2> HIDE DEF new
  <2>10. OrderTrue(orders'[e], payments'[e], deals'[e])
    <3>1. OrderTrue(new, payments[e], deals[e])
      BY <2>1, <2>2, <2>7, <2>8, <2>9, ServedTrue
    <3> QED BY <1>2, <2>3, <3>1
  <2>11. CASE ~all
    <3>1. orders'[e].status \in LaterStatuses(orders[e].status)
      BY <2>1, <2>3, <2>9, <2>11 DEF LaterStatuses, OrderStatuses, old
    <3> QED BY <2>10, <3>1 DEF KeptOrServed
  <2>12. CASE all
    <3>1. orders'[e].status = "WAITING_PAYMENT"
      BY <2>3, <2>9, <2>12
    <3>2. receipts'[r].events # receipts[r].events
      <4>1. /\ receipts \in [Receipts -> Receipt]
            /\ receipts[r].events \in Seq([key : ReceiptKeys \cup {NoKey}, accepted : Lines])
        BY DEF IInv, RestOK, Receipt
      <4>2. receipts'[r].events = Append(receipts[r].events, [key |-> key, accepted |-> accepted])
        BY <1>2, <4>1 DEF Receipt
      <4> QED BY <4>1, <4>2
    <3>3. ASSUME NEW p \in Products
          PROVE  Held(e, p)' = Held(e, p) + deals[e].items[p]
      <4>1. /\ deals \in [Deals -> Deal] /\ reservations \in Reservations
        BY DEF IInv, RestOK, StockOK
      <4>2. HeldOf(ReserveRows(taken)[e][p])
              = HeldOf(reservations[e][p]) + TakenTable(taken, p)[e]
        BY <4>1, TotalOfReserved
      <4>3. TakenTable(taken, p)[e] = deals[e].items[p]
        <5>1. p \in taken[e] <=> deals[e].items[p] > 0
          BY <2>12 DEF all, Wanted
        <5>2. deals[e].items[p] \in Nat
          BY OrderRows DEF Lines
        <5> QED BY <5>1, <5>2 DEF TakenTable
      <4> QED BY <1>1, <4>2, <4>3 DEF Held
    <3>4. ServedAgain(e)
      BY <1>4, <3>1, <3>2, <3>3 DEF ServedAgain
    <3> QED BY <2>10, <3>4 DEF KeptOrServed
  <2> QED BY <2>11, <2>12
<1> QED BY <1>3, <1>4

LEMMA TickKept ==
  ASSUME ConstantsAssumption, IInv, OrdersTrue, Tick
  PROVE  \A e \in Deals : Kept(e)
<1> SUFFICES ASSUME NEW e \in Deals PROVE Kept(e)
  OBVIOUS
<1> DEFINE old == orders[e]
<1>1. payments' = payments /\ deals' = deals /\ (orders'[e] = old \/ orders'[e] = AgedOrder(old))
  BY DEF Tick, AgedOrder
<1>2. old \in Order
  BY OrderRows
<1>3. orders'[e].status = old.status /\ SameTruth(old, orders'[e])
  <2> HIDE DEF old
  <2> QED BY <1>1, <1>2, AgedOrderFields, RewrittenSame
<1> QED BY <1>1, <1>3, OrderRows, StatusKept

-----------------------------------------------------------------------------
\* Every step.

LEMMA OrderStepKept ==
  ASSUME ConstantsAssumption, IInv, OrdersTrue, NEW d \in Deals, OrderStep(d)
  PROVE  \A e \in Deals : Kept(e)
<1>0. orders[d].status \in OrderStatuses
  BY OrderRows
<1>1. CASE CreateFromDeal(d) \/ ConvertStockOnlyQuote(d)
  <2>1. PICK taken : CreateOrder(d, taken)
    BY <1>1 DEF CreateFromDeal, ConvertStockOnlyQuote
  <2>2. orders[d].status = "NONE" /\ Wanted(d) # {}
    BY <1>1 DEF CreateFromDeal, ConvertStockOnlyQuote
  <2> QED BY <2>1, <2>2, CreateOrderKept
<1>2. CASE CancelOrder(d)
  <2>1. orders[d].status \in WaitingStatuses
    BY <1>0, <1>2 DEF CancelOrder, OrderStatuses, TerminalStatuses, FinalStatuses, WaitingStatuses
  <2> QED BY <1>2, <2>1, CloseKept DEF CancelOrder
<1>3. CASE CancelExpiredWaitingPayment(d)
  <2>1. orders[d].status \in WaitingStatuses
    BY <1>3 DEF CancelExpiredWaitingPayment, WaitingStatuses
  <2> QED BY <1>3, <2>1, CloseKept DEF CancelExpiredWaitingPayment
<1>4. CASE \E p \in Products : HandleExpired(d, p)
  BY <1>4, ExpireKept
<1>5. CASE AddPayment(d)
  BY <1>5, AddPaymentKept
<1>6. CASE \E k \in DOMAIN payments[d], verdict \in {"CONFIRMED", "REJECTED"} :
             ConfirmPayment(d, k, verdict)
  BY <1>6, ConfirmPaymentKept
<1>7. CASE \E quantity \in Parts(deals[d].items) : CreateDelivery(d, quantity)
  BY <1>7, DeliveryKept
<1>8. CASE ConfirmSupervisor(d)
  BY <1>8, ConfirmSupervisorKept
<1>9. CASE \E stage \in {"OPEN", "WON", "LOST"} : ChangeStage(d, stage)
  BY <1>9, ChangeStageKept
<1> QED BY <1>1, <1>2, <1>3, <1>4, <1>5, <1>6, <1>7, <1>8, <1>9 DEF OrderStep

LEMMA StepKept ==
  ASSUME ConstantsAssumption, IInv, OrdersTrue, [Next]_vars
  PROVE  \A e \in Deals : KeptOrServed(e)
<1>0. (\A e \in Deals : Kept(e)) => \A e \in Deals : KeptOrServed(e)
  BY DEF Kept, KeptOrServed
<1>1. CASE \E d \in Deals : OrderStep(d)
  BY <1>0, <1>1, OrderStepKept
<1>2. CASE \E r \in Receipts : ReceiptStep(r)
  <2>1. PICK r \in Receipts : ReceiptStep(r)
    BY <1>2
  <2>2. CASE \E key \in ReceiptKeys \cup {NoKey}, accepted \in Parts(receipts[r].ordered) :
               ProcessReceipt(r, key, accepted)
    BY <2>2, ReceiptKept
  <2>3. CASE orders' = orders /\ payments' = payments /\ deals' = deals
    BY <1>0, <2>3, OrderRows, SameKept
  <2> QED BY <2>1, <2>2, <2>3
          DEF ReceiptStep, CreateExpectedReceipt, UpdateWarehousePurchase,
              CancelWarehousePurchase, ListWaiting
<1>3. CASE Tick
  BY <1>0, <1>3, TickKept
<1>4. CASE UNCHANGED vars \/ ListExpired
  BY <1>0, <1>4, OrderRows, SameKept DEF vars, ListExpired
<1> QED BY <1>1, <1>2, <1>3, <1>4 DEF Next

LEMMA InitOrdersTrue ==
  ASSUME ConstantsAssumption, Init
  PROVE  OrdersTrue
<1> SUFFICES ASSUME NEW d \in Deals
             PROVE  OrderTrue(orders[d], payments[d], deals[d])
  BY DEF OrdersTrue
<1>1. orders[d] = NoOrder /\ payments[d] = <<>>
  BY DEF Init
<1>2. ~ deals[d].completed /\ ~ deals[d].installationCompleted
  BY DEF Init
<1>3. NoOrder.status = "NONE" /\ NoOrder.delivered = NoLines /\ NoOrder.paymentStatus = "UNPAID"
  BY DEF NoOrder
<1>4. CompletionTrue(orders[d], deals[d])
  BY <1>1, <1>2, <1>3 DEF CompletionTrue
<1>5. BlankTrue(orders[d], payments[d])
  BY <1>1, <1>3 DEF BlankTrue, Nothing, NoLines
<1> QED BY <1>1, <1>3, <1>4, <1>5 DEF OrderTrue

\* The invariant of this module: the ledger's, and what is true of orders.
OInv == IInv /\ OrdersTrue

LEMMA InitOInv == ASSUME ConstantsAssumption, Init PROVE OInv
BY InitIInv, InitOrdersTrue DEF OInv

LEMMA StepOInv ==
  ASSUME ConstantsAssumption, OInv, [Next]_vars
  PROVE  OInv'
<1>1. IInv'
  BY StepIInv DEF OInv
<1>2. \A d \in Deals : KeptOrServed(d)
  BY StepKept DEF OInv
<1>3. OrdersTrue'
  BY <1>2 DEF OrdersTrue, KeptOrServed
<1> QED BY <1>1, <1>3 DEF OInv

\* An order's row tells the truth about what was paid and what was shipped,
\* whatever users, both cron jobs and receipts did to it.
THEOREM OrdersFaithful == Spec => []OrderFaithful
<1>1. Init => OInv
  BY ConstantsAssumption, InitOInv
<1>2. OInv /\ [Next]_vars => OInv'
  BY ConstantsAssumption, StepOInv
<1>3. OInv => OrderFaithful
  BY OrdersTrueImplies DEF OInv
<1> QED BY <1>1, <1>2, <1>3, PTL DEF Spec

\* A completed deal is paid, delivered and, where required, installed; an order
\* is completed together with its deal, and stays so until a receipt that had
\* listed it overwrites it.
THEOREM CompletedAreSettled == Spec => []CompletedMeansSettled
<1>1. Init => OInv
  BY ConstantsAssumption, InitOInv
<1>2. OInv /\ [Next]_vars => OInv'
  BY ConstantsAssumption, StepOInv
<1>3. OInv => CompletedMeansSettled
  BY OrdersTrueImplies DEF OInv
<1> QED BY <1>1, <1>2, <1>3, PTL DEF Spec

\* The one step that takes an order out of a final status, or back to waiting
\* after something of it was shipped, is a receipt that had listed the order
\* before; and that step sets all goods of the order aside anew.
THEOREM FinalityKept == Spec => FinalStaysFinal
<1> DEFINE Final == \A d \in Deals :
             \/ orders'[d].status \in LaterStatuses(orders[d].status)
             \/ ServedAgain(d)
<1>1. Init => OInv
  BY ConstantsAssumption, InitOInv
<1>2. OInv /\ [Next]_vars => OInv'
  BY ConstantsAssumption, StepOInv
<1>3. OInv /\ [Next]_vars => [Final]_vars
  BY ConstantsAssumption, StepKept DEF OInv, KeptOrServed
<1>4. Spec => [][Final]_vars
  BY <1>1, <1>2, <1>3, PTL DEF Spec
<1>5. [Final]_vars <=> [\A d \in Deals :
       \/ orders'[d].status \in LaterStatuses(orders[d].status)
       \/ /\ \E r \in Receipts : d \in passes[r].batch /\ receipts'[r].events # receipts[r].events
          /\ orders'[d].status = "WAITING_PAYMENT"
          /\ \A p \in Products : Held(d, p)' = Held(d, p) + deals[d].items[p]]_vars
  BY DEF ServedAgain
<1> QED BY <1>4, <1>5, PTL DEF FinalStaysFinal

-----------------------------------------------------------------------------
\* Purchases.

Event == [key : ReceiptKeys \cup {NoKey}, accepted : Lines]
AcceptedOf(events, p) == SumSeq([i \in DOMAIN events |-> events[i].accepted[p]])

\* What an event adds to the sum of the events, and that there is none without.
LEMMA AcceptedSum ==
  ASSUME NEW events, NEW p, events \in Seq(Event), p \in Products
  PROVE  LET f == [i \in 1..Len(events) |-> events[i].accepted[p]] IN
         /\ Len(events) \in Nat /\ DOMAIN events = 1..Len(events)
         /\ \A i \in 1..Len(events) : /\ events[i] \in Event
                                      /\ f[i] = events[i].accepted[p] /\ f[i] \in Nat
         /\ AcceptedOf(events, p) = SumUpTo(f, Len(events))
         /\ AcceptedOf(events, p) \in Nat
<1> DEFINE n == Len(events)
           f == [i \in 1..n |-> events[i].accepted[p]]
<1>1. n \in Nat /\ DOMAIN events = 1..n /\ \A i \in 1..n : events[i] \in Event
  BY LenProperties, ElementOfSeq
<1>2. \A i \in 1..n : events[i].accepted[p] \in Nat
  BY <1>1 DEF Event, Lines
<1>3. f \in [1..n -> Nat]
  BY <1>2
<1>4. Len(f) = n
  BY <1>1, <1>3, TableIsSeq
<1>5. AcceptedOf(events, p) = SumUpTo(f, n)
  BY <1>1, <1>4 DEF AcceptedOf, SumSeq
<1>6. SumUpTo(f, n) \in Nat
  <2>1. n \in 0..n /\ \A i \in 1..n : f[i] \in Nat
    BY <1>1, <1>2
  <2> HIDE DEF f, n
  <2> QED BY <1>1, <2>1, SumNat
<1> QED BY <1>1, <1>2, <1>5, <1>6

LEMMA AcceptedNone == \A p \in Products : AcceptedOf(<<>>, p) = 0
<1> SUFFICES ASSUME NEW p \in Products PROVE AcceptedOf(<<>>, p) = 0
  OBVIOUS
<1>1. <<>> \in Seq(Event) /\ Len(<<>>) = 0
  BY EmptySeq
<1>2. AcceptedOf(<<>>, p) = SumUpTo([i \in 1..0 |-> <<>>[i].accepted[p]], 0)
  BY <1>1, AcceptedSum
<1> QED BY <1>2, SumZeros

LEMMA AcceptedAppend ==
  ASSUME NEW events, NEW event, NEW p, events \in Seq(Event), event \in Event, p \in Products
  PROVE  AcceptedOf(Append(events, event), p) = AcceptedOf(events, p) + event.accepted[p]
<1> DEFINE longer == Append(events, event)
           n == Len(events)
           f == [i \in 1..n |-> events[i].accepted[p]]
           g == [i \in 1..(n + 1) |-> longer[i].accepted[p]]
<1>1. /\ n \in Nat /\ AcceptedOf(events, p) = SumUpTo(f, n)
      /\ \A i \in 1..n : f[i] = events[i].accepted[p] /\ f[i] \in Nat
      /\ AcceptedOf(events, p) \in Nat
  BY AcceptedSum
<1>2. /\ longer \in Seq(Event) /\ Len(longer) = n + 1
      /\ \A i \in 1..n : longer[i] = events[i]
      /\ longer[n + 1] = event
  BY LenProperties
<1>3. /\ AcceptedOf(longer, p) = SumUpTo(g, n + 1)
      /\ \A i \in 1..(n + 1) : g[i] = longer[i].accepted[p] /\ g[i] \in Nat
  <2> HIDE DEF longer
  <2> QED BY <1>2, AcceptedSum
<1> HIDE DEF longer, n, f, g
<1>4. g[n + 1] = event.accepted[p]
  BY <1>1, <1>2, <1>3
<1>5. SumUpTo(g, n + 1) = SumUpTo(g, n) + g[n + 1]
  <2>1. n \in Nat /\ (n + 1) \in Nat /\ \A i \in 1..(n + 1) : g[i] \in Int
    BY <1>1, <1>3
  <2>2. SumUpTo(g, n + 1) = SumUpTo(g, (n + 1) - 1) + g[n + 1]
    BY <2>1, SumStep
  <2> QED BY <2>1, <2>2
<1>6. SumUpTo(g, n) = SumUpTo(f, n)
  <2>1. n \in Nat /\ \A i \in 1..n : f[i] \in Int /\ g[i] = f[i]
    BY <1>1, <1>2, <1>3
  <2> QED BY <2>1, SumSame
<1> QED BY <1>1, <1>3, <1>4, <1>5, <1>6 DEF longer

\* Each event brought something in, so a purchase that received nothing has none.
EventsTrue(receipt) ==
  /\ \A i \in DOMAIN receipt.events : \E p \in Products : receipt.events[i].accepted[p] > 0
  /\ \A i, j \in DOMAIN receipt.events :
       receipt.events[i].key = receipt.events[j].key /\ receipt.events[i].key # NoKey => i = j
  /\ receipt.status \in {"NONE", "CANCELLED"} => receipt.events = <<>>

QuantitiesTrue(receipt) ==
  /\ \A p \in Products : /\ receipt.received[p] = AcceptedOf(receipt.events, p)
                         /\ receipt.received[p] <= receipt.ordered[p]
  /\ receipt.status \notin {"NONE", "CANCELLED"} =>
       receipt.status = calculateReceiptStatus(receipt.ordered, receipt.received)

ReceiptTrue(receipt) == EventsTrue(receipt) /\ QuantitiesTrue(receipt)

ReceiptsTrue == \A r \in Receipts : ReceiptTrue(receipts[r])

LEMMA ReceiptsTrueImplies == ReceiptsTrue => ReceiptsFaithful
BY DEF ReceiptsTrue, ReceiptTrue, EventsTrue, QuantitiesTrue, ReceiptsFaithful, AcceptedOf

\* Nothing received means no event.
LEMMA NothingReceived ==
  ASSUME NEW receipt \in Receipt, ReceiptTrue(receipt),
         \A p \in Products : receipt.received[p] = 0
  PROVE  receipt.events = <<>>
<1> DEFINE events == receipt.events
<1>1. events \in Seq(Event)
  BY DEF Receipt, Event
<1>2. \A p \in Products : AcceptedOf(events, p) = 0
  BY DEF ReceiptTrue, QuantitiesTrue
<1>3. \A i \in DOMAIN events : \E p \in Products : events[i].accepted[p] > 0
  BY DEF ReceiptTrue, EventsTrue
<1> HIDE DEF events
<1>4. Len(events) \in Nat /\ DOMAIN events = 1..Len(events)
  BY <1>1, LenProperties
<1>5. SUFFICES ASSUME Len(events) # 0 PROVE FALSE
  BY <1>1, <1>4, EmptySeq, IsASeq DEF events
<1>6. 1 \in 1..Len(events)
  BY <1>4, <1>5
<1>7. PICK p \in Products : events[1].accepted[p] > 0
  BY <1>3, <1>4, <1>6
<1> DEFINE n == Len(events)
           f == [i \in 1..n |-> events[i].accepted[p]]
<1>8. /\ n \in Nat /\ 1 \in 1..n /\ AcceptedOf(events, p) = SumUpTo(f, n)
      /\ \A i \in 1..n : f[i] \in Nat
      /\ f[1] > 0
  <2>1. f[1] = events[1].accepted[p]
    BY <1>6
  <2> QED BY <1>1, <1>4, <1>6, <1>7, <2>1, AcceptedSum
<1> HIDE DEF n, f
<1>9. f[1] <= SumUpTo(f, n) /\ SumUpTo(f, n) \in Nat
  <2>1. n \in Nat /\ 1 \in 1..n /\ n \in 0..n
    BY <1>8
  <2>2. \A i \in 1..n : f[i] \in Nat
    BY <1>8
  <2>3. f[1] <= SumUpTo(f, n)
    BY <2>1, <2>2, SumMember
  <2>4. SumUpTo(f, n) \in Nat
    BY <2>1, <2>2, SumNat
  <2> QED BY <2>3, <2>4
<1> QED BY <1>2, <1>8, <1>9

\* A purchase is created, changed or cancelled.
LEMMA PurchaseTrue ==
  ASSUME ConstantsAssumption, IInv, ReceiptsTrue, NEW r \in Receipts,
         \/ CreateExpectedReceipt(r)
         \/ UpdateWarehousePurchase(r)
         \/ CancelWarehousePurchase(r)
  PROVE  /\ ReceiptsTrue'
         /\ \A s \in Receipts : /\ receipts'[s].received = receipts[s].received
                                /\ receipts'[s].events = receipts[s].events
<1> DEFINE old == receipts[r]
           new == receipts'[r]
<1>1. /\ receipts \in [Receipts -> Receipt] /\ receipts' \in [Receipts -> Receipt]
      /\ receipts' = [receipts EXCEPT ![r] = new]
  <2>1. receipts \in [Receipts -> Receipt]
    BY DEF IInv, RestOK
  <2>2. receipts' \in [Receipts -> Receipt]
    BY PurchaseStepIInv DEF IInv, RestOK
  <2>3. \A s \in Receipts : s # r => receipts'[s] = receipts[s]
    BY <2>1 DEF CreateExpectedReceipt, UpdateWarehousePurchase, CancelWarehousePurchase
  <2> QED BY <2>1, <2>2, <2>3
<1>2. old \in Receipt /\ new \in Receipt /\ ReceiptTrue(old)
  BY <1>1 DEF ReceiptsTrue
<1>3. /\ new.received = old.received /\ new.events = old.events
      /\ \/ /\ old.status = "NONE" /\ new.status = "PENDING"
            /\ new.ordered \in PurchaseBaskets /\ new.ordered # NoLines
         \/ /\ old.status \notin {"NONE", "CANCELLED"}
            /\ \A p \in Products : new.ordered[p] >= old.received[p]
            /\ new.status = calculateReceiptStatus(new.ordered, old.received)
         \/ /\ old.status \notin {"NONE", "CANCELLED"} /\ new.status = "CANCELLED"
            /\ \A p \in Products : old.received[p] = 0
            /\ new.ordered = old.ordered
  <2>1. CASE CreateExpectedReceipt(r)
    <3>1. PICK ordered \in PurchaseBaskets :
            /\ ordered # NoLines
            /\ receipts' = [receipts EXCEPT ![r].status = "PENDING", ![r].ordered = ordered]
      BY <2>1 DEF CreateExpectedReceipt
    <3>2. new = [old EXCEPT !.status = "PENDING", !.ordered = ordered] /\ old.status = "NONE"
      BY <1>1, <2>1, <3>1 DEF CreateExpectedReceipt
    <3> HIDE DEF old, new
    <3>3. /\ new.status = "PENDING" /\ new.ordered = ordered
          /\ new.received = old.received /\ new.events = old.events
      BY <1>2, <3>2 DEF Receipt
    <3> QED BY <3>1, <3>2, <3>3
  <2>2. CASE UpdateWarehousePurchase(r)
    <3>1. PICK ordered \in PurchaseBaskets :
            /\ \A p \in Products : ordered[p] >= old.received[p]
            /\ receipts' = [receipts EXCEPT
                 ![r].ordered = ordered,
                 ![r].status = calculateReceiptStatus(ordered, receipts[r].received)]
      BY <2>2 DEF UpdateWarehousePurchase
    <3> DEFINE s == calculateReceiptStatus(ordered, old.received)
    <3>2. /\ new = [old EXCEPT !.ordered = ordered, !.status = s]
          /\ old.status \notin {"NONE", "CANCELLED"}
      BY <1>1, <2>2, <3>1 DEF UpdateWarehousePurchase
    <3>3. s = calculateReceiptStatus(ordered, old.received)
      OBVIOUS
    <3> HIDE DEF old, new, s
    <3>4. /\ new.status = s /\ new.ordered = ordered
          /\ new.received = old.received /\ new.events = old.events
      BY <1>2, <3>2 DEF Receipt
    <3> QED BY <3>1, <3>2, <3>3, <3>4
  <2>3. CASE CancelWarehousePurchase(r)
    BY <1>1, <2>3 DEF CancelWarehousePurchase, Receipt
  <2> QED BY <2>1, <2>2, <2>3
<1>4. \A ordered, received : calculateReceiptStatus(ordered, received) \notin {"NONE", "CANCELLED"}
  BY DEF calculateReceiptStatus
<1> HIDE DEF old, new
<1>5. ReceiptTrue(new)
  <2>1. CASE old.status = "NONE" /\ new.status = "PENDING"
             /\ new.ordered \in PurchaseBaskets /\ new.ordered # NoLines
    <3>1. new.events = <<>> /\ \A p \in Products : new.received[p] = 0
      BY <1>2, <1>3, <2>1, AcceptedNone DEF ReceiptTrue, EventsTrue, QuantitiesTrue
    <3>2. new.ordered \in [Products -> Nat]
      BY <2>1 DEF ConstantsAssumption, Lines
    <3>3. \E p \in Products : new.ordered[p] > 0
      BY <2>1, <3>2 DEF NoLines
    <3>4. calculateReceiptStatus(new.ordered, new.received) = "PENDING"
      BY <3>1, <3>2, <3>3 DEF calculateReceiptStatus
    <3>5. QuantitiesTrue(new)
      BY <2>1, <3>1, <3>2, <3>4, AcceptedNone DEF QuantitiesTrue
    <3>6. EventsTrue(new)
      BY <3>1 DEF EventsTrue
    <3> QED BY <3>5, <3>6 DEF ReceiptTrue
  <2>2. CASE /\ old.status \notin {"NONE", "CANCELLED"}
             /\ \A p \in Products : new.ordered[p] >= old.received[p]
             /\ new.status = calculateReceiptStatus(new.ordered, old.received)
    <3>1. \A p \in Products : new.received[p] <= new.ordered[p]
      <4>1. \A p \in Products : new.ordered[p] \in Nat /\ old.received[p] \in Nat
        BY <1>2 DEF Receipt, Lines
      <4> QED BY <1>3, <2>2, <4>1
    <3>2. QuantitiesTrue(new)
      BY <1>2, <1>3, <2>2, <3>1 DEF ReceiptTrue, QuantitiesTrue
    <3>3. EventsTrue(new)
      BY <1>2, <1>3, <1>4, <2>2 DEF ReceiptTrue, EventsTrue
    <3> QED BY <3>2, <3>3 DEF ReceiptTrue
  <2>3. CASE /\ old.status \notin {"NONE", "CANCELLED"} /\ new.status = "CANCELLED"
             /\ \A p \in Products : old.received[p] = 0
             /\ new.ordered = old.ordered
    <3>1. new.events = <<>>
      BY <1>2, <1>3, <2>3, NothingReceived
    <3>2. QuantitiesTrue(new)
      BY <1>2, <1>3, <2>3 DEF ReceiptTrue, QuantitiesTrue
    <3>3. EventsTrue(new)
      BY <3>1 DEF EventsTrue
    <3> QED BY <3>2, <3>3 DEF ReceiptTrue
  <2> QED BY <1>3, <2>1, <2>2, <2>3
<1>6. \A s \in Receipts : s # r => receipts'[s] = receipts[s]
  BY <1>1
<1>7. ReceiptsTrue'
  BY <1>5, <1>6 DEF ReceiptsTrue, new
<1> QED BY <1>3, <1>6, <1>7 DEF new, old

\* An event adds to its purchase what was accepted.
LEMMA EventTrue ==
  ASSUME ConstantsAssumption, IInv, ReceiptsTrue, NEW r \in Receipts, NEW key, NEW accepted,
         key \in ReceiptKeys \cup {NoKey}, accepted \in Parts(receipts[r].ordered),
         ProcessReceipt(r, key, accepted)
  PROVE  /\ ReceiptsTrue'
         /\ \A s \in Receipts : s # r => receipts'[s] = receipts[s]
         /\ \A p \in Products : receipts'[r].received[p] = receipts[r].received[p] + accepted[p]
<1> DEFINE old == receipts[r]
           received == [p \in Products |-> old.received[p] + accepted[p]]
           status == calculateReceiptStatus(old.ordered, received)
           event == [key |-> key, accepted |-> accepted]
           events == Append(old.events, event)
           new == [old EXCEPT !.received = received, !.status = status, !.events = events]
<1>1. /\ old.status \notin {"NONE", "CANCELLED"}
      /\ FreshKey(r, key)
      /\ \E p \in Products : accepted[p] > 0
      /\ \A p \in Products : received[p] <= old.ordered[p]
      /\ receipts' = [receipts EXCEPT ![r] = new]
  BY DEF ProcessReceipt
<1>2. receipts \in [Receipts -> Receipt] /\ old \in Receipt /\ ReceiptTrue(old)
  BY DEF IInv, RestOK, ReceiptsTrue
<1>3. old.events \in Seq(Event) /\ old.received \in Lines /\ old.ordered \in Lines
  BY <1>2 DEF Receipt, Event
<1>4. accepted \in Lines /\ event \in Event
  <2>1. accepted \in Lines
    BY <1>3, PartsType DEF Lines
  <2> QED BY <2>1 DEF Event
<1>5. key = NoKey \/ \A i \in DOMAIN old.events : old.events[i].key # key
  BY <1>1 DEF FreshKey
<1>6. event.key = key /\ event.accepted = accepted
  OBVIOUS
<1>7. received = [p \in Products |-> old.received[p] + accepted[p]]
  OBVIOUS
<1>8. receipts'[r] = new /\ \A s \in Receipts : s # r => receipts'[s] = receipts[s]
  BY <1>1, <1>2
<1>9. status = calculateReceiptStatus(old.ordered, received)
  OBVIOUS
<1>10. events = Append(old.events, event)
  OBVIOUS
<1> HIDE DEF old, received, status, event, events
<1>11. /\ new.received = received /\ new.status = status /\ new.events = events
       /\ new.ordered = old.ordered
  BY <1>2 DEF Receipt
<1> HIDE DEF new
<1>12. /\ Len(old.events) \in Nat /\ DOMAIN old.events = 1..Len(old.events)
       /\ DOMAIN events = 1..(Len(old.events) + 1)
       /\ \A i \in 1..Len(old.events) : events[i] = old.events[i]
       /\ events[Len(old.events) + 1] = event
  <2>1. Len(old.events) \in Nat /\ DOMAIN old.events = 1..Len(old.events)
    BY <1>3, LenProperties
  <2> QED BY <1>3, <1>4, <1>10, <2>1
<1>13. EventsTrue(new)
  <2>1. status \notin {"NONE", "CANCELLED"}
    BY <1>9 DEF calculateReceiptStatus
  <2>2. EventsTrue(old)
    BY <1>2 DEF ReceiptTrue
  <2>3. \A i \in DOMAIN events : \E p \in Products : events[i].accepted[p] > 0
    BY <1>1, <1>6, <1>12, <2>2 DEF EventsTrue
  <2>4. \A i, j \in DOMAIN events :
          events[i].key = events[j].key /\ events[i].key # NoKey => i = j
    <3> DEFINE n == Len(old.events)
    <3> SUFFICES ASSUME NEW i \in DOMAIN events, NEW j \in DOMAIN events,
                        events[i].key = events[j].key, events[i].key # NoKey
                 PROVE  i = j
      OBVIOUS
    <3>1. (i \in 1..n \/ i = n + 1) /\ (j \in 1..n \/ j = n + 1)
      BY <1>12
    <3>2. CASE i \in 1..n /\ j \in 1..n
      BY <1>12, <2>2, <3>2 DEF EventsTrue
    <3>3. CASE i = n + 1 /\ j \in 1..n
      BY <1>5, <1>6, <1>12, <3>3
    <3>4. CASE i \in 1..n /\ j = n + 1
      BY <1>5, <1>6, <1>12, <3>4
    <3> QED BY <3>1, <3>2, <3>3, <3>4
  <2> QED BY <1>11, <2>1, <2>3, <2>4 DEF EventsTrue
<1>14. QuantitiesTrue(new)
  <2>1. ASSUME NEW p \in Products PROVE received[p] = AcceptedOf(events, p)
    <3>1. AcceptedOf(events, p) = AcceptedOf(old.events, p) + accepted[p]
      BY <1>3, <1>4, <1>6, <1>10, AcceptedAppend
    <3> QED BY <1>2, <1>7, <3>1 DEF ReceiptTrue, QuantitiesTrue
  <2> QED BY <1>1, <1>9, <1>11, <2>1 DEF QuantitiesTrue
<1>15. ReceiptsTrue'
  BY <1>8, <1>13, <1>14 DEF ReceiptsTrue, ReceiptTrue
<1> QED BY <1>7, <1>8, <1>11, <1>15 DEF old

-----------------------------------------------------------------------------
\* The goods themselves: on hand, with the clients, or not yet received.

DeliveredOf(os, p) == SumUpTo([d \in Deals |-> os[d].delivered[p]], NumDeals)
ReceivedOf(rs, p) == SumUpTo([r \in Receipts |-> rs[r].received[p]], NumReceipts)

DeliveredSame(p) == \A e \in Deals : orders'[e].delivered[p] = orders[e].delivered[p]
ReceivedSame(p) == \A s \in Receipts : receipts'[s].received[p] = receipts[s].received[p]

\* What a step may do to the goods of product p: nothing, ship some of what is
\* on hand for one order, or bring some in with one purchase.
GoodsMove(p) ==
  \/ /\ balance'[p].onHand = balance[p].onHand
     /\ DeliveredSame(p) /\ ReceivedSame(p)
  \/ \E d \in Deals, q \in Nat :
       /\ balance'[p].onHand = balance[p].onHand - q
       /\ orders'[d].delivered[p] = orders[d].delivered[p] + q
       /\ \A e \in Deals : e # d => orders'[e].delivered[p] = orders[e].delivered[p]
       /\ ReceivedSame(p)
  \/ \E r \in Receipts, q \in Nat :
       /\ balance'[p].onHand = balance[p].onHand + q
       /\ receipts'[r].received[p] = receipts[r].received[p] + q
       /\ \A s \in Receipts : s # r => receipts'[s].received[p] = receipts[s].received[p]
       /\ DeliveredSame(p)

Conserved(bal, os, rs, p) ==
  bal[p].onHand + DeliveredOf(os, p) = InitialStock[p] + ReceivedOf(rs, p)

\* Two tables of numbers that differ in one row at most.
LEMMA TableMoved ==
  ASSUME NEW n, n \in Nat, NEW f, NEW g, \A i \in 1..n : f[i] \in Nat /\ g[i] \in Nat
  PROVE  /\ SumUpTo(f, n) \in Nat /\ SumUpTo(g, n) \in Nat
         /\ (\A i \in 1..n : g[i] = f[i]) => SumUpTo(g, n) = SumUpTo(f, n)
         /\ \A j \in 1..n, q \in Nat :
              g[j] = f[j] + q /\ (\A i \in 1..n : i # j => g[i] = f[i])
                => SumUpTo(g, n) = SumUpTo(f, n) + q
<1>1. n \in 0..n /\ (\A i \in 1..n : f[i] \in Nat) /\ (\A i \in 1..n : g[i] \in Nat)
  OBVIOUS
<1>2. SumUpTo(f, n) \in Nat /\ SumUpTo(g, n) \in Nat
  BY <1>1, SumNat
<1>3. ASSUME \A i \in 1..n : g[i] = f[i]
      PROVE  SumUpTo(g, n) = SumUpTo(f, n)
  <2>1. \A i \in 1..n : f[i] \in Int /\ g[i] = f[i]
    BY <1>3
  <2> QED BY <2>1, SumSame
<1>4. ASSUME NEW j \in 1..n, NEW q \in Nat, g[j] = f[j] + q,
             \A i \in 1..n : i # j => g[i] = f[i]
      PROVE  SumUpTo(g, n) = SumUpTo(f, n) + q
  <2>1. \A i \in 1..n : f[i] \in Int /\ g[i] \in Int
    OBVIOUS
  <2>2. SumUpTo(g, n) = SumUpTo(f, n) - f[j] + g[j]
    BY <1>4, <2>1, SumPoint
  <2>3. f[j] \in Nat
    OBVIOUS
  <2> QED BY <1>2, <1>4, <2>2, <2>3
<1> QED BY <1>2, <1>3, <1>4

LEMMA DeliveredMoved ==
  ASSUME ConstantsAssumption, NEW os \in [Deals -> Order], NEW ns \in [Deals -> Order],
         NEW p \in Products
  PROVE  /\ DeliveredOf(os, p) \in Nat /\ DeliveredOf(ns, p) \in Nat
         /\ (\A e \in Deals : ns[e].delivered[p] = os[e].delivered[p]) =>
              DeliveredOf(ns, p) = DeliveredOf(os, p)
         /\ \A d \in Deals, q \in Nat :
              /\ ns[d].delivered[p] = os[d].delivered[p] + q
              /\ \A e \in Deals : e # d => ns[e].delivered[p] = os[e].delivered[p]
              => DeliveredOf(ns, p) = DeliveredOf(os, p) + q
<1> DEFINE f == [d \in Deals |-> os[d].delivered[p]]
           g == [d \in Deals |-> ns[d].delivered[p]]
<1>1. Deals = 1..NumDeals /\ NumDeals \in Nat
  BY DEF Deals, ConstantsAssumption
<1>2. \A d \in Deals : /\ f[d] = os[d].delivered[p] /\ g[d] = ns[d].delivered[p]
                       /\ f[d] \in Nat /\ g[d] \in Nat
  BY DEF Order, Lines
<1>3. DeliveredOf(os, p) = SumUpTo(f, NumDeals) /\ DeliveredOf(ns, p) = SumUpTo(g, NumDeals)
  BY DEF DeliveredOf
<1> HIDE DEF f, g
<1>a. \A i \in 1..NumDeals : f[i] \in Nat /\ g[i] \in Nat
  BY <1>1, <1>2
<1>b. NumDeals \in Nat
  BY <1>1
<1>4. /\ SumUpTo(f, NumDeals) \in Nat /\ SumUpTo(g, NumDeals) \in Nat
      /\ (\A i \in 1..NumDeals : g[i] = f[i]) => SumUpTo(g, NumDeals) = SumUpTo(f, NumDeals)
      /\ \A j \in 1..NumDeals, q \in Nat :
           g[j] = f[j] + q /\ (\A i \in 1..NumDeals : i # j => g[i] = f[i])
             => SumUpTo(g, NumDeals) = SumUpTo(f, NumDeals) + q
  BY ONLY <1>a, <1>b, TableMoved
<1> QED BY <1>1, <1>2, <1>3, <1>4

LEMMA ReceivedMoved ==
  ASSUME ConstantsAssumption, NEW os \in [Receipts -> Receipt],
         NEW ns \in [Receipts -> Receipt], NEW p \in Products
  PROVE  /\ ReceivedOf(os, p) \in Nat /\ ReceivedOf(ns, p) \in Nat
         /\ (\A e \in Receipts : ns[e].received[p] = os[e].received[p]) =>
              ReceivedOf(ns, p) = ReceivedOf(os, p)
         /\ \A d \in Receipts, q \in Nat :
              /\ ns[d].received[p] = os[d].received[p] + q
              /\ \A e \in Receipts : e # d => ns[e].received[p] = os[e].received[p]
              => ReceivedOf(ns, p) = ReceivedOf(os, p) + q
<1> DEFINE f == [d \in Receipts |-> os[d].received[p]]
           g == [d \in Receipts |-> ns[d].received[p]]
<1>1. Receipts = 1..NumReceipts /\ NumReceipts \in Nat
  BY DEF Receipts, ConstantsAssumption
<1>2. \A d \in Receipts : /\ f[d] = os[d].received[p] /\ g[d] = ns[d].received[p]
                          /\ f[d] \in Nat /\ g[d] \in Nat
  BY DEF Receipt, Lines
<1>3. /\ ReceivedOf(os, p) = SumUpTo(f, NumReceipts)
      /\ ReceivedOf(ns, p) = SumUpTo(g, NumReceipts)
  BY DEF ReceivedOf
<1> HIDE DEF f, g
<1>a. \A i \in 1..NumReceipts : f[i] \in Nat /\ g[i] \in Nat
  BY <1>1, <1>2
<1>b. NumReceipts \in Nat
  BY <1>1
<1>4. /\ SumUpTo(f, NumReceipts) \in Nat /\ SumUpTo(g, NumReceipts) \in Nat
      /\ (\A i \in 1..NumReceipts : g[i] = f[i])
           => SumUpTo(g, NumReceipts) = SumUpTo(f, NumReceipts)
      /\ \A j \in 1..NumReceipts, q \in Nat :
           g[j] = f[j] + q /\ (\A i \in 1..NumReceipts : i # j => g[i] = f[i])
             => SumUpTo(g, NumReceipts) = SumUpTo(f, NumReceipts) + q
  BY ONLY <1>a, <1>b, TableMoved
<1> QED BY <1>1, <1>2, <1>3, <1>4

\* No such move changes what there is in all.
LEMMA MoveConserves ==
  ASSUME ConstantsAssumption, NEW p \in Products, GoodsMove(p),
         orders \in [Deals -> Order], orders' \in [Deals -> Order],
         receipts \in [Receipts -> Receipt], receipts' \in [Receipts -> Receipt],
         balance \in [Products -> Balance], balance' \in [Products -> Balance],
         Conserved(balance, orders, receipts, p)
  PROVE  Conserved(balance', orders', receipts', p)
<1> DEFINE h == balance[p].onHand
           hh == balance'[p].onHand
           dl == DeliveredOf(orders, p)
           dd == DeliveredOf(orders', p)
           rc == ReceivedOf(receipts, p)
           rr == ReceivedOf(receipts', p)
           in == InitialStock[p]
<1>1. h \in Nat /\ hh \in Nat /\ in \in Nat
  BY DEF Balance, ConstantsAssumption, Lines
<1>2. /\ dl \in Nat /\ dd \in Nat
      /\ DeliveredSame(p) => dd = dl
      /\ \A d \in Deals, q \in Nat :
           /\ orders'[d].delivered[p] = orders[d].delivered[p] + q
           /\ \A e \in Deals : e # d => orders'[e].delivered[p] = orders[e].delivered[p]
           => dd = dl + q
  BY DeliveredMoved DEF DeliveredSame
<1>3. /\ rc \in Nat /\ rr \in Nat
      /\ ReceivedSame(p) => rr = rc
      /\ \A d \in Receipts, q \in Nat :
           /\ receipts'[d].received[p] = receipts[d].received[p] + q
           /\ \A e \in Receipts : e # d => receipts'[e].received[p] = receipts[e].received[p]
           => rr = rc + q
  BY ReceivedMoved DEF ReceivedSame
<1>4. \/ hh = h /\ dd = dl /\ rr = rc
      \/ \E q \in Nat : hh = h - q /\ dd = dl + q /\ rr = rc
      \/ \E q \in Nat : hh = h + q /\ dd = dl /\ rr = rc + q
  <2> HIDE DEF dl, dd, rc, rr
  <2> QED BY <1>2, <1>3 DEF GoodsMove
<1>5. h + dl = in + rc
  BY DEF Conserved
<1>6. hh + dd = in + rr
  <2> HIDE DEF h, hh, dl, dd, rc, rr, in
  <2> QED BY <1>1, <1>2, <1>3, <1>4, <1>5
<1> QED BY <1>6 DEF Conserved

\* Reserving and releasing leave what is on hand; finalizing and paying leave
\* what was delivered.
LEMMA OnHandLeft ==
  ASSUME NEW row \in Balance, NEW x, NEW y
  PROVE  /\ RowReserved(row, x, y).onHand = row.onHand
         /\ RowShipped(row, x, y).onHand = x
         /\ RowReceived(row, x, y).onHand = x
<1>1. RowReserved(row, x, y).onHand = row.onHand
  BY DEF RowReserved, Balance
<1>2. RowShipped(row, x, y).onHand = x
  BY DEF RowShipped, Balance
<1>3. RowReceived(row, x, y).onHand = x
  BY DEF RowReceived, Balance
<1> QED BY <1>1, <1>2, <1>3

LEMMA ReserveOnHand ==
  ASSUME NEW bal, NEW taken, NEW p \in Products, bal[p] \in Balance
  PROVE  ReserveBalance(bal, taken)[p].onHand = bal[p].onHand
<1> DEFINE row == bal[p]
           x == row.reserved + TakenOf(taken, p)
           y == row.available - TakenOf(taken, p)
<1>1. ReserveBalance(bal, taken)[p] = RowReserved(row, x, y)
  BY DEF ReserveBalance, RowReserved
<1> HIDE DEF x, y
<1>2. RowReserved(row, x, y).onHand = row.onHand
  BY OnHandLeft
<1> QED BY <1>1, <1>2

LEMMA DeliveredLeft ==
  ASSUME NEW order \in Order, NEW deal
  PROVE  /\ FinalizedOrder(deal, order).delivered = order.delivered
         /\ FinalizedOrder(deal, order).late = order.late
         /\ \A paid, total : /\ Paid(order, paid, total).delivered = order.delivered
                             /\ Paid(order, paid, total).late = order.late
<1>1. /\ FinalizedOrder(deal, order).delivered = order.delivered
      /\ FinalizedOrder(deal, order).late = order.late
  <2>1. \/ FinalizedOrder(deal, order) = order
        \/ FinalizedOrder(deal, order) = WithStatus(order, "COMPLETED")
    BY DEF FinalizedOrder, WithStatus
  <2> QED BY <2>1, RewrittenSame DEF SameTruth
<1>2. ASSUME NEW paid, NEW total
      PROVE  /\ Paid(order, paid, total).delivered = order.delivered
             /\ Paid(order, paid, total).late = order.late
  <2> DEFINE left == IF paid > total THEN 0 ELSE total - paid
             status == calculatePaymentStatus(paid, total)
  <2>1. Paid(order, paid, total)
          = [order EXCEPT !.paidAmount = paid, !.remainingAmount = left,
                          !.paymentStatus = status]
    BY DEF Paid
  <2> HIDE DEF left, status
  <2> QED BY <2>1 DEF Order
<1> QED BY <1>1, <1>2

\* Steps that leave the goods where they are.
Still(p) ==
  /\ balance'[p].onHand = balance[p].onHand
  /\ DeliveredSame(p) /\ ReceivedSame(p)

LEMMA ReleaseStill ==
  ASSUME IInv, NEW d \in Deals, NEW by, ReleaseReservation(d),
         orders' = [orders EXCEPT ![d].status = "CANCELLED", ![d].closedBy = by],
         receipts' = receipts
  PROVE  \A p \in Products : Still(p)
<1> SUFFICES ASSUME NEW p \in Products PROVE Still(p)
  OBVIOUS
<1>1. orders \in [Deals -> Order] /\ balance[p] \in Balance
  BY DEF IInv, RestOK, StockOK
<1> DEFINE row == balance[p]
           x == row.reserved - Held(d, p)
           y == row.available + Held(d, p)
<1>2. balance'[p] = RowReserved(row, x, y)
  BY DEF ReleaseReservation, ReleaseBalance, RowReserved
<1> HIDE DEF x, y
<1>3. balance'[p].onHand = balance[p].onHand
  BY <1>1, <1>2, OnHandLeft
<1>4. orders'[d] = Closed(orders[d], by) /\ \A e \in Deals : e # d => orders'[e] = orders[e]
  BY <1>1 DEF Closed
<1>5. orders'[d].delivered = orders[d].delivered
  BY <1>1, <1>4, RewrittenSame DEF SameTruth
<1> QED BY <1>3, <1>4, <1>5 DEF Still, DeliveredSame, ReceivedSame

LEMMA ExpireStill ==
  ASSUME IInv, NEW d \in Deals, NEW q \in Products, HandleExpired(d, q)
  PROVE  receipts' = receipts /\ \A p \in Products : Still(p)
<1>1. orders \in [Deals -> Order] /\ balance \in [Products -> Balance]
  BY DEF IInv, RestOK, StockOK
<1>2. PICK entry \in expired[d][q] :
        /\ \/ ReleaseExpired(d, q, entry[1], entry[2])
           \/ UNCHANGED <<balance, reservations, orders>>
        /\ receipts' = receipts
  BY DEF HandleExpired
<1> SUFFICES ASSUME NEW p \in Products PROVE Still(p)
  BY <1>2
<1>3. CASE UNCHANGED <<balance, reservations, orders>>
  BY <1>2, <1>3 DEF Still, DeliveredSame, ReceivedSame
<1>4. CASE ReleaseExpired(d, q, entry[1], entry[2])
  <2> DEFINE row == balance[q]
             x == row.reserved - entry[2]
             y == row.available + entry[2]
  <2>1. balance' = [balance EXCEPT ![q] = RowReserved(row, x, y)]
    BY <1>4 DEF ReleaseExpired, RowReserved
  <2> HIDE DEF x, y
  <2>2. balance'[p].onHand = balance[p].onHand
    <3>1. RowReserved(row, x, y).onHand = row.onHand
      BY <1>1, OnHandLeft
    <3>2. balance'[p] = IF p = q THEN RowReserved(row, x, y) ELSE balance[p]
      BY <1>1, <2>1
    <3> QED BY <3>1, <3>2
  <2>3. \A e \in Deals : \/ orders'[e] = orders[e]
                         \/ orders'[e] = WithStatus(orders[e], "WAITING_STOCK")
    BY <1>1, <1>4 DEF ReleaseExpired, ExpiredOrder, WithStatus
  <2>4. \A e \in Deals : orders'[e].delivered = orders[e].delivered
    BY <1>1, <2>3, RewrittenSame DEF SameTruth
  <2> QED BY <1>2, <2>2, <2>4 DEF Still, DeliveredSame, ReceivedSame
<1> QED BY <1>2, <1>3, <1>4

LEMMA CreateOrderStill ==
  ASSUME ConstantsAssumption, IInv, OrdersTrue, NEW d \in Deals, NEW taken,
         orders[d].status = "NONE", CreateOrder(d, taken)
  PROVE  \A p \in Products : Still(p)
<1> SUFFICES ASSUME NEW p \in Products PROVE Still(p)
  OBVIOUS
<1>1. orders \in [Deals -> Order] /\ deals \in [Deals -> Deal] /\ balance[p] \in Balance
  BY DEF IInv, RestOK, StockOK
<1>2. balance'[p].onHand = balance[p].onHand
  BY <1>1, ReserveOnHand DEF CreateOrder
<1>3. orders[d].delivered[p] = 0
  BY OrderRows DEF OrderTrue, BlankTrue, Nothing
<1>4. NewOrder(d, taken).delivered[p] = 0
  <2> DEFINE s == IF taken = Wanted(d) THEN "WAITING_PAYMENT" ELSE "WAITING_STOCK"
             c == 1 + Cardinality(Created)
             i == IF taken = Wanted(d) THEN deals[d].items ELSE NoLines
             total == deals[d].totalAmount
  <2>1. NewOrder(d, taken) = [NoOrder EXCEPT !.status = s, !.createdAt = c,
                                             !.reservedQuantity = i, !.remainingAmount = total]
    BY DEF NewOrder, Created
  <2> HIDE DEF s, c, i, total
  <2>2. NewOrder(d, taken).delivered = NoLines
    BY <2>1 DEF NoOrder
  <2> QED BY <2>2 DEF NoLines
<1>5. \A e \in Deals : orders'[e].delivered[p] = orders[e].delivered[p]
  BY <1>1, <1>3, <1>4 DEF CreateOrder
<1> QED BY <1>2, <1>5 DEF Still, DeliveredSame, ReceivedSame, CreateOrder

\* Only one order changes, and its delivered quantities do not.
LEMMA OrderStill ==
  ASSUME IInv, NEW d \in Deals, NEW order, order.delivered = orders[d].delivered,
         orders' = [orders EXCEPT ![d] = order] \/ orders' = orders,
         balance' = balance, receipts' = receipts
  PROVE  \A p \in Products : Still(p)
<1>1. orders \in [Deals -> Order]
  BY DEF IInv, RestOK
<1>2. \A e \in Deals : orders'[e].delivered = orders[e].delivered
  BY <1>1
<1> QED BY <1>2 DEF Still, DeliveredSame, ReceivedSame

LEMMA ConfirmPaymentStill ==
  ASSUME IInv, NEW d \in Deals, NEW k, NEW verdict, ConfirmPayment(d, k, verdict)
  PROVE  \A p \in Products : Still(p)
<1> DEFINE paid == ConfirmedTotal([payments[d] EXCEPT ![k].status = verdict])
           total == deals[d].totalAmount
           order == Paid(orders[d], paid, total)
           final == FinalizedOrder(deals[d], order)
<1>1. orders[d] \in Order
  BY DEF IInv, RestOK
<1>2. /\ orders' = [orders EXCEPT ![d] = order] \/ orders' = [orders EXCEPT ![d] = final]
      /\ balance' = balance /\ receipts' = receipts
  BY DEF ConfirmPayment, TryFinalize
<1> HIDE DEF paid, total
<1>3. order.delivered = orders[d].delivered
  BY <1>1, DeliveredLeft
<1>4. final.delivered = orders[d].delivered
  <2>1. \/ final = order \/ final = [order EXCEPT !.status = "COMPLETED"]
    BY DEF FinalizedOrder
  <2>2. [order EXCEPT !.status = "COMPLETED"].delivered = order.delivered
    <3>1. order = [orders[d] EXCEPT !.paidAmount = order.paidAmount,
                                    !.remainingAmount = order.remainingAmount,
                                    !.paymentStatus = order.paymentStatus]
      <4> DEFINE left == IF paid > total THEN 0 ELSE total - paid
                 status == calculatePaymentStatus(paid, total)
      <4>1. order = [orders[d] EXCEPT !.paidAmount = paid, !.remainingAmount = left,
                                      !.paymentStatus = status]
        BY DEF Paid
      <4> HIDE DEF left, status, order
      <4>2. /\ order.paidAmount = paid /\ order.remainingAmount = left
            /\ order.paymentStatus = status
        BY <1>1, <4>1 DEF Order
      <4> QED BY <4>1, <4>2
    <3> HIDE DEF order
    <3> QED BY <1>1, <3>1 DEF Order
  <2> QED BY <1>3, <2>1, <2>2
<1> HIDE DEF order, final
<1> QED BY <1>2, <1>3, <1>4, OrderStill

LEMMA TickStill ==
  ASSUME IInv, Tick
  PROVE  \A p \in Products : Still(p)
<1>1. orders \in [Deals -> Order]
  BY DEF IInv, RestOK
<1>2. \A e \in Deals : orders'[e] = orders[e] \/ orders'[e] = AgedOrder(orders[e])
  BY DEF Tick, AgedOrder
<1>3. \A e \in Deals : orders'[e].delivered = orders[e].delivered
  BY <1>1, <1>2, RewrittenSame DEF SameTruth
<1> QED BY <1>3 DEF Still, DeliveredSame, ReceivedSame, Tick

\* A delivery takes from what is on hand what it gives to the client.
LEMMA DeliveryMoves ==
  ASSUME ConstantsAssumption, IInv, NEW d \in Deals,
         NEW quantity \in Parts(deals[d].items), CreateDelivery(d, quantity)
  PROVE  \A p \in Products :
           /\ GoodsMove(p)
           /\ quantity[p] \in Nat /\ orders[d].delivered[p] \in Nat
           /\ orders'[d].delivered[p] = orders[d].delivered[p] + quantity[p]
<1> SUFFICES ASSUME NEW p \in Products
             PROVE  /\ GoodsMove(p)
                    /\ quantity[p] \in Nat /\ orders[d].delivered[p] \in Nat
                    /\ orders'[d].delivered[p] = orders[d].delivered[p] + quantity[p]
  OBVIOUS
<1> DEFINE o == orders[d]
           deal == deals[d]
           delivered == [q \in Products |-> o.delivered[q] + quantity[q]]
           moved == Moved(o, delivered)
           s == ShipmentStatus(moved, deal.items)
           shipped == WithStatus(moved, s)
           final == FinalizedOrder(deal, shipped)
<1>1. /\ orders \in [Deals -> Order] /\ deals \in [Deals -> Deal] /\ balance[p] \in Balance
  BY DEF IInv, RestOK, StockOK
<1>2. o \in Order /\ quantity[p] \in Nat
  <2>1. deal.items \in Lines
    BY <1>1 DEF Deal, ConstantsAssumption
  <2>2. quantity \in [Products -> Nat]
    BY <2>1, PartsType
  <2> QED BY <1>1, <2>2
<1>3. /\ orders' = [orders EXCEPT ![d] = final]
      /\ receipts' = receipts
  BY DEF CreateDelivery, TryFinalize, Moved, WithStatus
<1>4. balance'[p].onHand = balance[p].onHand - quantity[p]
  <2> DEFINE row == balance[p]
             x == row.onHand - quantity[p]
             y == row.reserved - quantity[p]
  <2>1. balance'[p] = RowShipped(row, x, y)
    BY DEF CreateDelivery, CommitReservation, RowShipped
  <2> HIDE DEF y
  <2>2. RowShipped(row, x, y).onHand = x
    BY <1>1, OnHandLeft
  <2> QED BY <2>1, <2>2
<1>5. delivered[p] = o.delivered[p] + quantity[p]
  OBVIOUS
<1> HIDE DEF o, delivered, s
<1>6. moved.delivered = delivered
  BY <1>2 DEF Moved, Order
<1>7. ASSUME NEW t PROVE WithStatus(moved, t).delivered = delivered
  <2> DEFINE same == [o EXCEPT !.delivered = delivered]
  <2>1. WithStatus(moved, t) = [same EXCEPT !.status = t] /\ same.delivered = delivered
    BY <1>6 DEF WithStatus, Moved
  <2>2. DOMAIN same = DOMAIN o /\ "delivered" \in DOMAIN o
    BY <1>2 DEF Order
  <2> HIDE DEF same, moved
  <2> QED BY <2>1, <2>2
<1>8. final.delivered = delivered
  <2>1. final = shipped \/ final = WithStatus(shipped, "COMPLETED")
    BY DEF FinalizedOrder, WithStatus
  <2>2. WithStatus(shipped, "COMPLETED") = WithStatus(moved, "COMPLETED")
    <3> HIDE DEF moved
    <3> QED BY DEF WithStatus
  <2> HIDE DEF final, shipped
  <2> QED BY <1>7, <2>1, <2>2 DEF shipped
<1> HIDE DEF final
<1>9. orders'[d].delivered[p] = orders[d].delivered[p] + quantity[p]
  BY <1>1, <1>3, <1>5, <1>8 DEF o
<1>10. \A e \in Deals : e # d => orders'[e].delivered[p] = orders[e].delivered[p]
  BY <1>1, <1>3
<1>11. GoodsMove(p)
  BY <1>2, <1>3, <1>4, <1>9, <1>10 DEF GoodsMove, ReceivedSame
<1>12. orders[d].delivered[p] \in Nat
  BY <1>1 DEF Order, Lines
<1> QED BY <1>2, <1>9, <1>11, <1>12

\* A receipt event puts on hand what its purchase received.
LEMMA EventMoves ==
  ASSUME ConstantsAssumption, IInv, ReceiptsTrue, NEW r \in Receipts, NEW key, NEW accepted,
         key \in ReceiptKeys \cup {NoKey}, accepted \in Parts(receipts[r].ordered),
         ProcessReceipt(r, key, accepted)
  PROVE  \A p \in Products : GoodsMove(p)
<1> SUFFICES ASSUME NEW p \in Products PROVE GoodsMove(p)
  OBVIOUS
<1>1. /\ orders \in [Deals -> Order] /\ balance[p] \in Balance
      /\ receipts \in [Receipts -> Receipt]
  BY DEF IInv, RestOK, StockOK
<1>2. accepted[p] \in Nat
  <2>1. receipts[r].ordered \in Lines
    BY <1>1 DEF Receipt
  <2> QED BY <2>1, PartsType
<1> DEFINE bal == ReceiveBalance(accepted)
<1>3. PICK taken : balance' = ReserveBalance(bal, taken)
  BY DEF ProcessReceipt
<1>4. bal[p] \in Balance /\ bal[p].onHand = balance[p].onHand + accepted[p]
  <2> DEFINE row == balance[p]
             x == row.onHand + accepted[p]
             y == row.available + accepted[p]
  <2>1. bal[p] = RowReceived(row, x, y)
    BY DEF ReceiveBalance, RowReceived
  <2>2. row \in Balance /\ x \in Nat /\ y \in Nat
    BY <1>1, <1>2 DEF Balance
  <2> HIDE DEF bal, y, row
  <2>3. RowReceived(row, x, y).onHand = x /\ RowReceived(row, x, y) \in Balance
    <3> HIDE DEF x
    <3> QED BY <2>2, RowReceivedFields
  <2> QED BY <2>1, <2>3 DEF row
<1>5. balance'[p].onHand = balance[p].onHand + accepted[p]
  <2> HIDE DEF bal
  <2> QED BY <1>3, <1>4, ReserveOnHand
<1>6. PICK got : \A e \in Deals : \/ orders'[e] = orders[e]
                                  \/ orders'[e] = ServedOrder(e, got[e])
  BY DEF ProcessReceipt
<1>7. ASSUME NEW e \in Deals PROVE orders'[e].delivered = orders[e].delivered
  <2> DEFINE old == orders[e]
  <2>1. old \in Order
    BY <1>1
  <2>2. PICK items, all, late : ServedOrder(e, got[e]) = Served(old, items, all, late)
    BY DEF ServedOrder, Served
  <2> HIDE DEF old
  <2>3. Served(old, items, all, late).delivered = old.delivered
    BY <2>1 DEF Served, Order
  <2> QED BY <1>6, <2>2, <2>3 DEF old
<1>8. /\ \A s \in Receipts : s # r => receipts'[s] = receipts[s]
      /\ receipts'[r].received[p] = receipts[r].received[p] + accepted[p]
  BY EventTrue
<1> QED BY <1>2, <1>5, <1>7, <1>8 DEF GoodsMove, DeliveredSame

\* Every step, and what it does to the goods and to the purchases.
LEMMA OrderStepGoods ==
  ASSUME ConstantsAssumption, IInv, OrdersTrue, NEW d \in Deals, OrderStep(d)
  PROVE  receipts' = receipts /\ \A p \in Products : GoodsMove(p)
<1>0. ASSUME \A p \in Products : Still(p) PROVE \A p \in Products : GoodsMove(p)
  BY <1>0 DEF Still, GoodsMove
<1>1. CASE CreateFromDeal(d) \/ ConvertStockOnlyQuote(d)
  <2>1. PICK taken : CreateOrder(d, taken)
    BY <1>1 DEF CreateFromDeal, ConvertStockOnlyQuote
  <2>2. orders[d].status = "NONE"
    BY <1>1 DEF CreateFromDeal, ConvertStockOnlyQuote
  <2>3. receipts' = receipts
    BY <2>1 DEF CreateOrder
  <2> QED BY <1>0, <2>1, <2>2, <2>3, CreateOrderStill
<1>2. CASE CancelOrder(d)
  <2>1. /\ ReleaseReservation(d) /\ receipts' = receipts
        /\ orders' = [orders EXCEPT ![d].status = "CANCELLED", ![d].closedBy = "user"]
    BY <1>2 DEF CancelOrder
  <2> QED BY <1>0, <2>1, ReleaseStill
<1>3. CASE CancelExpiredWaitingPayment(d)
  <2>1. /\ ReleaseReservation(d) /\ receipts' = receipts
        /\ orders' = [orders EXCEPT ![d].status = "CANCELLED", ![d].closedBy = "ttl"]
    BY <1>3 DEF CancelExpiredWaitingPayment
  <2> QED BY <1>0, <2>1, ReleaseStill
<1>4. CASE \E p \in Products : HandleExpired(d, p)
  BY <1>0, <1>4, ExpireStill
<1>5. CASE AddPayment(d)
  <2>1. orders' = orders /\ balance' = balance /\ receipts' = receipts
    BY <1>5 DEF AddPayment
  <2> QED BY <1>0, <2>1, OrderStill
<1>6. CASE \E k \in DOMAIN payments[d], verdict \in {"CONFIRMED", "REJECTED"} :
             ConfirmPayment(d, k, verdict)
  <2>1. receipts' = receipts
    BY <1>6 DEF ConfirmPayment
  <2> QED BY <1>0, <1>6, <2>1, ConfirmPaymentStill
<1>7. CASE \E quantity \in Parts(deals[d].items) : CreateDelivery(d, quantity)
  <2>1. receipts' = receipts
    BY <1>7 DEF CreateDelivery
  <2> QED BY <1>7, <2>1, DeliveryMoves
<1>8. CASE ConfirmSupervisor(d)
  <2> DEFINE deal == [deals[d] EXCEPT !.supervisorConfirmed = TRUE]
  <2>1. /\ orders' = [orders EXCEPT ![d] = FinalizedOrder(deal, orders[d])]
        /\ balance' = balance /\ receipts' = receipts
    BY <1>8 DEF ConfirmSupervisor, TryFinalize
  <2> HIDE DEF deal
  <2>2. FinalizedOrder(deal, orders[d]).delivered = orders[d].delivered
    BY DeliveredLeft DEF IInv, RestOK
  <2> QED BY <1>0, <2>1, <2>2, OrderStill
<1>9. CASE \E stage \in {"OPEN", "WON", "LOST"} : ChangeStage(d, stage)
  <2>1. orders' = orders /\ balance' = balance /\ receipts' = receipts
    BY <1>9 DEF ChangeStage
  <2> QED BY <1>0, <2>1, OrderStill
<1> QED BY <1>1, <1>2, <1>3, <1>4, <1>5, <1>6, <1>7, <1>8, <1>9 DEF OrderStep

LEMMA StepGoods ==
  ASSUME ConstantsAssumption, IInv, OrdersTrue, ReceiptsTrue, [Next]_vars
  PROVE  ReceiptsTrue' /\ \A p \in Products : GoodsMove(p)
<1>0. ASSUME \A p \in Products : Still(p) PROVE \A p \in Products : GoodsMove(p)
  BY <1>0 DEF Still, GoodsMove
<1>1. CASE \E d \in Deals : OrderStep(d)
  <2>1. receipts' = receipts /\ \A p \in Products : GoodsMove(p)
    BY <1>1, OrderStepGoods
  <2> QED BY <2>1 DEF ReceiptsTrue
<1>2. CASE \E r \in Receipts : ReceiptStep(r)
  <2>1. PICK r \in Receipts : ReceiptStep(r)
    BY <1>2
  <2>2. CASE \/ CreateExpectedReceipt(r)
             \/ UpdateWarehousePurchase(r)
             \/ CancelWarehousePurchase(r)
    <3>1. ReceiptsTrue' /\ \A s \in Receipts : receipts'[s].received = receipts[s].received
      BY <2>2, PurchaseTrue
    <3>2. balance' = balance /\ orders' = orders
      BY <2>2 DEF CreateExpectedReceipt, UpdateWarehousePurchase, CancelWarehousePurchase
    <3> QED BY <1>0, <3>1, <3>2 DEF Still, DeliveredSame, ReceivedSame
  <2>3. CASE \E key \in ReceiptKeys \cup {NoKey}, accepted \in Parts(receipts[r].ordered) :
               ProcessReceipt(r, key, accepted)
    BY <2>3, EventTrue, EventMoves
  <2>4. CASE ListWaiting(r)
    <3>1. balance' = balance /\ orders' = orders /\ receipts' = receipts
      BY <2>4 DEF ListWaiting
    <3> QED BY <1>0, <3>1 DEF ReceiptsTrue, Still, DeliveredSame, ReceivedSame
  <2> QED BY <2>1, <2>2, <2>3, <2>4 DEF ReceiptStep
<1>3. CASE Tick
  <2>1. receipts' = receipts
    BY <1>3 DEF Tick
  <2> QED BY <1>0, <1>3, <2>1, TickStill DEF ReceiptsTrue
<1>4. CASE UNCHANGED vars \/ ListExpired
  <2>1. balance' = balance /\ orders' = orders /\ receipts' = receipts
    BY <1>4 DEF vars, ListExpired
  <2> QED BY <1>0, <2>1 DEF ReceiptsTrue, Still, DeliveredSame, ReceivedSame
<1> QED BY <1>1, <1>2, <1>3, <1>4 DEF Next

\* The invariant with the purchases and the conservation of goods.
GInv == OInv /\ ReceiptsTrue /\ StockConserved

LEMMA ConservedEach == StockConserved <=> \A p \in Products : Conserved(balance, orders, receipts, p)
BY DEF StockConserved, Conserved, DeliveredOf, ReceivedOf

LEMMA InitGInv == ASSUME ConstantsAssumption, Init PROVE GInv
<1>1. OInv
  BY InitOInv
<1>2. receipts \in [Receipts -> Receipt] /\ orders \in [Deals -> Order]
  BY <1>1 DEF OInv, IInv, RestOK
<1>3. ReceiptsTrue
  <2> SUFFICES ASSUME NEW r \in Receipts PROVE ReceiptTrue(receipts[r])
    BY DEF ReceiptsTrue
  <2>1. receipts[r] = NoReceipt
    BY DEF Init
  <2>2. /\ NoReceipt.status = "NONE" /\ NoReceipt.events = <<>>
        /\ NoReceipt.received = NoLines /\ NoReceipt.ordered = NoLines
    BY DEF NoReceipt
  <2>3. \A p \in Products : NoLines[p] = 0 /\ AcceptedOf(<<>>, p) = 0
    BY AcceptedNone DEF NoLines
  <2> QED BY <2>1, <2>2, <2>3 DEF ReceiptTrue, EventsTrue, QuantitiesTrue
<1>4. ASSUME NEW p \in Products PROVE Conserved(balance, orders, receipts, p)
  <2> DEFINE f == [d \in Deals |-> orders[d].delivered[p]]
             g == [r \in Receipts |-> receipts[r].received[p]]
  <2>1. /\ NumDeals \in Nat /\ Deals = 1..NumDeals
        /\ NumReceipts \in Nat /\ Receipts = 1..NumReceipts
    BY DEF ConstantsAssumption, Deals, Receipts
  <2>2. (\A d \in 1..NumDeals : f[d] = 0) /\ (\A r \in 1..NumReceipts : g[r] = 0)
    BY <2>1 DEF Init, NoOrder, NoReceipt, NoLines
  <2>3. balance[p].onHand = InitialStock[p] /\ InitialStock[p] \in Nat
    BY DEF Init, ConstantsAssumption, Lines
  <2>4. DeliveredOf(orders, p) = SumUpTo(f, NumDeals)
    BY DEF DeliveredOf
  <2>5. ReceivedOf(receipts, p) = SumUpTo(g, NumReceipts)
    BY DEF ReceivedOf
  <2> HIDE DEF f, g
  <2>6. SumUpTo(f, NumDeals) = 0
    BY <2>1, <2>2, SumZeros
  <2>7. SumUpTo(g, NumReceipts) = 0
    BY <2>1, <2>2, SumZeros
  <2> QED BY <2>3, <2>4, <2>5, <2>6, <2>7 DEF Conserved
<1> QED BY <1>1, <1>3, <1>4, ConservedEach DEF GInv

LEMMA StepGInv ==
  ASSUME ConstantsAssumption, GInv, [Next]_vars
  PROVE  GInv'
<1>1. OInv /\ ReceiptsTrue /\ StockConserved /\ IInv /\ OrdersTrue
  BY DEF GInv, OInv
<1>2. OInv'
  BY <1>1, StepOInv
<1>3. ReceiptsTrue' /\ \A p \in Products : GoodsMove(p)
  BY <1>1, StepGoods
<1>4. /\ orders \in [Deals -> Order] /\ orders' \in [Deals -> Order]
      /\ receipts \in [Receipts -> Receipt] /\ receipts' \in [Receipts -> Receipt]
      /\ balance \in [Products -> Balance] /\ balance' \in [Products -> Balance]
  BY <1>1, <1>2 DEF OInv, IInv, RestOK, StockOK
<1>5. \A p \in Products : Conserved(balance, orders, receipts, p)
  BY <1>1, ConservedEach
<1>6. \A p \in Products : Conserved(balance', orders', receipts', p)
  BY <1>3, <1>4, <1>5, MoveConserves
<1>7. StockConserved'
  BY <1>6 DEF StockConserved, Conserved, DeliveredOf, ReceivedOf
<1> QED BY <1>2, <1>3, <1>7 DEF GInv

\* What the purchases brought in is counted once: a purchase's quantities are
\* the sum of its events, and every unit is on hand or with a client.
THEOREM GoodsKept == Spec => []GoodsFaithful
<1>1. Init => GInv
  BY ConstantsAssumption, InitGInv
<1>2. GInv /\ [Next]_vars => GInv'
  BY ConstantsAssumption, StepGInv
<1>3. GInv => GoodsFaithful
  BY ReceiptsTrueImplies DEF GInv, GoodsFaithful
<1> QED BY <1>1, <1>2, <1>3, PTL DEF Spec

-----------------------------------------------------------------------------
\* What an order holds is what its status promises.

PromiseKept(rows, need) ==
  \/ HeldOf(rows) >= need
  \/ \E k \in DOMAIN rows : rows[k].status = "RELEASED"

Hold(status, late, rows, need) ==
  /\ status = "CANCELLED" => HeldOf(rows) = 0 \/ late
  /\ status = "WAITING_PAYMENT" => PromiseKept(rows, need)

HoldsTrue ==
  \A d \in Deals, p \in Products :
    Hold(orders[d].status, orders[d].late, reservations[d][p], deals[d].items[p])

\* An order that was never created has no rows, a cancelled one got nothing.
LEMMA HoldsTrueImplies == OInv /\ HoldsTrue => OrdersHoldGoods
<1> SUFFICES ASSUME IInv, OrdersTrue, HoldsTrue PROVE OrdersHoldGoods
  BY DEF OInv
<1>1. PromisedGoodsHeld
  BY DEF HoldsTrue, Hold, PromiseKept, PromisedGoodsHeld, Held
<1>2. ASSUME NEW d \in Deals, NEW p \in Products, orders[d].status = "NONE"
      PROVE  Held(d, p) = 0 /\ orders[d].delivered[p] = 0
  <2>1. reservations[d][p] = <<>>
    BY <1>2 DEF IInv, RestOK, NoRows
  <2>2. orders[d].delivered[p] = 0
    BY <1>2 DEF OrdersTrue, OrderTrue, BlankTrue, Nothing
  <2> QED BY <2>1, <2>2, HeldOfEmpty DEF Held
<1>3. ASSUME NEW d \in Deals, NEW p \in Products, orders[d].status = "CANCELLED",
             ~orders[d].late
      PROVE  Held(d, p) = 0 /\ orders[d].delivered[p] = 0
  <2>1. ShipmentTrue(orders[d], deals[d])
    BY <1>3 DEF OrdersTrue, OrderTrue
  <2> QED BY <1>3, <2>1 DEF HoldsTrue, Hold, Held, ShipmentTrue, Nothing
<1> QED BY <1>1, <1>2, <1>3 DEF OrdersHoldGoods, CancelledHoldsNothing

\* Nothing about the order's promise changes.
LEMMA HoldSame ==
  ASSUME NEW d \in Deals, NEW p \in Products, HoldsTrue,
         \/ orders'[d].status = orders[d].status /\ orders'[d].late = orders[d].late
         \/ orders'[d].status \notin {"CANCELLED", "WAITING_PAYMENT"},
         reservations'[d] = reservations[d] \/ reservations'[d][p] = reservations[d][p],
         deals'[d].items = deals[d].items
  PROVE  Hold(orders'[d].status, orders'[d].late, reservations'[d][p], deals'[d].items[p])
BY DEF HoldsTrue, Hold

HoldKept(d) ==
  \A p \in Products :
    Hold(orders'[d].status, orders'[d].late, reservations'[d][p], deals'[d].items[p])

LEMMA ReleaseHolds ==
  ASSUME IInv, HoldsTrue, NEW d \in Deals, NEW by, ReleaseReservation(d),
         orders' = [orders EXCEPT ![d].status = "CANCELLED", ![d].closedBy = by],
         deals' = deals
  PROVE  \A e \in Deals : HoldKept(e)
<1>1. orders \in [Deals -> Order] /\ reservations \in Reservations
  BY DEF IInv, RestOK, StockOK
<1>2. ASSUME NEW e \in Deals, e # d PROVE HoldKept(e)
  <2>1. orders'[e] = orders[e] /\ reservations'[e] = reservations[e]
    BY <1>1, <1>2 DEF ReleaseReservation, Reservations
  <2> QED BY <2>1, HoldSame DEF HoldKept
<1>3. ASSUME NEW p \in Products
      PROVE  Hold(orders'[d].status, orders'[d].late, reservations'[d][p], deals'[d].items[p])
  <2>1. orders'[d].status = "CANCELLED"
    BY <1>1 DEF Order
  <2>2. reservations'[d][p] = ReleaseRows(reservations[d][p])
    BY <1>1 DEF ReleaseReservation, Reservations
  <2>3. HeldOf(reservations'[d][p]) = 0
    BY <1>1, <2>2, HeldOfReleased DEF Reservations
  <2> QED BY <2>1, <2>3 DEF Hold
<1> QED BY <1>2, <1>3 DEF HoldKept

LEMMA ExpireHolds ==
  ASSUME IInv, HoldsTrue, NEW d \in Deals, NEW q \in Products,
         NEW k \in DOMAIN reservations[d][q], NEW quantity,
         ReleaseExpired(d, q, k, quantity), deals' = deals
  PROVE  \A e \in Deals : HoldKept(e)
<1>1. orders \in [Deals -> Order] /\ reservations \in Reservations
  BY DEF IInv, RestOK, StockOK
<1> DEFINE rows == reservations[d][q]
           new == [rows EXCEPT ![k].status = "RELEASED"]
<1>3. /\ reservations' = [reservations EXCEPT ![d][q][k].status = "RELEASED"]
      /\ deals' = deals
      /\ orders' = orders \/ orders' = [orders EXCEPT ![d] = ExpiredOrder(orders[d])]
      /\ IsActive(rows[k])
  BY DEF ReleaseExpired, IsActive
<1>4. ASSUME NEW e \in Deals, e # d PROVE HoldKept(e)
  <2>1. orders'[e] = orders[e] /\ reservations'[e] = reservations[e]
    BY <1>1, <1>3, <1>4 DEF Reservations
  <2> QED BY <1>3, <2>1, HoldSame DEF HoldKept
<1>5. \/ orders'[d].status = orders[d].status /\ orders'[d].late = orders[d].late
      \/ orders'[d].status = "WAITING_STOCK"
  BY <1>1, <1>3 DEF ExpiredOrder, Order
<1>6. ASSUME NEW p \in Products, p # q
      PROVE  Hold(orders'[d].status, orders'[d].late, reservations'[d][p], deals'[d].items[p])
  <2>1. reservations'[d][p] = reservations[d][p]
    BY <1>1, <1>3, <1>6 DEF Reservations
  <2> QED BY <1>3, <1>5, <2>1, HoldSame
<1>7. Hold(orders'[d].status, orders'[d].late, reservations'[d][q], deals'[d].items[q])
  <2>1. reservations'[d][q] = new
    BY <1>1, <1>3 DEF Reservations
  <2>2. rows \in Seq(Reservation) /\ k \in DOMAIN rows
    BY <1>1 DEF Reservations
  <2>3. k \in DOMAIN new /\ new[k].status = "RELEASED"
    <3> HIDE DEF rows
    <3>1. rows[k] \in Reservation
      BY <2>2, ElementOfSeq, LenProperties
    <3>2. new[k] = [rows[k] EXCEPT !.status = "RELEASED"] /\ DOMAIN new = DOMAIN rows
      BY <2>2
    <3> QED BY <2>2, <3>1, <3>2 DEF Reservation
  <2>4. rows[k].quantity \in Nat
    <3> HIDE DEF rows
    <3>1. rows[k] \in Reservation
      BY <2>2, ElementOfSeq, LenProperties
    <3> QED BY <3>1 DEF Reservation
  <2>5. HeldOf(new) = HeldOf(rows) - rows[k].quantity /\ HeldOf(new) \in Nat
    <3> HIDE DEF rows
    <3>1. new \in Seq(Reservation) /\ HeldOf(new) = HeldOf(rows) - rows[k].quantity
      BY <1>3, <2>2, HeldOfExpired
    <3> QED BY <3>1, HeldOfType
  <2>6. orders[d].status = "CANCELLED" => HeldOf(rows) = 0 \/ orders[d].late
    BY DEF HoldsTrue, Hold
  <2> HIDE DEF new, rows
  <2>7. PromiseKept(new, deals'[d].items[q])
    BY <2>3 DEF PromiseKept
  <2>8. orders'[d].status = "CANCELLED" => HeldOf(new) = 0 \/ orders'[d].late
    BY <1>5, <2>4, <2>5, <2>6
  <2> QED BY <2>1, <2>7, <2>8 DEF Hold
<1> QED BY <1>4, <1>6, <1>7 DEF HoldKept

LEMMA HandleExpiredHolds ==
  ASSUME IInv, HoldsTrue, NEW d \in Deals, NEW p \in Products, HandleExpired(d, p)
  PROVE  \A e \in Deals : HoldKept(e)
<1>1. PICK entry \in expired[d][p] :
        /\ \/ ReleaseExpired(d, p, entry[1], entry[2])
           \/ UNCHANGED <<balance, reservations, orders>>
        /\ deals' = deals
  BY DEF HandleExpired
<1>2. CASE ReleaseExpired(d, p, entry[1], entry[2])
  <2>1. entry[1] \in DOMAIN reservations[d][p]
    BY DEF IInv, RestOK, ListsTrue, ListedTrue
  <2> QED BY <1>1, <1>2, <2>1, ExpireHolds
<1>3. CASE UNCHANGED <<balance, reservations, orders>>
  BY <1>1, <1>3, HoldSame DEF HoldKept
<1> QED BY <1>1, <1>2, <1>3

\* An order that gets nothing keeps its rows, and one that got everything it
\* wanted has it; a receipt that gave some of it to an order which no longer
\* waited says so.
LEMMA ReserveHolds ==
  ASSUME ConstantsAssumption, IInv, HoldsTrue, NEW taken, reservations' = ReserveRows(taken),
         NEW d \in Deals, deals' = deals,
         \/ /\ orders'[d].status = "WAITING_PAYMENT" /\ taken[d] = Wanted(d)
         \/ /\ orders'[d].status \notin {"CANCELLED", "WAITING_PAYMENT"}
         \/ /\ orders'[d].status = orders[d].status
            /\ \/ taken[d] = {} /\ orders'[d].late = orders[d].late
               \/ orders'[d].late
  PROVE  HoldKept(d)
<1> SUFFICES ASSUME NEW p \in Products
             PROVE  Hold(orders'[d].status, orders'[d].late, reservations'[d][p], deals'[d].items[p])
  BY DEF HoldKept
<1> DEFINE rows == reservations[d][p]
           need == deals[d].items[p]
           row == [quantity |-> need, age |-> 0, status |-> "ACTIVE"]
<1>1. rows \in Seq(Reservation) /\ need \in Nat /\ 0 \in 0..ReservationTtl
  BY DEF IInv, RestOK, StockOK, Reservations, Deal, ConstantsAssumption, Lines
<1>2. reservations'[d][p] = IF p \in taken[d] THEN Append(rows, row) ELSE rows
  BY DEF ReserveRows
<1>3. CASE orders'[d].status = "WAITING_PAYMENT" /\ taken[d] = Wanted(d)
  <2>1. CASE p \in taken[d]
    <3>1. row \in Reservation /\ ActiveQuantity(row) = need
      BY <1>1 DEF Reservation, ReservationStatuses, ActiveQuantity
    <3> HIDE DEF row, rows, need
    <3>2. HeldOf(Append(rows, row)) = HeldOf(rows) + need /\ HeldOf(rows) \in Nat
      BY <1>1, <3>1, HeldOfAppend, HeldOfType
    <3>3. HeldOf(Append(rows, row)) >= need
      BY <1>1, <3>2
    <3>4. PromiseKept(reservations'[d][p], need)
      BY <1>2, <2>1, <3>3 DEF PromiseKept
    <3> QED BY <1>3, <3>4 DEF Hold, need
  <2>2. CASE p \notin taken[d]
    <3>1. need = 0
      BY <1>1, <1>3, <2>2 DEF Wanted
    <3>2. HeldOf(rows) \in Nat
      BY <1>1, HeldOfType
    <3>3. HeldOf(rows) >= need
      BY <3>1, <3>2
    <3>4. PromiseKept(reservations'[d][p], need)
      BY <1>2, <2>2, <3>3 DEF PromiseKept
    <3> QED BY <1>3, <3>4 DEF Hold
  <2> QED BY <2>1, <2>2
<1>4. CASE orders'[d].status \notin {"CANCELLED", "WAITING_PAYMENT"}
  BY <1>4 DEF Hold
<1>5. CASE /\ orders'[d].status = orders[d].status
           /\ taken[d] = {} /\ orders'[d].late = orders[d].late
  BY <1>2, <1>5, HoldSame
<1>6. CASE orders'[d].status = orders[d].status /\ orders'[d].late
  <2>1. orders[d].status = "WAITING_PAYMENT" => PromiseKept(rows, need)
    BY DEF HoldsTrue, Hold
  <2>2. PromiseKept(rows, need) => PromiseKept(reservations'[d][p], need)
    <3>1. row \in Reservation /\ ActiveQuantity(row) = need
      BY <1>1 DEF Reservation, ReservationStatuses, ActiveQuantity
    <3> HIDE DEF row, rows, need
    <3>2. HeldOf(Append(rows, row)) = HeldOf(rows) + need /\ HeldOf(rows) \in Nat
      BY <1>1, <3>1, HeldOfAppend, HeldOfType
    <3>3. \A k \in DOMAIN rows : k \in DOMAIN Append(rows, row) /\ Append(rows, row)[k] = rows[k]
      BY <1>1, LenProperties
    <3>4. HeldOf(rows) >= need => HeldOf(Append(rows, row)) >= need
      BY <1>1, <3>2
    <3>5. PromiseKept(rows, need) => PromiseKept(Append(rows, row), need)
      BY <3>3, <3>4 DEF PromiseKept
    <3> QED BY <1>2, <3>5
  <2> QED BY <1>6, <2>1, <2>2 DEF Hold
<1> QED BY <1>3, <1>4, <1>5, <1>6

LEMMA CreateOrderHolds ==
  ASSUME ConstantsAssumption, IInv, HoldsTrue, NEW d \in Deals, NEW taken,
         CreateOrder(d, taken)
  PROVE  \A e \in Deals : HoldKept(e)
<1>1. /\ orders \in [Deals -> Order] /\ deals \in [Deals -> Deal]
      /\ reservations' = ReserveRows(OnlyFor(d, taken)) /\ deals' = deals
      /\ orders' = [orders EXCEPT ![d] = NewOrder(d, taken)]
  BY DEF IInv, RestOK, CreateOrder
<1>2. ASSUME NEW e \in Deals, e # d PROVE HoldKept(e)
  <2>1. /\ orders'[e].status = orders[e].status /\ orders'[e].late = orders[e].late
        /\ OnlyFor(d, taken)[e] = {}
    BY <1>1, <1>2 DEF OnlyFor
  <2> QED BY <1>1, <2>1, ReserveHolds
<1>3. HoldKept(d)
  <2>1. OnlyFor(d, taken)[d] = taken /\ orders'[d] = NewOrder(d, taken)
    BY <1>1 DEF OnlyFor
  <2>2. NewOrder(d, taken).status
          = IF taken = Wanted(d) THEN "WAITING_PAYMENT" ELSE "WAITING_STOCK"
    <3> DEFINE s == IF taken = Wanted(d) THEN "WAITING_PAYMENT" ELSE "WAITING_STOCK"
               c == 1 + Cardinality(Created)
               i == IF taken = Wanted(d) THEN deals[d].items ELSE NoLines
               total == deals[d].totalAmount
    <3>1. NewOrder(d, taken) = [NoOrder EXCEPT !.status = s, !.createdAt = c,
                                               !.reservedQuantity = i, !.remainingAmount = total]
      BY DEF NewOrder, Created
    <3> HIDE DEF c, i, total, s
    <3>2. NewOrder(d, taken).status = s
      BY <3>1 DEF NoOrder
    <3> QED BY <3>2 DEF s
  <2>3. \/ orders'[d].status = "WAITING_PAYMENT" /\ OnlyFor(d, taken)[d] = Wanted(d)
        \/ orders'[d].status \notin {"CANCELLED", "WAITING_PAYMENT"}
    BY <2>1, <2>2
  <2> QED BY <1>1, <2>3, ReserveHolds
<1> QED BY <1>2, <1>3

LEMMA ReceiptHolds ==
  ASSUME ConstantsAssumption, IInv, HoldsTrue, NEW r, NEW key, NEW accepted,
         ProcessReceipt(r, key, accepted)
  PROVE  \A e \in Deals : HoldKept(e)
<1> SUFFICES ASSUME NEW e \in Deals PROVE HoldKept(e)
  OBVIOUS
<1> DEFINE batch == passes[r].batch
<1>1. PICK taken \in [Deals -> SUBSET Products] :
        /\ ProcessWaitingOrders(batch, ReceiveBalance(accepted), taken)
        /\ reservations' = ReserveRows(taken)
        /\ orders' = [d \in Deals |->
             IF d \in batch THEN ServedOrder(d, taken[d]) ELSE orders[d]]
  BY DEF ProcessReceipt
<1>2. deals' = deals /\ orders[e] \in Order
  BY DEF ProcessReceipt, IInv, RestOK
<1> HIDE DEF batch
<1>3. CASE e \in batch
  <2> DEFINE old == orders[e]
             items == deals[e].items
             all == taken[e] = Wanted(e)
             late == old.late \/ (taken[e] # {} /\ old.status # "WAITING_STOCK")
  <2>1. orders'[e] = Served(old, items, all, late)
    BY <1>1, <1>3 DEF ServedOrder, Served
  <2>2. /\ orders'[e].status = IF all THEN "WAITING_PAYMENT" ELSE old.status
        /\ orders'[e].late = late
    <3> HIDE DEF items, all, late
    <3> QED BY <1>2, <2>1 DEF Served, Order
  <2>3. CASE all
    BY <1>1, <1>2, <2>2, <2>3, ReserveHolds
  <2>4. CASE ~all /\ old.status = "WAITING_STOCK"
    BY <1>1, <1>2, <2>2, <2>4, ReserveHolds
  <2>5. CASE ~all /\ old.status # "WAITING_STOCK"
    <3>1. orders'[e].status = orders[e].status
      BY <2>2, <2>5
    <3>2. taken[e] # {} => orders'[e].late
      BY <2>2, <2>5
    <3>3. taken[e] = {} => orders'[e].late = orders[e].late
      BY <1>2, <2>2 DEF Order
    <3> HIDE DEF old, all
    <3> QED BY <1>1, <1>2, <3>1, <3>2, <3>3, ReserveHolds
  <2> QED BY <2>3, <2>4, <2>5
<1>4. CASE e \notin batch
  <2>1. orders'[e] = orders[e] /\ taken[e] = {}
    BY <1>1, <1>4 DEF ProcessWaitingOrders
  <2> QED BY <1>1, <1>2, <2>1, ReserveHolds
<1> QED BY <1>3, <1>4

LEMMA TickHolds ==
  ASSUME ConstantsAssumption, IInv, HoldsTrue, Tick
  PROVE  \A e \in Deals : HoldKept(e)
<1> SUFFICES ASSUME NEW e \in Deals, NEW p \in Products
             PROVE  Hold(orders'[e].status, orders'[e].late, reservations'[e][p], deals'[e].items[p])
  BY DEF HoldKept
<1> DEFINE rows == reservations[e][p]
<1>1. orders[e] \in Order /\ rows \in Seq(Reservation) /\ ReservationTtl \in Nat
  BY DEF IInv, RestOK, StockOK, Reservations, ConstantsAssumption
<1>2. orders'[e].status = orders[e].status /\ orders'[e].late = orders[e].late
  <2>1. orders'[e] = orders[e] \/ orders'[e] = AgedOrder(orders[e])
    BY DEF Tick, AgedOrder
  <2> QED BY <1>1, <2>1, AgedOrderFields, RewrittenSame DEF SameTruth
<1>3. reservations'[e][p] = AgedRows(rows) /\ deals'[e] = deals[e]
  BY DEF Tick
<1>4. Hold(orders[e].status, orders[e].late, rows, deals[e].items[p])
  BY DEF HoldsTrue
<1> HIDE DEF rows
<1>5. HeldOf(AgedRows(rows)) = HeldOf(rows)
  BY <1>1, HeldOfAged
<1>6. \A k \in DOMAIN rows : rows[k].status = "RELEASED" =>
        k \in DOMAIN AgedRows(rows) /\ AgedRows(rows)[k].status = "RELEASED"
  BY DEF AgedRows
<1> QED BY <1>2, <1>3, <1>4, <1>5, <1>6 DEF Hold, PromiseKept

\* Steps that change only one order, without a new promise, and no reservation.
LEMMA PromiseLeft ==
  ASSUME IInv, HoldsTrue, NEW d \in Deals, reservations' = reservations,
         \A e \in Deals : e # d => orders'[e] = orders[e],
         \A e \in Deals : deals'[e].items = deals[e].items,
         \/ orders'[d].status = orders[d].status /\ orders'[d].late = orders[d].late
         \/ orders'[d].status \notin {"CANCELLED", "WAITING_PAYMENT"}
  PROVE  \A e \in Deals : HoldKept(e)
BY HoldSame DEF HoldKept

LEMMA DeliveryHolds ==
  ASSUME ConstantsAssumption, IInv, OrdersTrue, HoldsTrue, NEW d \in Deals,
         NEW quantity \in Parts(deals[d].items), CreateDelivery(d, quantity)
  PROVE  \A e \in Deals : HoldKept(e)
<1>1. /\ orders \in [Deals -> Order] /\ deals \in [Deals -> Deal]
      /\ reservations \in Reservations
  BY DEF IInv, RestOK, StockOK
<1>2. /\ \A e \in Deals : e # d => orders'[e] = orders[e] /\ deals'[e] = deals[e]
      /\ \A e \in Deals : e # d => reservations'[e] = reservations[e]
  BY <1>1 DEF CreateDelivery, TryFinalize, CommitReservation, Reservations
<1>3. ASSUME NEW e \in Deals, e # d PROVE HoldKept(e)
  BY <1>2, <1>3, HoldSame DEF HoldKept
<1>4. orders'[d].status \notin {"CANCELLED", "WAITING_PAYMENT"}
  BY DeliveryKept
<1> QED BY <1>3, <1>4 DEF HoldKept, Hold

LEMMA OrderStepHolds ==
  ASSUME ConstantsAssumption, IInv, OrdersTrue, HoldsTrue, NEW d \in Deals, OrderStep(d)
  PROVE  \A e \in Deals : HoldKept(e)
<1>0. orders \in [Deals -> Order] /\ deals \in [Deals -> Deal]
  BY DEF IInv, RestOK
<1>1. CASE CreateFromDeal(d) \/ ConvertStockOnlyQuote(d)
  <2>1. PICK taken : CreateOrder(d, taken)
    BY <1>1 DEF CreateFromDeal, ConvertStockOnlyQuote
  <2> QED BY <2>1, CreateOrderHolds
<1>2. CASE CancelOrder(d)
  <2>1. /\ ReleaseReservation(d) /\ deals' = deals
        /\ orders' = [orders EXCEPT ![d].status = "CANCELLED", ![d].closedBy = "user"]
    BY <1>2 DEF CancelOrder
  <2> QED BY <2>1, ReleaseHolds
<1>3. CASE CancelExpiredWaitingPayment(d)
  <2>1. /\ ReleaseReservation(d) /\ deals' = deals
        /\ orders' = [orders EXCEPT ![d].status = "CANCELLED", ![d].closedBy = "ttl"]
    BY <1>3 DEF CancelExpiredWaitingPayment
  <2> QED BY <2>1, ReleaseHolds
<1>4. CASE \E p \in Products : HandleExpired(d, p)
  BY <1>4, HandleExpiredHolds
<1>5. CASE AddPayment(d)
  BY <1>5, PromiseLeft DEF AddPayment
<1>6. CASE \E k \in DOMAIN payments[d], verdict \in {"CONFIRMED", "REJECTED"} :
             ConfirmPayment(d, k, verdict)
  <2>1. PICK k \in DOMAIN payments[d], verdict \in {"CONFIRMED", "REJECTED"} :
          ConfirmPayment(d, k, verdict)
    BY <1>6
  <2> DEFINE rows == [payments[d] EXCEPT ![k].status = verdict]
             paid == ConfirmedTotal(rows)
             total == deals[d].totalAmount
             order == Paid(orders[d], paid, total)
  <2>2. /\ reservations' = reservations
        /\ \/ TryFinalize(d, deals[d], order)
           \/ orders' = [orders EXCEPT ![d] = order] /\ deals' = deals
    BY <2>1 DEF ConfirmPayment
  <2>3. order \in Order /\ order.status = orders[d].status /\ order.late = orders[d].late
    <3>1. total \in Nat
      BY OrderRows
    <3>2. rows \in Seq(Payment)
      <4>1. payments[d] \in Seq(Payment) /\ payments[d][k].status = "PENDING"
        BY <2>1, OrderRows DEF ConfirmPayment
      <4>2. k \in 1..Len(payments[d])
        BY <4>1, LenProperties
      <4> QED BY <4>1, <4>2, ConfirmedDecided
    <3>3. paid \in Nat
      BY <3>2, ConfirmedTotalType
    <3> HIDE DEF paid, total
    <3>4. orders[d] \in Order
      BY <1>0
    <3>5. order \in Order /\ order.status = orders[d].status
      BY <3>1, <3>3, <3>4, PaidFields
    <3>6. order.late = orders[d].late
      BY <3>4, DeliveredLeft
    <3> QED BY <3>5, <3>6
  <2> HIDE DEF order
  <2>4. CASE TryFinalize(d, deals[d], order)
    <3>1. /\ \A e \in Deals : e # d => orders'[e] = orders[e] /\ deals'[e] = deals[e]
          /\ orders'[d] = FinalizedOrder(deals[d], order)
          /\ deals'[d].items = deals[d].items
      BY <1>0, <2>4 DEF TryFinalize, FinalizedDeal, Deal
    <3>2. /\ orders'[d].status \in {orders[d].status, "COMPLETED"}
          /\ orders'[d].late = orders[d].late
      BY <2>3, <3>1, FinalizedStatus, DeliveredLeft
    <3> QED BY <2>2, <3>1, <3>2, PromiseLeft
  <2>5. CASE orders' = [orders EXCEPT ![d] = order] /\ deals' = deals
    BY <1>0, <2>2, <2>3, <2>5, PromiseLeft
  <2> QED BY <2>2, <2>4, <2>5
<1>7. CASE \E quantity \in Parts(deals[d].items) : CreateDelivery(d, quantity)
  BY <1>7, DeliveryHolds
<1>8. CASE ConfirmSupervisor(d)
  <2> DEFINE deal == [deals[d] EXCEPT !.supervisorConfirmed = TRUE]
  <2>1. TryFinalize(d, deal, orders[d]) /\ reservations' = reservations
    BY <1>8 DEF ConfirmSupervisor
  <2>2. deal.items = deals[d].items /\ DOMAIN deal = DOMAIN deals[d]
    BY <1>0 DEF Deal
  <2> HIDE DEF deal
  <2>3. /\ \A e \in Deals : e # d => orders'[e] = orders[e] /\ deals'[e] = deals[e]
        /\ orders'[d] = FinalizedOrder(deal, orders[d])
        /\ deals'[d].items = deals[d].items
    BY <1>0, <2>1, <2>2 DEF TryFinalize, FinalizedDeal
  <2>4. /\ orders'[d].status \in {orders[d].status, "COMPLETED"}
        /\ orders'[d].late = orders[d].late
    BY <1>0, <2>3, FinalizedStatus, DeliveredLeft
  <2> QED BY <2>1, <2>3, <2>4, PromiseLeft
<1>9. CASE \E stage \in {"OPEN", "WON", "LOST"} : ChangeStage(d, stage)
  <2>1. /\ orders' = orders /\ reservations' = reservations
        /\ \A e \in Deals : deals'[e].items = deals[e].items
    BY <1>0, <1>9 DEF ChangeStage, Deal
  <2> QED BY <2>1, PromiseLeft
<1> QED BY <1>1, <1>2, <1>3, <1>4, <1>5, <1>6, <1>7, <1>8, <1>9 DEF OrderStep

LEMMA StepHolds ==
  ASSUME ConstantsAssumption, IInv, OrdersTrue, HoldsTrue, [Next]_vars
  PROVE  HoldsTrue'
<1>0. ASSUME \A e \in Deals : HoldKept(e) PROVE HoldsTrue'
  BY <1>0 DEF HoldsTrue, HoldKept
<1>00. ASSUME orders' = orders, reservations' = reservations, deals' = deals PROVE HoldsTrue'
  BY <1>00 DEF HoldsTrue
<1>1. CASE \E d \in Deals : OrderStep(d)
  BY <1>0, <1>1, OrderStepHolds
<1>2. CASE \E r \in Receipts : ReceiptStep(r)
  <2>1. PICK r \in Receipts : ReceiptStep(r)
    BY <1>2
  <2>2. CASE \/ CreateExpectedReceipt(r)
             \/ UpdateWarehousePurchase(r)
             \/ CancelWarehousePurchase(r)
    BY <1>00, <2>2 DEF CreateExpectedReceipt, UpdateWarehousePurchase, CancelWarehousePurchase
  <2>3. CASE \E key \in ReceiptKeys \cup {NoKey}, accepted \in Parts(receipts[r].ordered) :
               ProcessReceipt(r, key, accepted)
    BY <1>0, <2>3, ReceiptHolds
  <2>4. CASE ListWaiting(r)
    BY <1>00, <2>4 DEF ListWaiting
  <2> QED BY <2>1, <2>2, <2>3, <2>4 DEF ReceiptStep
<1>3. CASE Tick
  BY <1>0, <1>3, TickHolds
<1>4. CASE UNCHANGED vars \/ ListExpired
  BY <1>00, <1>4 DEF vars, ListExpired
<1> QED BY <1>1, <1>2, <1>3, <1>4 DEF Next

\* An order that was cancelled, by a user or by the hourly job, or that was
\* never created keeps no goods, unless a receipt had listed it before; one that
\* waits for payment has all of its own set aside unless a reservation of it
\* expired.
THEOREM HoldingsFollowStatus == Spec => []OrdersHoldGoods
<1> DEFINE HInv == OInv /\ HoldsTrue
<1>1. Init => HInv
  <2> SUFFICES ASSUME Init PROVE HInv
    OBVIOUS
  <2>1. \A d \in Deals : orders[d].status = "NONE"
    BY DEF Init, NoOrder
  <2> QED BY <2>1, ConstantsAssumption, InitOInv DEF HoldsTrue, Hold
<1>2. HInv /\ [Next]_vars => HInv'
  BY ConstantsAssumption, StepOInv, StepHolds DEF OInv
<1>3. HInv => OrdersHoldGoods
  BY HoldsTrueImplies
<1> QED BY <1>1, <1>2, <1>3, PTL DEF Spec

-----------------------------------------------------------------------------
\* A receipt serves the waiting orders.

\* What the pass leaves of a product: what older orders and the order itself
\* got cannot be more than what the pass gave in all.
RestOf(taken, d) == [e \in Deals |-> IF e \in Older(d) THEN taken[e] ELSE {}]
NewerOf(taken, d, p) ==
  [e \in Deals |-> IF d \in Older(e) THEN TakenTable(taken, p)[e] ELSE 0]

LEMMA LeftWithNewer ==
  ASSUME ConstantsAssumption, deals \in [Deals -> Deal], orders \in [Deals -> Order],
         NEW p \in Products, NEW taken, NEW d \in Deals
  PROVE  /\ TakenOf(RestOf(taken, d), p) \in Nat
         /\ SumUpTo(NewerOf(taken, d, p), NumDeals) \in Nat
         /\ TakenOf(RestOf(taken, d), p) + SumUpTo(NewerOf(taken, d, p), NumDeals)
              <= TakenOf(taken, p)
<1> DEFINE rest == RestOf(taken, d)
           t == TakenTable(taken, p)
           o == TakenTable(rest, p)
           newer == NewerOf(taken, d, p)
           both == [e \in Deals |-> o[e] + newer[e]]
           other == [e \in Deals |-> t[e] - both[e]]
           n == NumDeals
<1>1. n \in Nat /\ Deals = 1..n /\ n \in 0..n
  BY DEF ConstantsAssumption, Deals
<1>2. /\ TakenOf(taken, p) = SumUpTo(t, n) /\ TakenOf(rest, p) = SumUpTo(o, n)
      /\ TakenOf(rest, p) \in Nat /\ TakenOf(taken, p) \in Nat
      /\ \A e \in Deals : t[e] \in Nat /\ o[e] \in Nat
  BY TakenOfType
<1>3. ASSUME NEW e \in Deals
      PROVE  /\ newer[e] \in Nat /\ both[e] = o[e] + newer[e]
             /\ other[e] = t[e] - both[e] /\ both[e] <= t[e]
  <2>1. o[e] = IF e \in Older(d) THEN t[e] ELSE 0
    BY DEF TakenTable, RestOf
  <2>2. newer[e] = IF d \in Older(e) THEN t[e] ELSE 0
    BY DEF NewerOf
  <2>3. ~ (e \in Older(d) /\ d \in Older(e))
    <3>1. orders[d].createdAt \in Nat /\ orders[e].createdAt \in Nat
      BY DEF Order
    <3> QED BY <3>1 DEF Older
  <2>4. both[e] = o[e] + newer[e] /\ other[e] = t[e] - both[e]
    OBVIOUS
  <2>5. t[e] \in Nat
    BY <1>2
  <2> HIDE DEF t, o, newer, both, other
  <2> QED BY <2>1, <2>2, <2>3, <2>4, <2>5
<1> HIDE DEF t, o, newer, both, other
<1>4. \A e \in 1..n : /\ o[e] \in Int /\ newer[e] \in Int /\ both[e] = o[e] + newer[e]
                      /\ newer[e] \in Nat /\ both[e] \in Int /\ other[e] \in Int
                      /\ other[e] \in Nat /\ t[e] = both[e] + other[e]
  BY <1>1, <1>2, <1>3
<1>5. SumUpTo(both, n) = SumUpTo(o, n) + SumUpTo(newer, n)
  BY <1>1, <1>4, SumAdd
<1>6. SumUpTo(t, n) = SumUpTo(both, n) + SumUpTo(other, n)
  BY <1>1, <1>4, SumAdd
<1>7. SumUpTo(newer, n) \in Nat
  BY <1>1, <1>4, SumNat
<1>8. SumUpTo(other, n) \in Nat
  BY <1>1, <1>4, SumNat
<1>9. SumUpTo(o, n) + SumUpTo(newer, n) <= SumUpTo(t, n)
  BY <1>2, <1>5, <1>6, <1>7, <1>8
<1> QED BY <1>2, <1>7, <1>9 DEF newer, o

ServedOrShort(d) ==
  \/ orders'[d].status = "WAITING_PAYMENT"
  \/ \E p \in Products :
       balance'[p].available
         + SumUpTo([e \in Deals |-> IF d \in Older(e) THEN Held(e, p)' - Held(e, p) ELSE 0],
                   NumDeals) < deals[d].items[p]

LEMMA ReceiptServes ==
  ASSUME ConstantsAssumption, IInv, NEW r \in Receipts, NEW key, NEW accepted,
         accepted \in Parts(receipts[r].ordered), ProcessReceipt(r, key, accepted),
         NEW d \in passes[r].batch
  PROVE  ServedOrShort(d)
<1> DEFINE bal == ReceiveBalance(accepted)
           batch == passes[r].batch
<1>1. PICK taken \in [Deals -> SUBSET Products] :
        /\ ProcessWaitingOrders(batch, bal, taken)
        /\ balance' = ReserveBalance(bal, taken)
        /\ reservations' = ReserveRows(taken)
        /\ orders' = [e \in Deals |->
             IF e \in batch THEN ServedOrder(e, taken[e]) ELSE orders[e]]
  BY DEF ProcessReceipt
<1>2. /\ orders \in [Deals -> Order] /\ deals \in [Deals -> Deal]
      /\ reservations \in Reservations /\ StockOK(balance, reservations)
      /\ d \in Deals
  BY DEF IInv, RestOK, StockOK, ListsTrue, Created
<1>3. accepted \in [Products -> Nat]
  <2>1. receipts[r].ordered \in Lines
    BY DEF IInv, RestOK, Receipt
  <2> QED BY <2>1, PartsType
<1>4. StockOK(bal, reservations)
  BY <1>2, <1>3, ReceiveKeepsStock
<1> HIDE DEF bal
<1>5. CASE taken[d] = Wanted(d)
  <2>1. orders'[d] = ServedOrder(d, taken[d])
    BY <1>1, <1>2
  <2>2. orders'[d].status = "WAITING_PAYMENT"
    <3> DEFINE old == orders[d]
               items == deals[d].items
               late == old.late \/ (taken[d] # {} /\ old.status # "WAITING_STOCK")
    <3>1. orders'[d] = Served(old, items, taken[d] = Wanted(d), late) /\ old \in Order
      BY <1>2, <2>1 DEF ServedOrder, Served
    <3> HIDE DEF old, items, late
    <3> QED BY <1>5, <3>1 DEF Served, Order
  <2> QED BY <2>2 DEF ServedOrShort
<1>6. CASE taken[d] # Wanted(d)
  <2>1. ReserveStock(d, LeftFor(d, bal, taken), taken[d])
    BY <1>1, <1>2 DEF ProcessWaitingOrders
  <2>2. PICK p \in Wanted(d) : ~ (LeftFor(d, bal, taken)[p] >= deals[d].items[p])
    BY <1>6, <2>1 DEF ReserveStock
  <2>3. p \in Products
    BY DEF Wanted
  <2> DEFINE rest  == RestOf(taken, d)
             newer == NewerOf(taken, d, p)
             held  == [e \in Deals |-> IF d \in Older(e) THEN Held(e, p)' - Held(e, p) ELSE 0]
             items == deals[d].items[p]
             given == TakenOf(taken, p)
             before == bal[p].available
  <2>4. LeftFor(d, bal, taken)[p] = before - TakenOf(rest, p)
    BY <2>3 DEF LeftFor, RestOf
  <2>5. /\ TakenOf(rest, p) \in Nat /\ SumUpTo(newer, NumDeals) \in Nat
        /\ TakenOf(rest, p) + SumUpTo(newer, NumDeals) <= given
    BY <1>2, <2>3, LeftWithNewer
  <2>6. balance'[p].available = before - given
    <3> DEFINE row == bal[p]
               x == row.reserved + given
               y == row.available - given
    <3>1. balance'[p] = RowReserved(row, x, y)
      BY <1>1, <2>3 DEF ReserveBalance, RowReserved
    <3>2. row \in Balance
      BY <1>4, <2>3 DEF StockOK
    <3> HIDE DEF row, x
    <3>3. RowReserved(row, x, y).available = y
      BY <3>2 DEF RowReserved, Balance
    <3> QED BY <3>1, <3>3 DEF row
  <2>7. \A e \in Deals : Held(e, p)' - Held(e, p) = TakenTable(taken, p)[e]
    <3> SUFFICES ASSUME NEW e \in Deals
                 PROVE  Held(e, p)' - Held(e, p) = TakenTable(taken, p)[e]
      OBVIOUS
    <3>1. HeldOf(reservations'[e][p]) = HeldOf(reservations[e][p]) + TakenTable(taken, p)[e]
      BY <1>1, <1>2, <2>3, TotalOfReserved
    <3>2. HeldOf(reservations[e][p]) \in Nat /\ TakenTable(taken, p)[e] \in Nat
      BY <1>2, <2>3, HeldOfType, TakenOfType DEF Reservations
    <3> QED BY <3>1, <3>2 DEF Held
  <2>8. held = newer
    BY <2>7 DEF NewerOf
  <2>9. /\ before \in Nat /\ items \in Nat /\ given \in Nat
    BY <1>2, <1>4, <2>3, TakenOfType DEF StockOK, Balance
  <2>10. before - TakenOf(rest, p) < items
    <3> HIDE DEF rest, items, before
    <3> QED BY <2>2, <2>4, <2>5, <2>9 DEF items
  <2>11. balance'[p].available + SumUpTo(newer, NumDeals) < items
    <3> HIDE DEF rest, newer, items, before, given
    <3> QED BY <2>5, <2>6, <2>9, <2>10
  <2>12. balance'[p].available + SumUpTo(held, NumDeals) < items
    <3> HIDE DEF newer, held, items
    <3> QED BY <2>8, <2>11
  <2> QED BY <2>3, <2>12 DEF ServedOrShort
<1> QED BY <1>5, <1>6

\* Only a receipt event adds to the events of a purchase.
LEMMA StepServes ==
  ASSUME ConstantsAssumption, OInv, ReceiptsTrue, [Next]_vars, NEW r \in Receipts,
         receipts'[r].events # receipts[r].events, NEW d \in passes[r].batch
  PROVE  ServedOrShort(d)
<1>1. ~ \E e \in Deals : OrderStep(e)
  BY OrderStepGoods DEF OInv
<1>2. ~ Tick /\ ~ ListExpired /\ ~ UNCHANGED vars
  BY DEF Tick, ListExpired, vars
<1>3. PICK s \in Receipts : ReceiptStep(s)
  BY <1>1, <1>2 DEF Next
<1>4. ~ (\/ CreateExpectedReceipt(s) \/ UpdateWarehousePurchase(s)
         \/ CancelWarehousePurchase(s))
  BY PurchaseTrue DEF OInv
<1>5. PICK key \in ReceiptKeys \cup {NoKey}, accepted \in Parts(receipts[s].ordered) :
        ProcessReceipt(s, key, accepted)
  <2>1. ~ ListWaiting(s)
    BY DEF ListWaiting
  <2> QED BY <1>3, <1>4, <2>1 DEF ReceiptStep
<1>6. s = r
  BY <1>5 DEF ProcessReceipt, OInv, IInv, RestOK
<1> QED BY <1>5, <1>6, ReceiptServes DEF OInv

\* Goods that arrive go to the oldest of the listed orders: one of them is left
\* as it was only when something it needs is short.
THEOREM WaitingAreServed == Spec => ReceiptServesWaiting
<1>1. Init => GInv
  BY ConstantsAssumption, InitGInv
<1>2. GInv /\ [Next]_vars => GInv'
  BY ConstantsAssumption, StepGInv
<1>3. GInv /\ [Next]_vars =>
        [\A r \in Receipts : receipts'[r].events # receipts[r].events =>
           \A d \in passes[r].batch :
             \/ orders'[d].status = "WAITING_PAYMENT"
             \/ \E p \in Products :
                  balance'[p].available
                    + SumUpTo([e \in Deals |->
                                 IF d \in Older(e) THEN Held(e, p)' - Held(e, p) ELSE 0],
                              NumDeals) < deals[d].items[p]]_vars
  BY ConstantsAssumption, StepServes DEF GInv, ServedOrShort
<1> QED BY <1>1, <1>2, <1>3, PTL DEF Spec, ReceiptServesWaiting
=============================================================================
