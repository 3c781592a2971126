--------------------------- MODULE MCOrderStockTx ---------------------------
(***************************************************************************)
(* Instances of OrderStockTx for TLC: two sessions and two orders of one or *)
(* two products.  Two sessions show every race of two handlers; the third   *)
(* call happens before, between or after them.                              *)
(***************************************************************************)
EXTENDS OrderStockTx, TLC

CONSTANTS a, b        \* products
CONSTANTS s1, s2      \* sessions

\* Two units of a for each order, or one unit of each product.
TwoUnits == [d \in Orders |-> [p \in Products |-> IF p = a THEN 2 ELSE 0]]
OneEach == [d \in Orders |-> [p \in Products |-> 1]]

\* What users do with two orders of two products, of which there is one each.
Users ==
  [handlers |-> {"create", "cancel", "deliver", "receive"},
   items |-> OneEach, stock |-> [p \in Products |-> 1],
   orders |-> {"NONE", "WAITING_PAYMENT", "WAITING_STOCK"},
   payments |-> {"PENDING", "CONFIRMED"}, recorded |-> 1, installation |-> "no"]

\* The cron jobs and the supervisor as well, on two orders of one product.
Jobs ==
  [Users EXCEPT !.handlers = @ \cup {"confirm", "expire", "ttl", "supervisor"},
                !.items = TwoUnits, !.stock = [p \in Products |-> IF p = a THEN 2 ELSE 0],
                !.payments = {"PENDING"}, !.recorded = 2, !.installation = "yes"]

\* A reservation that expires while it is delivered.
Oversold ==
  [Users EXCEPT !.handlers = {"expire", "deliver", "create"},
                !.items = TwoUnits, !.stock = [p \in Products |-> IF p = a THEN 2 ELSE 0],
                !.orders = {"NONE", "WAITING_PAYMENT"}]

\* Deliveries of two orders that take the products in different orders.
Deliveries ==
  [Users EXCEPT !.handlers = {"deliver"}, !.stock = [p \in Products |-> 2],
                !.orders = {"WAITING_PAYMENT"}, !.payments = {"CONFIRMED"}]

UsersAndJobs == {Users, Jobs, Deliveries}
OnlyOversold == {Oversold}

SessionSymmetry == Permutations(Sessions)
=============================================================================
