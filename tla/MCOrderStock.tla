---------------------------- MODULE MCOrderStock ----------------------------
(***************************************************************************)
(* Instances of OrderStock for TLC: one or two products, one or two deals,  *)
(* quantities of one or two units.  Two units of a product are enough for a *)
(* partial delivery, a partial receipt and an order that takes what an      *)
(* older, larger one cannot use; two products are enough for an order that  *)
(* holds one line while the other one is short.                             *)
(***************************************************************************)
EXTENDS OrderStock

CONSTANTS a, b                      \* products
CONSTANTS key1                      \* an idempotency key
CONSTANTS head, owner, accountant   \* users

TwoProducts == {a, b}
OneProduct == {a}

Basket(qa, qb) == [p \in Products |-> IF p = a THEN qa ELSE qb]

PairBaskets == {Basket(1, 1), Basket(2, 0)}
OneBaskets == {Basket(1, 0)}
SmallBaskets == {Basket(1, 0), Basket(2, 0)}

OneOfA == Basket(1, 0)

PairPurchase == {Basket(1, 1)}
OnePurchases == {Basket(1, 0), Basket(2, 0)}

NoMoves == {}
\* Won, and a won deal reopened by an override or an offer.  (A lost deal is to
\* its order what an open one is.)
AllMoves == {<<"OPEN", "WON">>, <<"WON", "OPEN">>}
=============================================================================
