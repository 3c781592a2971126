-------------------------------- MODULE Sums --------------------------------
(***************************************************************************)
(* Totals over the rows 1..n of a table.  The services compute them with    *)
(* Array.reduce or with an SQL aggregate (_sum); the order of the rows does *)
(* not matter to the result.  SumsTheorems proves the facts about them that *)
(* the ledger invariants rest on.                                           *)
(***************************************************************************)
EXTENDS Integers, Sequences

\* f[1] + ... + f[n]; a recursive function, so that its laws can be proved.
SumUpTo(f, n) ==
  LET s[i \in 0..n] == IF i = 0 THEN 0 ELSE s[i - 1] + f[i]
  IN  s[n]

\* The total of a sequence of numbers.
SumSeq(q) == SumUpTo(q, Len(q))

AtMost(a, b) == IF a <= b THEN a ELSE b
=============================================================================
