-------------------------- MODULE MCQuoteLifecycle --------------------------
(***************************************************************************)
(* Instances of QuoteLifecycle for TLC.  Requests and callers are            *)
(* interchangeable: no property and no action tells them apart.              *)
(***************************************************************************)
EXTENDS QuoteLifecycle, TLC

CONSTANTS q1, q2, q3   \* quotes
CONSTANTS f1, f2, f3   \* stored documents
CONSTANTS d1, d2   \* deals
CONSTANTS r1, r2   \* calculation requests
CONSTANTS c1, c2   \* callers

Symmetry == Permutations(Callers) \cup Permutations(Requests)

\* Documents and versions of three quotes; two quotes on the way to the deal
\* with all that happens to the lead; and, without their versions, with all that
\* happens to the deal.
Documents ==
  [handlers |-> {"create", "pricing", "terms", "finalize", "version"},
   quotes |-> 3, terms |-> {1}, crashes |-> 1]
WhileLeadMoves ==
  [handlers |-> {"create", "pricing", "finalize", "version", "status", "accept", "convert",
                 "lead", "disqualify", "qualification"},
   quotes |-> 2, terms |-> {1}, crashes |-> 0]
WhileDealMoves ==
  [WhileLeadMoves EXCEPT
     !.handlers = {"create", "pricing", "finalize", "status", "accept", "repair", "convert",
                   "lead", "deal"}]
AllScenarios == {Documents, WhileLeadMoves, WhileDealMoves}

ReopenedMoves == {<<"EARLY", "WON">>, <<"AGREED", "WON">>, <<"LOST", "EARLY">>}
=============================================================================
