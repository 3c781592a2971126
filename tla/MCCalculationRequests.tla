------------------------ MODULE MCCalculationRequests ------------------------
(***************************************************************************)
(* Instances of CalculationRequests for TLC.  Callers are interchangeable:   *)
(* no property and no action tells them apart.                               *)
(***************************************************************************)
EXTENDS CalculationRequests, TLC

CONSTANTS r1, r2       \* calculation requests
CONSTANTS c1, c2, c3   \* callers
CONSTANTS i1           \* lists of items
CONSTANTS p1, p2       \* suppliers

Symmetry == Permutations(Callers)

\* A lead that several qualify while a user makes a request; what is done to a
\* request of that lead up to its quote and the next versions of it; a direct
\* calculation and its quote while the decision changes; prices;
\* rates.
None == [handlers |-> {}, requests |-> 0, sessions |-> 0, decisions |-> 0, rates |-> 0,
         callers |-> 2, leads |-> {"QUALIFIED"}]
Qualifying ==
  [None EXCEPT !.handlers = {"qualify", "request", "confirm", "close"},
               !.requests = 2, !.sessions = 3, !.decisions = 2, !.callers = 3,
               !.leads = {"IN_PROGRESS", "QUALIFIED"}]
OfRequest ==
  [None EXCEPT !.handlers = {"qualify", "edit", "submit", "finalize", "quote", "version"},
               !.requests = 1, !.sessions = 4, !.callers = 3]
OfDecision ==
  [None EXCEPT !.handlers = {"calculate", "update", "finalize", "delete", "confirm", "quote", "rate"},
               !.sessions = 2, !.decisions = 2, !.rates = 1]
Prices ==
  [None EXCEPT !.handlers = {"rate", "tick", "confirm", "preview"}, !.decisions = 1, !.rates = 1]
Rates == [None EXCEPT !.handlers = {"rate", "tick"}, !.rates = 3]
AllScenarios == {Qualifying, OfRequest, OfDecision, Prices, Rates}

\* Lines of one size, which a whole number of sheets covers, and of more or less
\* than that, by a head and by a manager; and lines that are refused.
Sheet == [width |-> 3, height |-> 5]
Line == [type |-> "interior", size |-> Sheet, thickness |-> "valid", area |-> 30,
         color |-> "own", described |-> FALSE, mapped |-> TRUE, price |-> 0]
SomeLines ==
  {[Line EXCEPT !.area = a, !.price = p] : a \in {1, 15, 16, 30, 44}, p \in {0, 7}}
  \cup {[Line EXCEPT !.type = "custom", !.described = d] : d \in BOOLEAN}
  \cup {[Line EXCEPT !.type = "exterior"], [Line EXCEPT !.size = NoSize],
        [Line EXCEPT !.mapped = FALSE], [Line EXCEPT !.color = "unknown"]}
==============================================================================
