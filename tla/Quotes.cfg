SPECIFICATION Spec
CONSTANTS
  q1 = q1
  q2 = q2
  q3 = q3
  f1 = f1
  f2 = f2
  f3 = f3
  d1 = d1
  d2 = d2
  r1 = r1
  r2 = r2
  c1 = c1
  c2 = c2
  NoQuote = NoQuote
  NoRequest = NoRequest
  NoFile = NoFile
  NoDeal = NoDeal
  Callers = {c1, c2}
  Quotes = {q1, q2, q3}
  Requests = {r1, r2}
  Deals = {d1, d2}
  Files = {f1, f2, f3}
  Prices = {1}
  StageMoves <- ReopenedMoves
  Scenarios <- AllScenarios
SYMMETRY Symmetry
INVARIANTS
  DocumentsMatch
  VersionsFormAChain
  OneExecutionBasis
  ConvertedTogether
PROPERTIES
  NothingIsTakenBack
  StockChoiceSettled
CHECK_DEADLOCK FALSE
