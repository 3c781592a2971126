SPECIFICATION Spec
CONSTANTS
  r1 = r1
  r2 = r2
  c1 = c1
  c2 = c2
  c3 = c3
  i1 = i1
  p1 = p1
  p2 = p2
  NoRequest = NoRequest
  NoItems = NoItems
  NoSupplier = NoSupplier
  NoPreview = NoPreview
  Lines <- SomeLines
  Qualification <- Line
  TablePrice = 13
  RateValues = {1, 3}
  Requests = {r1, r2}
  MaxSessions = 4
  Callers = {c1, c2, c3}
  Items = {i1}
  Suppliers = {p1, p2}
  LastDay = 3
  Scenarios <- AllScenarios
SYMMETRY Symmetry
INVARIANTS
  QualifiedOnce
  QuotedIsFinal
  AlwaysARate
  PreviewCovers
PROPERTIES
  SubmittedOnce
CHECK_DEADLOCK FALSE
