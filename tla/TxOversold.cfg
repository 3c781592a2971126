SPECIFICATION Spec
CONSTANTS
  a = a
  b = b
  s1 = s1
  s2 = s2
  Products = {a, b}
  NumOrders = 2
  TotalAmount = 1
  NumPayments = 2
  Sessions = {s1, s2}
  ReceiptQuantity = 1
  MaxQuantity = 2
  MaxCalls = 3
  NumRows = 3
  Scenarios <- OnlyOversold
SYMMETRY SessionSymmetry
INVARIANT
  NeverOversold
CHECK_DEADLOCK FALSE
