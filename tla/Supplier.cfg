SPECIFICATION LiveSpec
CONSTANTS
  o1 = o1
  o2 = o2
  j1 = j1
  j2 = j2
  NoDay = NoDay
  SupplierOrders = {o1, o2}
  Plans <- AllPlans
  LastDay = 2
  Jobs = {j1, j2}
  MaxCalls = 2
  StageMoves <- AllMoves
  Scenarios <- BothScenarios
INVARIANTS
  SuppliedWhenPaid
  DatesStayOrdered
  RemindedOnce
PROPERTIES
  StatusFollowsTransitions
  OverdueIsNoticed
CHECK_DEADLOCK FALSE
