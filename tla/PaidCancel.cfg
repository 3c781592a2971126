SPECIFICATION Spec
CONSTANTS
  a = a
  b = b
  key1 = key1
  NoKey = NoKey
  head = head
  owner = owner
  accountant = accountant
  Products <- OneProduct
  NumDeals = 1
  NumReceipts = 0
  Baskets <- OneBaskets
  Totals = {1}
  Stages = {"WON"}
  Installations = {"no"}
  StageMoves <- NoMoves
  InitialStock <- OneOfA
  PurchaseBaskets <- PairPurchase
  ReceiptKeys = {}
  PaymentAmounts = {1}
  MaxPayments = 1
  Recorders = {head}
  Accountants = {accountant}
  ReservationTtl = 1
  BatchSize = 2
INVARIANT
  PaidOrderNotAutoCancelled
CHECK_DEADLOCK FALSE
