SPECIFICATION Spec
CONSTANTS
  a = a
  b = b
  key1 = key1
  NoKey = NoKey
  head = head
  owner = owner
  accountant = accountant
  Products <- TwoProducts
  NumDeals = 2
  NumReceipts = 1
  Baskets <- PairBaskets
  Totals = {1}
  Stages = {"WON"}
  Installations = {"no"}
  StageMoves <- NoMoves
  InitialStock <- OneOfA
  PurchaseBaskets <- PairPurchase
  ReceiptKeys = {}
  PaymentAmounts = {1}
  MaxPayments = 0
  Recorders = {head}
  Accountants = {accountant}
  ReservationTtl = 1
  BatchSize = 2
INVARIANTS
  OrdersHoldGoods
PROPERTY
  ReceiptServesWaiting
CHECK_DEADLOCK FALSE
