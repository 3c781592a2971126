SPECIFICATION LiveSpec
CONSTANTS
  a = a
  b = b
  key1 = key1
  NoKey = NoKey
  head = head
  owner = owner
  accountant = accountant
  Products <- OneProduct
  NumDeals = 1
  NumReceipts = 1
  Baskets <- SmallBaskets
  Totals = {0, 2}
  Stages = {"OPEN", "WON"}
  Installations = {"null", "no", "yes"}
  StageMoves <- AllMoves
  InitialStock <- OneOfA
  PurchaseBaskets <- OnePurchases
  ReceiptKeys = {key1}
  PaymentAmounts = {1, 2}
  MaxPayments = 2
  Recorders = {head}
  Accountants = {owner}
  ReservationTtl = 1
  BatchSize = 2
INVARIANTS
  TypeOK
  LedgerBalanced
  OrderFaithful
  CompletedMeansSettled
  GoodsFaithful
PROPERTY
  EveryReservationEnds
  FinalStaysFinal
CHECK_DEADLOCK FALSE
