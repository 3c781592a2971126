SPECIFICATION Spec
CONSTANTS
  pool = pool
  m1 = m1
  m2 = m2
  form = form
  again = again
  button = button
  d1 = d1
  d3 = d3
  d4 = d4
  d5 = d5
  Pool = pool
  Managers = {m1, m2}
  Phones = {"p"}
  MaxTasks = 3
  MaxLeads = 2
  MaxClients = 2
  ItemLists <- Items
  PurchasePrice = 3
  BasePrice = 4
  MaxDeals = 1
  MaxOffers = 2
  Updates = {form, again, button}
  NoUpdate = NoUpdate
  UserOf <- Forms
  PhoneOf <- FormPhones
  Markup = {again}
  Deliveries = {d1, d3, d4, d5}
  UpdateOf <- Delivered
  MaxTries = 2
  MaxReaps = 2
  Scenarios <- AllScenarios
INVARIANTS
  HandedOverOnce
  SignedUponOffer
PROPERTIES
  EveryUpdateSettles
  NobodyForgotten
  OverdueReachesManager
  LostOnce
CHECK_DEADLOCK FALSE
