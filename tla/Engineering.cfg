SPECIFICATION Spec
CONSTANTS
  e1 = e1
  e2 = e2
  board = board
  profile = profile
  base = base
  dry = dry
  special = special
  mounting = mounting
  offer1 = offer1
  NoOffer = NoOffer
  Engineers = {e1, e2}
  Configs = {base, dry, special}
  BaseConfig = base
  Norms <- NormTable
  Works = {mounting}
  Areas = {1, 2}
  Quantities = {1}
  Needs = {{"facade"}, {"installation"}}
  MaxAssignments = 3
  MaxCalls = 2
  Scenarios <- AllScenarios
  HplMaterials = {board}
  Offers = {offer1}
  Foreign = {offer1}
  Amounts = {1}
  MaxRows = 2
  MaxOfferRevision = 3
  MaxQuotes = 1
  MaxCatalogChanges = 1
INVARIANTS
  ActiveIsLatest
  QuantitiesFollowNorms
  NewestIsCurrent
  ApprovedWasPresented
PROPERTIES
  RevisionTellsChange
  QuotedOnCurrentBasis
SYMMETRY EngineerSymmetry
CHECK_DEADLOCK FALSE
