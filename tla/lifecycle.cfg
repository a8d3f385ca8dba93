SPECIFICATION MCSpec
CONSTANTS
  Names = {1, 2, 3}
  Offers <- MCOffers
  MaxRpcs = 1
  Runs = {b1, b2}
  Creators = {c1}
  Updaters = {w1, w2}
  MaxErrors = 1
  Void = Void
INVARIANTS
  LifeSchema
  OrderIsRight
  StopsInOrder
  NewAllOrNothing
  TenantAsLeft
PROPERTIES
  StartReturns
CHECK_DEADLOCK FALSE
