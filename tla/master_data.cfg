SPECIFICATION MCSpec
CONSTANTS
  Creations = {1, 2, 3}
  PartyCalls = {4, 5}
  Additions = {6}
  Walkers = {w1}
  RoleTypes = {"t1", "t2"}
  OrgIds = {h1}
  PartyCodes = {y1}
  DefaultPage = 2
  MaxPage = 3
  MaxMishaps = 1
  Unset = Unset
  Units = {1, 2, 3}
  UnitLetters = {1, 2, 3}
  Conversions = {4, 5, 6}
  Exponents = {1, 2}
  Tiny = Tiny
  Zero = Zero
  Products = {7, 8}
  Variants = {10, 11}
  ProductCalls = {12, 13}
  Skus = {s1}
  Barcodes = {b1, b2}
  Missing = Missing
  Fields = {1, 2}
  FieldCalls = {3, 4}
  Setters = {5}
  Targets = {e1}
  FieldCodes = {"k1", "k2"}
  Values = {"x", ""}
  FieldRequests <- MCFieldRequests
  FieldChanges <- MCFieldChanges
  Nil = Nil
  Orgs = {o1, o2, o3}
  Foreign = {x1}
  Updates = {1, 2}
  None = None
SYMMETRY Symmetry
INVARIANTS
  MasterSchema
  AsAsked
  WalkMeetsAll
  ConvertTakesShortestPath
  ValuesObeyRules
  HierarchySound
CHECK_DEADLOCK FALSE
