SPECIFICATION OrgSpec
CONSTANTS
  Orgs = {o1, o2}
  Foreign = {}
  Updates = {u1, u2}
  None = None
INVARIANT
  AcyclicHierarchy
CHECK_DEADLOCK FALSE
