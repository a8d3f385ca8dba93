SPECIFICATION FairSpec
CONSTANTS
  Creates = {c1, c2}
  Moves = {m1, m2}
  Numbers = {n1, n2}
  None = None
INVARIANTS
  TypeOK
  AtomicallyCoupled
  UniqueNumbers
  PathUnlessRaced
PROPERTY
  EveryRequestAnswered
