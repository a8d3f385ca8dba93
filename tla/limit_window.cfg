SPECIFICATION LimiterSpec
CONSTANTS
  Allows = {r1, r2, r3}
  Closers = {c1}
  Limit = 2
  Window = 2
  MaxWall = 4
SYMMETRY Symmetry
INVARIANT
  WindowLimit
CHECK_DEADLOCK FALSE
