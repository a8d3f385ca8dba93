SPECIFICATION FairSpec
CONSTANTS
  Creates = {c1}
  Moves = {m1, m2}
  Numbers = {n1}
  None = None
PROPERTY
  StrictLifecycle
