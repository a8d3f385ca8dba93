SPECIFICATION FairSpec
CONSTANTS
  Dispatches = {d1, d2}
  Endpoints = {p1}
  MaxAttempts = 3
  MaxFaults = 1
  MaxStops = 1
INVARIANTS
  RetriesUntilAnswered
  LogIsFaithful
PROPERTIES
  DispatchEnds
CHECK_DEADLOCK FALSE
