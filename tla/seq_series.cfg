SPECIFICATION FairSpec
CONSTANTS
  Requests = {r1, r2}
  Admins = {a1, a2}
  Configs <- MixedConfigs
  MaxTime = 4
  TicksPerDay = 1
  DaysPerMonth = 2
  MonthsPerYear = 2
  LocalOffset = 0
  StartValue = 1
  IncrementBy = 2
  None = None
INVARIANTS
  UniqueWithinEpoch
  NoSkippedValue
PROPERTIES
  EveryAcquireAnswered
