SPECIFICATION Spec
CONSTANTS
  Requests = {r1, r2, r3}
  Admins = {a1}
  Configs <- DailyDefault
  MaxTime = 4
  TicksPerDay = 2
  DaysPerMonth = 2
  MonthsPerYear = 2
  LocalOffset = 0
  StartValue = 1
  IncrementBy = 1
  None = None
INVARIANT
  NoDuplicateNumbers
