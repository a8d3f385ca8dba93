SPECIFICATION MCSpec
CONSTANTS
  Registers = {u1, u2}
  RoleCalls = {r1, r2}
  Admins = {a1, a2}
  Sessions = {s1}
  Emails = {e1}
  Codes = {k1}
  Tenants = {t1}
  Permissions = {p1, star}
  Star = star
  TTL = 1
  MaxTime = 1
  MaxFaults = 1
  Accounts = {sa1}
  Keys = {key1}
  Editors = {ed1, ed2}
  Requests = {rq1, rq2}
  Addresses = {ip1}
  Allowed = {ip1}
  MaxClock = 1
  Allows = {1, 2, 3}
  Closers = {x1}
  Limit = 2
  Window = 2
  MaxWall = 3
  None = None
  Absent = Absent
SYMMETRY Symmetry
INVARIANTS
  AccessSchema
  AccessAsAsked
  TokensAreTrue
  EntryWasOpen
  KeyRowsAreTrue
  LimiterSound
CHECK_DEADLOCK FALSE
