SPECIFICATION MCSpec
CONSTANTS
  Uploads = {f1}
  FileCalls = {g1, g2}
  Links = {l1}
  Entities = {e1}
  MaxFileSize = 1
  MaxBody = 2
  MaxBreaks = 2
  Void = Void
  Comments = {c1, c2, c3}
  Removers = {d1}
  Readers = {r1, r2}
  Users = {u1, u2}
  Ghosts = {g}
  Posts <- MCPosts
  Changes = {x1, x2}
  PageSize = 1
  LargestPage = 2
  MaxOffset = 1
  AuditLimit = 1
SYMMETRY Symmetry
INVARIANTS
  RecordsSchema
  StoresAgree
  PostedTogether
  ThreadsSound
  AnswersAreTrue
CHECK_DEADLOCK FALSE
