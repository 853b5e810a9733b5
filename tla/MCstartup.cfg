SPECIFICATION FairSpec
CONSTANTS
  p1 = p1
  p2 = p2
  Starters = {p1, p2}
  Servers = {p1, p2}
  Embedded = {p1}
  Schema <- Created
  Jobs <- JobTable
  Columns <- Added
  Codes <- SeedCodes
  RoleNames <- SeedRoles
  RoleMap <- SeedMap
  Admin = "admin"
  MayBeUnnamed = {p2}
  MaxBatch = 2
  MaxDisruptions = 3
INVARIANTS
  IInv
  ReadyComplete
  AuthComplete
  NoDangling
  StopBounded
PROPERTIES
  NothingUndone
  NeverTwice
  StartsEventually
CHECK_DEADLOCK FALSE
