SPECIFICATION Spec
CONSTANTS
  r1 = r1
  r2 = r2
  r3 = r3
  p1 = p1
  p2 = p2
  None = None
  Requests = {r1, r2, r3}
  Processes = {p1, p2}
  ProcessOf <- TwoProcesses
  RedisProcs = {p1, p2}
  Limit = 1
  Window = 2
  MaxTime = 3
  RedisFails = TRUE
SYMMETRY Symmetry
INVARIANTS
  IInv
  MemoryQuota
  RedisQuota
  TotalQuota
CHECK_DEADLOCK FALSE
