SPECIFICATION Spec
CONSTANTS
  c1 = c1
  c2 = c2
  w1 = w1
  w2 = w2
  k1 = k1
  NoKey = NoKey
  Clients = {c1, c2}
  Workers = {w1}
  MaxJobs = 2
  Refs = {1, 2}
  Keys = {k1}
  RedisProcs <- NoProcs
  Faults <- NoFaults
  RetryLimits = {0}
  BaseBackoff = 1
  MaxBackoff = 2
INVARIANTS
  OneJobPerKey
