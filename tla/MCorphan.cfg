SPECIFICATION RestartSpec
CONSTANTS
  c1 = c1
  c2 = c2
  w1 = w1
  w2 = w2
  k1 = k1
  NoKey = NoKey
  Clients = {c1}
  Workers = {w1}
  MaxJobs = 1
  Refs = {1}
  Keys = {k1}
  RedisProcs <- AllProcs
  Faults <- RedisDown
  RetryLimits = {1}
  BaseBackoff = 1
  MaxBackoff = 2
PROPERTIES
  QueuedIsClaimed
