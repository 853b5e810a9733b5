SPECIFICATION RestartSpec
CONSTANTS
  c1 = c1
  c2 = c2
  w1 = w1
  w2 = w2
  k1 = k1
  NoKey = NoKey
  Clients = {c1}
  Workers = {w1, w2}
  MaxJobs = 2
  Refs = {1, 2}
  Keys = {k1}
  RedisProcs <- NoProcs
  Faults <- AllFaults
  RetryLimits = {1}
  BaseBackoff = 1
  MaxBackoff = 1
INVARIANTS
  TypeOK
  DeadLetterIffExhausted
  SucceededHasDocument
PROPERTIES
  QueuedIsClaimed
  ImplementsLifecycle
