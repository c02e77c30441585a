SPECIFICATION MCSpec
CONSTANTS
  Call = {c1, c2, c3}
  Keyed = {c1, c2}
  dedupKey <- MCDedupKey
  Nobody = Nobody
  NoKey = NoKey
  Undefined = Undefined
  maxAttempts = 2
  callTimeout = 1
  Delay = {1}
  drainMs = 2
  Scoped = {c1, c3}
  scopeMaxConcurrent = 2
  MaxTime = 5
  MaxArrival = 1
INVARIANTS OneExecutionPerKey
PROPERTIES NothingStaleShared ShutdownWaits Settles
CHECK_DEADLOCK FALSE
