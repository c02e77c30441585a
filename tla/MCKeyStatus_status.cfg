SPECIFICATION MCSpec
CONSTANTS
  WINDOW_MS = 2
  DAY_MS = 4
  Undefined = Undefined
  k1 = k1
  k2 = k2
  c1 = c1
  c2 = c2
  c3 = c3
  Key = {k1, k2}
  Call = {c1, c2, c3}
  keyOf <- MCKeyOf
  est <- MCEst
  modelOf <- MCModelOf
  Scoped = {k2}
  Rpm = 1
  limits <- MCLimits
  Estimate = {1}
  Usage = {}
  Delay = {1}
  PRUNE_EVERY = 2
  PRUNE_META = 2
  maxQueueSize = 1
  TimeoutMs = 2
  MaxTime = 4
INVARIANTS BusyKeysShown WaitTold
CHECK_DEADLOCK FALSE
