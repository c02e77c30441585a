SPECIFICATION MCFairSpec
CONSTANTS
  WINDOW_MS = 1
  DAY_MS = 9
  Undefined = Undefined
  Nobody = Nobody
  Request = {r1, r2, r3}
  High = {r3}
  Low = {r2}
  Big = {r1}
  Abortable = {r2}
  Rpm = 2
  Itpm = 2
  priority <- MCPriority
  est <- MCEst
  limits <- MCLimits
  maxConcurrent = 1
  maxQueueSize = 2
  dropLow = TRUE
  TimeoutMs = 3
  Delay = {}
  LocalStore = FALSE
  StoreMayFail = TRUE
  MaxLocals = 1
  Drain = {d1, d2}
  MaxTime = 7
  MaxArrival = 3
  MaxLag = 2
INVARIANTS NoLostWakeup
PROPERTIES DrainsInPriorityOrder Settles
CHECK_DEADLOCK FALSE
