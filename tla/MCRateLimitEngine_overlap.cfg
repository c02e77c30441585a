SPECIFICATION MCSpec
CONSTANTS
  WINDOW_MS = 2
  DAY_MS = 9
  Undefined = Undefined
  Nobody = Nobody
  Request = {r1, r2, r3}
  High = {}
  Low = {}
  Big = {}
  Abortable = {}
  Rpm = 3
  Itpm = Undefined
  priority <- MCPriority
  est <- MCEst
  limits <- MCLimits
  maxConcurrent = 1
  maxQueueSize = 2
  dropLow = TRUE
  TimeoutMs = 3
  Delay = {}
  LocalStore = TRUE
  StoreMayFail = FALSE
  MaxLocals = 1
  Drain = {d1}
  MaxTime = 8
  MaxArrival = 4
  MaxLag = 1
INVARIANTS AtMostMaxConcurrent
CHECK_DEADLOCK FALSE
