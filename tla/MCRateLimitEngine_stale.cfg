SPECIFICATION MCSpec
CONSTANTS
  WINDOW_MS = 2
  DAY_MS = 9
  Undefined = Undefined
  Nobody = Nobody
  Request = {r1, r2, r3}
  High = {r3}
  Low = {r2}
  Big = {}
  Abortable = {}
  Rpm = 1
  Itpm = Undefined
  priority <- MCPriority
  est <- MCEst
  limits <- MCLimits
  maxConcurrent = Undefined
  maxQueueSize = 2
  dropLow = TRUE
  TimeoutMs = 3
  Delay = {}
  LocalStore = FALSE
  StoreMayFail = FALSE
  MaxLocals = 1
  Drain = {d1}
  MaxTime = 8
  MaxArrival = 4
  MaxLag = 1
INVARIANTS AdmittedOnlyWhenRecorded
CHECK_DEADLOCK FALSE
