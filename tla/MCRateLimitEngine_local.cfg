SPECIFICATION MCSpec
CONSTANTS
  WINDOW_MS = 2
  DAY_MS = 9
  Undefined = Undefined
  Nobody = Nobody
  Request = {r1, r2, r3, r4}
  High = {r4}
  Low = {r2}
  Big = {r2}
  Abortable = {r2}
  Rpm = 2
  Itpm = 2
  priority <- MCPriority
  est <- MCEst
  limits <- MCLimits
  maxConcurrent = 1
  maxQueueSize = 2
  dropLow = TRUE
  TimeoutMs = 3
  Delay = {2}
  LocalStore = TRUE
  StoreMayFail = FALSE
  MaxLocals = 2
  Drain = {d1}
  MaxTime = 5
  MaxArrival = 2
  MaxLag = 1
INVARIANTS QueuesMatch NoLostSlot NoSlotLeak SearchFindsPlace
PROPERTIES DropsLeastUrgent
CHECK_DEADLOCK FALSE
