SPECIFICATION MCSpec
CONSTANTS
  WINDOW_MS = 3
  DAY_MS = 5
  Undefined = Undefined
  Instance = {i1, i2}
  offset <- MCOffset
  firstCounter <- MCFirstCounter
  limits <- MCLimits
  Estimate = {1, 2}
  Usage = {1}
  Delay = {2}
  BUFFER_MS = 2
  MaxSkew = 1
  MaxDelay = 1
  Fast = {i1}
  Late = {i1}
  Rpm = 2
  Itpm = 3
  Rpd = 3
  Otpm = 2
  MaxTime = 5
  MaxCalls = 2
INVARIANTS EstimateAgrees
PROPERTIES KeepsPromise BackoffHonoured
CHECK_DEADLOCK FALSE
