SPECIFICATION MCSpec
CONSTANTS
  WINDOW_MS = 2
  DAY_MS = 4
  Undefined = Undefined
  Key = {k1, k2}
  Rpm = 2
  Itpm = 5
  Rpd = 3
  Otpm = 2
  limits <- MCLimits
  Estimate = {2, 5}
  Usage = {1}
  Delay = {1,3}
  PRUNE_EVERY = 2
  MaxTime = 5
  Watched = {k1}
INVARIANTS RefusalTight LoneWaiterAdmitted EstimateAgrees
PROPERTIES KeepsPromise BackoffHonoured
CHECK_DEADLOCK FALSE
