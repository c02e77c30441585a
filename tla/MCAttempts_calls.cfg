SPECIFICATION MCSpec
CONSTANTS
  Call = {c1, c2, c3}
  threshold = 2
  cooldown = 3
  Undefined = Undefined
  SECOND = 2
  MAX_TIMER = 7
  maxAttempts = 2
  strategy = "exponential"
  baseDelay = 1
  maxDelay = 2
  jitter = TRUE
  parseRetryAfter = TRUE
  retryOn = {429, 500}
  Error <- MCError
  tripOn = {500}
  maxConcurrent = 2
  maxQueueSize = 1
  queueTimeout = 2
  MaxTime = 7
  MaxArrival = 6
SYMMETRY Symmetry
INVARIANTS BlocksExactlyDuringCooldown EventsTellCircuit RetryAfterSuffices MetricsAgree
PROPERTIES OpensOnlyOnStreak WaitsAsTold NewcomersPause RateLimitsDoNotTrip
CHECK_DEADLOCK FALSE
