SPECIFICATION MCSpec
CONSTANTS
  Request = {r1, r2, r3}
  Usage = {u1, u2}
  Dear = {r3, u2}
  Hourly = 2
  Daily = 3
  Monthly = 4
  est <- MCEst
  price <- MCPrice
  budget <- MCBudget
  HOUR_MS = 1
  DAY_MS = 2
  MONTH_MS = 4
  Undefined = Undefined
  OnExceeded = {"fallback", "queue"}
  TimeoutMs = 2
  MIN_WAIT_MS = 1
  HasFallback = {r1, r2}
  MaxTime = 6
  MaxArrival = 3
INVARIANTS ReportsTellHistory
PROPERTIES CapsSurviveRestarts NobodyOversleeps HeldUntilDeadline BudgetWaitEnds
CHECK_DEADLOCK FALSE
