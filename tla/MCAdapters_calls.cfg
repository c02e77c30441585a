SPECIFICATION Spec
CONSTANTS
  m1 = m1  m2 = m2  m3 = m3
  c1 = c1  c2 = c2  c3 = c3  c4 = c4  c5 = c5
  tenant = tenant  team = team
  Undefined = Undefined
  Unlisted = Unlisted
  Model = {m1, m2, m3}
  Call = {c1, c2, c3, c4, c5}
  Pool <- MCPool
  Target <- MCTarget
  Usage <- MCUsage
  budget = 1
  estimate = 1
  userRpm <- MCUserRpm
  wildcardRpm <- MCWildcardRpm
  scopeRpm <- MCScopeRpm
  registryRpm <- MCRegistryRpm
  Rpm = {4}
  MaxRecords = 2
  MaxSpent = 1
INVARIANTS RecordedOnce RecordedWhereAcquired StreamTotals
PROPERTIES LimitsInForce
SYMMETRY PoolCalls
CHECK_DEADLOCK FALSE
