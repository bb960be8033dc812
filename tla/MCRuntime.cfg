CONSTANTS
  Schedules <- TwoJobs
  Horizon = 9
  MaxSetBacks = 1
  k1 = k1
  k2 = k2
  k3 = k3
  Callers = {k1, k2, k3}
  NoCaller = NoCaller
  t1 = t1
  t2 = t2
  Transactions = {t1, t2}
  NoTransaction = NoTransaction
  MaxConns = 2
SPECIFICATION RuntimeSpec
INVARIANTS OncePerOccurrence StatementInside
PROPERTIES NotQueued StopEndsRun PoolCloses
CHECK_DEADLOCK FALSE
