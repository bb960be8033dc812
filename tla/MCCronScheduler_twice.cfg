CONSTANTS
  Schedules <- TwoJobs
  Horizon = 9
  MaxSetBacks = 1
SPECIFICATION CronSpec
INVARIANTS NeverTwice
CHECK_DEADLOCK FALSE
