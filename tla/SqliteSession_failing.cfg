CONSTANTS
  MaxOpens = 1
  MaxRequests = 4
  MaxWrites = 2
SPECIFICATION SqliteSpec
INVARIANT TransactionKept
CHECK_DEADLOCK FALSE
