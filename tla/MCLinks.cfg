CONSTANTS
  QueueLimit = 2
  MaxCalls = 4
  MaxEvents = 4
  MaxOpens = 2
  MaxRequests = 6
  MaxWrites = 2
  r1 = r1
  r2 = r2
  c1 = c1
  c2 = c2
  Runs = {r1, r2}
  Commands = {c1}
  Action <- OneForce
  Ports = {1, 2}
  Crashes = FALSE
SPECIFICATION LinksSpec
INVARIANTS RowsAsTold
PROPERTIES BothKeepCallLink EventsInOrder WindowEnds BackupKept RunEnds
CHECK_DEADLOCK FALSE
