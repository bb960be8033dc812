CONSTANTS
  Conns = {c1}
  Nobody = Nobody
  Handler = Handler
  maxConnections = 1
  maxQueued = 1
  MaxSends = 1
  MaxReads = 1
SPECIFICATION Spec
INVARIANT FirstCloserReported
CHECK_DEADLOCK FALSE
