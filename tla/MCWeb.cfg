CONSTANTS
  Conns = {c1, c2}
  Nobody = Nobody
  Handler = Handler
  maxConnections = 1
  maxQueued = 1
  MaxSends = 2
  MaxReads = 2
  MaxFrames = 3
  MaxReceives = 4
  MaxTexts = 1
  Requests = {q1, q2}
  NoRequest = NoRequest
  Main = Main
  MaxParts = 2
  maxUploadFiles = 1
  MaxSaves = 3
SPECIFICATION WebSpec
INVARIANTS ConnectionLimit QueuedBeforeClose SameCodeBothEnds UploadsKept
PROPERTIES CloseCompletes KeepsStream ReceiveEnds RequestEnds
CHECK_DEADLOCK FALSE
