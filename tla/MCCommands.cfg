CONSTANTS
  Files = {entry}
  Entry = entry
  Cap = 2
  MaxSaves = 2
  Stoppers = {ctrlC, kill}
  CtrlC = ctrlC
  Forced = {kill}
  r1 = r1
  r2 = r2
  c1 = c1
  c2 = c2
  Runs = {r1, r2}
  Commands = {c1, c2}
  Action <- StopAndForce
  Ports = {1, 2}
  Crashes = TRUE
SPECIFICATION CommandsSpec
SYMMETRY RunSymmetry
INVARIANTS OneChild StopMeansGone BinaryKept
  EndpointAnswers StoppedMeansExited PublishedIsStoppable OnlyAskedSignals
PROPERTIES NoStartAfterStop
CHECK_DEADLOCK FALSE
