CONSTANTS
  Files = {entry, lib}
  Entry = entry
  Cap = 1
  MaxSaves = 1
  Stoppers = {ctrlC}
  CtrlC = ctrlC
  Forced = {}
  Sessions = {s1, s2}
  Bindable = {2}
SPECIFICATION DevSpec
PROPERTIES StopCompletes EntryIsBuilt RouterKeepsUp
CHECK_DEADLOCK FALSE
