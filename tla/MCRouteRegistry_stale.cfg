CONSTANTS
  a1 = a1
  a2 = a2
  b1 = b1
  c1 = c1
  NoSession = NoSession
  Sessions = {a1, b1, c1}
  Sources = {"a", "b", "c"}
  SourceOf <- MCSourceOf
  MaxSuffix = 2
SPECIFICATION Spec
INVARIANT NamesDiffer
CHECK_DEADLOCK FALSE
