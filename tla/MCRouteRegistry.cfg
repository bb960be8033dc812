CONSTANTS
  a1 = a1
  a2 = a2
  b1 = b1
  c1 = c1
  NoSession = NoSession
  Sessions = {a1, a2, b1}
  Sources = {"a", "b", "c"}
  SourceOf <- MCSourceOf
  MaxSuffix = 1
SPECIFICATION FairSpec
INVARIANTS RouteKept
PROPERTIES SuffixHasReason RegistryAnswers
CHECK_DEADLOCK FALSE
