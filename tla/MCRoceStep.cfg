CONSTANTS
  a = a
  b = b
  Rank <- MCRank
  OutputRank = a
  MaxOp = 2
  Configs <- AnyConfig
SPECIFICATION FairSpec
INVARIANTS
  ReleasedComplete
  ReleasedClean
PROPERTIES
  ImplementsFailStop
  StarvedPeerRaises
CHECK_DEADLOCK FALSE
