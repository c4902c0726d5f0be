CONSTANTS
  Node <- MCNode
  RANK_ORDER <- MCOrder
  HeadNode = 0
  Threshold = 3
  Unreliable <- AnyNodes
  MaxFaults = 5
SPECIFICATION FairSpec
PROPERTIES
  NoStaleStart
  HeadFindsWorkers
  TeardownOnlyAfterStreak
  FleetRecovers
