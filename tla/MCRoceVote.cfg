CONSTANTS
  r0 = r0
  r1 = r1
  r2 = r2
  limA = limA
  limB = limB
  Refusal = Refusal
  NoVote = NoVote
  Root = r0
  Rank <- MCRank
  Limit <- MCLimit
  GatherLimit <- MCGatherLimit
  Capability <- MCCapability
  Settings <- MCSettings
SPECIFICATION VoteFairSpec
PROPERTIES
  ImplementsAllOrNothing
  EveryRankFinishes
CHECK_DEADLOCK FALSE
