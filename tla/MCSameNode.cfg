CONSTANTS
  N = 4
  Placement <- Four
  OpenMayFail = {1, 3}
  CreateMayFail = {2}
SPECIFICATION FairSpec
INVARIANTS
  CallsMatch
  NeverMerged
  KeptTogether
  NoSegmentLeft
PROPERTIES
  ReturnsIfCreated
CHECK_DEADLOCK FALSE
