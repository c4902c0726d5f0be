SPECIFICATION GroupsSpec
CONSTANTS
  WorldSize = 8
  Layouts <- EightRanks
  BuildFailures <- SomeOfEight
  DestroyFailures <- SomeRaise
INVARIANTS
  GroupsOnAxes
  EnsureVouches
  CleanupSuffices
