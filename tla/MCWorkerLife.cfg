SPECIFICATION Spec
CONSTANTS
  Workers = {w1, w2}
  Engines <- MCEngines
  FreeMemory = {8, 9, 10}
  Requested = 8
  Redundancy = 1
  EstimateGraphs = TRUE
  Models = {"main", "draft"}
INVARIANTS
  PeakFits
  ServesIntact
  TargetFollowsSession
  FinishVouches
SYMMETRY Symmetric
