SPECIFICATION ImageSpec
CONSTANTS
  Stages <- MCStages
  Overlay <- MCOverlay
  Upstream = upstream
  Drifts <- MCDrifts
  MaxRev = 2
  Nothing = nothing
INVARIANTS
  ImagesWhole
  FinishedIsFresh
  ScriptsVouch
