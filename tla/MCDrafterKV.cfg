SPECIFICATION Spec
CONSTANTS
  Geometries <- MCGeometries
  FitUnit = 4
  KernelSizes = {2, 4}
  MaxLen = 4
  Window = 2
  MaxHeld = 2
INVARIANTS
  HeldDataIntact
  EveryLayerBound
  AccountsAgree
\* A boot may be refused, fail or leave this layout: it stops there.
CHECK_DEADLOCK FALSE
