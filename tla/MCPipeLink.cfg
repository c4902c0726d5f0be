SPECIFICATION Spec
CONSTANTS
  Stages = 3
  TP = 2
  MaxSteps = 3
  Plans <- MCPlans
INVARIANTS
  InputsIntact
PROPERTIES
  EveryStepEnds
  ImplementsStagedSteps
CHECK_DEADLOCK FALSE
