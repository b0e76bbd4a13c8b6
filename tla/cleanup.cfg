SPECIFICATION Spec
CONSTANTS
  MaxSteps = 1
  MaxDepth = 1
INVARIANT CleanedUpAtHome
CHECK_DEADLOCK FALSE
