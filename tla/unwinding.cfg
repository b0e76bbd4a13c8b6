SPECIFICATION Spec
CONSTANTS
  MaxSteps = 3
  MaxDepth = 2
INVARIANT
  AllOrNothing
PROPERTY
  UndoneBackwards
CHECK_DEADLOCK FALSE
