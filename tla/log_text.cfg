SPECIFICATION Spec
CONSTANTS
  MaxLength = 3
  MaxEvents = 2
  Times = {3, 4}
  Second = 2
  Minute = 2
INVARIANTS
  TypeOK
  ReadsBack
  StampIsExact
CHECK_DEADLOCK FALSE
