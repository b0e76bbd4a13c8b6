SPECIFICATION LifeSpec
CONSTANTS
  Calls = {c1}
  Capacity = 1
  MaxCount = 7
  ClientKinds = {"Post"}
  WorkerKinds = {}
INVARIANT EarlyExceptionRethrown
CHECK_DEADLOCK FALSE
