SPECIFICATION Spec
CONSTANTS
  Calls = {c1, c2, c3}
  Capacity = 1
  MaxCount = 7
  ClientKinds = {"Token", "Post"}
  WorkerKinds = {}
PROPERTY RefusedOnlyWhenFull
CHECK_DEADLOCK FALSE
