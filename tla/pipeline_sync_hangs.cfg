SPECIFICATION FairSpec
CONSTANTS
  Calls = {c1, c2}
  Capacity = 1
  MaxCount = 7
  ClientKinds = {"Sync", "Close"}
  WorkerKinds = {}
PROPERTY SyncReturns
CHECK_DEADLOCK FALSE
