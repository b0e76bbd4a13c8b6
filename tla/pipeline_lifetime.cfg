SPECIFICATION LifeFairSpec
CONSTANTS
  Calls = {c1, c2, c3}
  Capacity = 1
  MaxCount = 7
  ClientKinds = {"Sync", "Close"}
  WorkerKinds = {"Timer", "Close"}
PROPERTIES
  DestroyedIsUntouched
  QueuedIsHandled
  ShutdownCompletes
  SyncReturnsWhileOpen
  DestructorReturns
CHECK_DEADLOCK FALSE
