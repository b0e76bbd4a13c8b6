SPECIFICATION Spec
CONSTANTS
  Calls = {c1, c2, c3}
  Capacity = 1
  MaxCount = 7
  ClientKinds <- AllKinds
  WorkerKinds <- AllKinds
SYMMETRY CallSymmetry
INVARIANTS
  TypeOK
  CountAccounting
  QueueBound
  Fifo
  PromiseAlive
  SyncReport
  ThrowContained
  ClosedBeforeClosing
  WaitReturnsAfterExit
PROPERTIES
  NoStartAfterClosed
  RefusedWhenFull
  ImplementsSequencer
CHECK_DEADLOCK FALSE
