SPECIFICATION Spec
CONSTANTS
  c1 = c1
  c2 = c2
  c3 = c3
  c4 = c4
  Calls <- ThreeCalls
  NumThreads = 0
  Cores = 2
  UintMax = 2
  QueueCapacity = 1
  ClientKinds <- AnyCall
  WorkerKinds <- TaskKinds
  Nobody = Nobody
SYMMETRY CallSymmetry
INVARIANTS
  TypeOK
  RoundRobin
  CloseIsComplete
  LatePostDropped
  JoinedMeansLeft
PROPERTY PipelinesAreSequencers
CHECK_DEADLOCK FALSE
