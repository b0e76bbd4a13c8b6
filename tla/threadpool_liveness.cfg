SPECIFICATION FairSpec
CONSTANTS
  c1 = c1
  c2 = c2
  c3 = c3
  c4 = c4
  Calls <- FourCalls
  NumThreads = 2
  Cores = 0
  UintMax = 3
  QueueCapacity = 1
  ClientKinds <- Roles
  WorkerKinds = {"Close"}
  Nobody = Nobody
PROPERTIES
  CloseEndsWorkers
  WaitersReturn
  TasksRun
CHECK_DEADLOCK FALSE
