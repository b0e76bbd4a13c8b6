SPECIFICATION Spec
CONSTANTS
  Messages = {m1, m2}
  Handlers = {h1, h2}
  MaxLevel = 2
  Flags = {f1}
  LogFilters = {{f1}}
  MaxSets = 1
  MaxLives = 2
  Nobody = Nobody
SYMMETRY LogSymmetry
INVARIANTS
  TypeOK
  SameOrder
  NoneMissed
  RelevantIsLogged
  StaticsCover
  SubmitHasEngine
CHECK_DEADLOCK FALSE
