SPECIFICATION Spec
CONSTANTS
  Messages = {m1}
  Handlers = {h1, h2}
  MaxLevel = 2
  Flags = {f1}
  LogFilters = {{f1}}
  MaxSets = 1
  MaxLives = 1
  Nobody = Nobody
INVARIANT MostDetailed
CHECK_DEADLOCK FALSE
