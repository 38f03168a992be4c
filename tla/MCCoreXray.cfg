CONSTANTS
  Adapter = "xray"
  Contexts = {"background", "push"}
  MaxRestarts = 2
  Breaches = 2
  MemoryLimit = TRUE
  Shutdowns = FALSE
  MaxRenders = 2
  MaxHarm = 3
SPECIFICATION Spec
INVARIANTS
  TypeOK
  OneProcess
  Accounted
  TagIsOfItsProcess
  CrashLoopEnds
CHECK_DEADLOCK FALSE
