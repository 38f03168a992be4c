CONSTANTS
  Adapter = "xray"
  Contexts = {"background", "push"}
  MaxRestarts = 2
  Breaches = 2
  MemoryLimit = TRUE
  Shutdowns = FALSE
  MaxRenders = 2
  MaxHarm = 0
SPECIFICATION Spec
INVARIANT DownAfterCrashLoop
CHECK_DEADLOCK FALSE
