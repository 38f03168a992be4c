CONSTANTS
  Adapter = "singbox"
  Contexts = {"agent"}
  MaxRestarts = 1
  Breaches = 1
  MemoryLimit = TRUE
  Shutdowns = TRUE
  MaxRenders = 2
  MaxHarm = 2
SPECIFICATION FairSpec
INVARIANTS
  OneProcess
  DownAfterStop
  DownAfterCrashLoop
PROPERTIES
  RenderReturns
CHECK_DEADLOCK FALSE
