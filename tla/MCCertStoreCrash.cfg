CONSTANTS
  MaxPairs = 3
  BadPairs = {2}
  MaxRestarts = 3
  Crashes = TRUE
  WriteFaults = TRUE
SPECIFICATION Spec
INVARIANTS
  TypeOK
  TrustedPairKept
CHECK_DEADLOCK FALSE
