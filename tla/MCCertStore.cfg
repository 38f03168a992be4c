CONSTANTS
  MaxPairs = 3
  BadPairs = {1, 2, 3}
  MaxRestarts = 2
  Crashes = FALSE
  WriteFaults = FALSE
SPECIFICATION FairSpec
INVARIANTS
  ServedIsGuarded
  WayBackIsProven
PROPERTIES
  ConfirmedStays
  ReachableAgain
  KeepsPromise
CHECK_DEADLOCK FALSE
