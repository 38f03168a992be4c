CONSTANTS
  n1 = n1
  n2 = n2
  j1 = j1
  j2 = j2
  j3 = j3
  Nodes = {n1}
  Jobs = {j1, j2}
  Concurrency = 2
  Entries = {n1}
  Wants = {"disable", "enable", "extend"}
  MaxAttempts = 2
  MaxEdits = 2
  MaxFaults = 1
SPECIFICATION FairSpec
INVARIANTS
  TypeOK
  SweptIsOff
PROPERTIES
  OffForGood
CHECK_DEADLOCK FALSE
