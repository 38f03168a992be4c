CONSTANTS
  Cores = {xray, hysteria}
  MaxAttempts = 2
  MaxSaves = 1
  MaxRevision = 2
  MaxInbox = 2
  MaxFaults = 1
SPECIFICATION FairSpec
INVARIANTS
  TypeOK
  AckedIsHeld
  RecordedIsHeld
PROPERTIES
  Converges
CHECK_DEADLOCK FALSE
