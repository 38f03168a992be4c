CONSTANTS
  Users = {"u1", "u2"}
  Unseen = Unseen
  Roster <- LegRoster
  Ceiling = 3
  Trouble = {}
  Races = FALSE
  MaxBytes = 4
  MaxFaults = 0
SPECIFICATION Spec
INVARIANT EveryByteAccounted
CHECK_DEADLOCK FALSE
