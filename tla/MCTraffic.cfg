CONSTANTS
  Users = {"u1", "u2"}
  Unseen = Unseen
  Roster <- MixedRoster
  Ceiling = 1
  Trouble = {"noData", "cleared"}
  Races = FALSE
  MaxBytes = 3
  MaxFaults = 1
SPECIFICATION FairSpec
INVARIANTS
  TypeOK
  NeverOverbilled
  EveryByteAccounted
  NodeNotOvercounted
PROPERTIES
  ReadAgain
