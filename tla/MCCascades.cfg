CONSTANTS
  c1 = c1
  c2 = c2
  c3 = c3
  a = a
  b = b
  Cascades = {c1, c2, c3}
  Nodes = {a, b}
  Savers = {1, 2}
  Stored <- MCStored
  Start = 3
  Requests <- MCRequests
  MaxEvents = 2
SPECIFICATION FairSpec
INVARIANTS
  TypeOK
  PushedEnough
PROPERTIES
  NoNewPair
  Converges
CHECK_DEADLOCK FALSE
