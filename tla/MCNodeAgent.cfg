CONSTANTS
  Pushes <- MCPushes
  XrayIds = {"x1", "x2"}
  NodeBlocks = {"policy"}
  Reserved = {22}
  Failures = {"refused", "failed"}
  MaxFaults = 2
SPECIFICATION Spec
INVARIANTS
  TypeOK
  StoredIsServed
  HandOffFollowsChain
  StoredPair
  StoredIsOpen
  NoStaleRule
  AnsweredIsServed
CHECK_DEADLOCK FALSE
