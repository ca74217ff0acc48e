SPECIFICATION Spec
CONSTANTS
  Client = TRUE
  PipeModes = {"blocking"}
  MaxStates = 2
  MaxPackets = 2
INVARIANT NotUsedAfterFree
CHECK_DEADLOCK FALSE
