SPECIFICATION FairSpec
CONSTANTS
  Client = TRUE
  PipeModes = {"blocking", "nonblocking"}
  MaxStates = 2
  MaxPackets = 2
INVARIANTS
  TypeOK
  ServesCompleteContext
  EngineOneThread
  OneEngine
PROPERTIES
  PacketReachesDrain
CHECK_DEADLOCK FALSE
