SPECIFICATION FairSpec
CONSTANTS
  QueueMax = 2
  PipeCap = 2
  ReadMax = 2
  NonBlockingRead = FALSE
  MaxPackets = 4
  MaxSignals = 1
PROPERTY PacketServed
CHECK_DEADLOCK FALSE
