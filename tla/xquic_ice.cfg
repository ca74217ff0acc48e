SPECIFICATION FairSpec
CONSTANTS
  QueueMax = 2
  PipeCap = 2
  ReadMax = 2
  NonBlockingRead = TRUE
  MaxPackets = 4
  MaxSignals = 1
INVARIANTS
  TypeOK
  QueueConsistent
  InOrder
  NoLostWakeup
PROPERTIES
  IsPacketChannel
  PacketServed
  TimerServed
  WriteReturns
CHECK_DEADLOCK FALSE
