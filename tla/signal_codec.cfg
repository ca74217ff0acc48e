\* Two messages behind a role line, cut anywhere.
SPECIFICATION Spec
CONSTANTS
  Symbols <- SmallAlphabet
  Messages <- SmallMessages
  Room = "lobby"
  Role = "peer2"
  BufSize = 40
  SdpMax = 4
  Cuts = {1, 4, 26}
  MaxSends = 2
INVARIANTS
  TypeOK
  LinesSurviveChunks
  NothingLostAfterRole
  RoleRead
CHECK_DEADLOCK FALSE
