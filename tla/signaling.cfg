\* Three connections meet in two rooms: full rooms, deleted rooms, races.
SPECIFICATION Spec
CONSTANTS
  t1 = t1
  t2 = t2
  w1 = w1
  Conns <- MixedConns
  TcpConns <- TwoTcpConns
  WsConns <- OneWsConn
  RoomIds = {lobby, hall}
  NoConn = NoConn
  NoRoom = NoRoom
  Server = Server
  ChannelSize = 1
  NoTimeout = FALSE
  MaxConns = 0
  MaxLines <- TwoLinesFromWs
INVARIANTS
  TypeOK
  SlotsHaveOpenChannels
  NoGhostPeer
  RoleFirst
  RelayedInOrder
  CountsExact
PROPERTIES
  IsRoomRelay
SYMMETRY Symmetry
CHECK_DEADLOCK FALSE
