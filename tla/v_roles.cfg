\* Two TCP clients that join the same room identifier.
SPECIFICATION Spec
CONSTANTS
  t1 = t1
  t2 = t2
  w1 = w1
  Conns <- TwoTcpConns
  TcpConns <- TwoTcpConns
  WsConns = {}
  RoomIds = {lobby}
  NoConn = NoConn
  NoRoom = NoRoom
  Server = Server
  ChannelSize = 1
  NoTimeout = TRUE
  MaxConns = 0
  MaxLines <- NoLines
INVARIANT OneAnswererPerRoom
CHECK_DEADLOCK FALSE
