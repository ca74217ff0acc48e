\* A room without an idle timeout.
SPECIFICATION Spec
CONSTANTS
  t1 = t1
  t2 = t2
  w1 = w1
  Conns <- TwoTcpConns
  TcpConns <- TwoTcpConns
  WsConns = {}
  RoomIds = {lobby}
  NoConn = NoConn
  NoRoom = NoRoom
  Server = Server
  ChannelSize = 1
  NoTimeout = TRUE
  MaxConns = 0
  MaxLines <- NoLines
PROPERTY NoAutoExpire
CHECK_DEADLOCK FALSE
