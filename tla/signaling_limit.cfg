\* One TCP connection at a time, beside a WebSocket one.
SPECIFICATION FairSpec
CONSTANTS
  t1 = t1
  t2 = t2
  w1 = w1
  Conns <- MixedConns
  TcpConns <- TwoTcpConns
  WsConns <- OneWsConn
  RoomIds = {lobby}
  NoConn = NoConn
  NoRoom = NoRoom
  Server = Server
  ChannelSize = 1
  NoTimeout = FALSE
  MaxConns = 1
  MaxLines <- OnlyWsSpeaks
INVARIANTS
  TcpLimitKept
PROPERTIES
  TcpHandlerReturns
CHECK_DEADLOCK FALSE
