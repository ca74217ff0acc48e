\* A WebSocket client that hangs up, beside two TCP clients.
SPECIFICATION FairSpec
CONSTANTS
  t1 = t1
  t2 = t2
  w1 = w1
  Conns <- MixedConns
  TcpConns <- TwoTcpConns
  WsConns <- OneWsConn
  RoomIds = {lobby}
  NoConn = NoConn
  NoRoom = NoRoom
  Server = Server
  ChannelSize = 1
  NoTimeout = FALSE
  MaxConns = 0
  MaxLines <- NobodySpeaks
PROPERTY WsHandlerReturns
CHECK_DEADLOCK FALSE
