------------------------------ MODULE WsServer ------------------------------
(***************************************************************************)
(* The WebSocket transport of the signalling server                        *)
(* (signaling/internal/transport/websocket.go): ServeHTTP, one goroutine   *)
(* per request, so that requests check the connection limit concurrently.  *)
(***************************************************************************)
EXTENDS PeerHandler

CONSTANT WsConns   \* the requests to the HTTP port

ASSUME WsServerAssumption == WsConns \subseteq Conns

VARIABLE wsDone    \* the handlers whose channel done was closed

WsInit == wsDone = {}

WsVars == <<handlerVars, roomVars, wsDone>>

\* The request is within the limit, its room_id is not too long.
WsCheck(c) ==
  /\ Goto(c, "out", "upgrade")
  /\ ~AtLimit("ws")
  /\ UNCHANGED <<seat, stream, connCount, roomVars, wsDone>>

\* The request is refused: too many connections, or a room_id too long.
WsReject(c) ==
  /\ Goto(c, "out", "done")
  /\ UNCHANGED <<seat, stream, connCount, roomVars, wsDone>>

\* The upgrade succeeds, and only now is the connection counted.
WsUpgrade(c) ==
  /\ Goto(c, "upgrade", "lookup")
  /\ CountConn("ws", 1)
  /\ UNCHANGED <<seat, stream, roomVars, wsDone>>

WsUpgradeFails(c) ==
  /\ Goto(c, "upgrade", "done")
  /\ UNCHANGED <<seat, stream, connCount, roomVars, wsDone>>

\* Mutant: RemovePeer is deferred only after the role was written.
WsRoleFailsKeepsPeer(c) ==
  /\ Goto(c, "role", "release")
  /\ gone' = gone \cup {c}
  /\ UNCHANGED <<seat, writer, sent, wire, connCount, roomVars, wsDone>>

\* The role message cannot be written: return, through RemovePeer.
WsRoleFails(c) ==
  /\ Goto(c, "role", "leave")
  /\ gone' = gone \cup {c}
  /\ UNCHANGED <<seat, writer, sent, wire, connCount, roomVars, wsDone>>

\* done is closed: the handler returns, through RemovePeer.
WsReturns(c) ==
  /\ c \in wsDone
  /\ Goto(c, "wait", "leave")
  /\ UNCHANGED <<seat, stream, connCount, roomVars, wsDone>>

\* The writer's range loop ends because the channel was closed: it closes
\* done.
WsWriterEnds(c) ==
  /\ WriterEnds(c)
  /\ wsDone' = wsDone \cup {c}

\* The writer cannot write: it returns at once, and done stays open.
WsWriterFails(c) ==
  /\ writer[c] = "run"
  /\ ch[c] # <<>>
  /\ ch' = [ch EXCEPT ![c] = Tail(@)]
  /\ writer' = [writer EXCEPT ![c] = "ended"]
  /\ gone' = gone \cup {c}
  /\ UNCHANGED <<pc, seat, sent, wire, connCount, rooms, slots, closed, wsDone>>

\* What the handler of c does on its own; on a broken connection, that
\* includes the end of its read loop.
WsHandler(c) ==
  \/ WsUpgrade(c)
  \/ WsUpgradeFails(c)
  \/ UNCHANGED wsDone /\ JoinLookup(c)
  \/ UNCHANGED wsDone /\ JoinAdd(c)
  \/ UNCHANGED wsDone /\ JoinFull(c)
  \/ UNCHANGED wsDone /\ SendRole(c)
  \/ WsRoleFails(c)
  \/ c \in gone /\ UNCHANGED wsDone /\ ReadFails(c, "read", "wait")
  \/ WsReturns(c)
  \/ UNCHANGED wsDone /\ LeaveLookup(c)
  \/ UNCHANGED wsDone /\ LeaveRemove(c, "release")
  \/ UNCHANGED wsDone /\ Release(c, "ws")

WsWriter(c) ==
  \/ UNCHANGED wsDone /\ WriterWrites(c)
  \/ WsWriterEnds(c)
  \/ WsWriterFails(c)

\* What depends on the client.  When its connection ends, the read loop
\* breaks and the handler waits for done.
WsClient(c) ==
  \/ WsCheck(c)
  \/ WsReject(c)
  \/ UNCHANGED wsDone /\ Relay(c)
  \/ UNCHANGED wsDone /\ ReadFails(c, "read", "wait")

WsNext == \E c \in WsConns : WsClient(c) \/ WsHandler(c) \/ WsWriter(c)

WsFairness ==
  \A c \in WsConns : WF_WsVars(WsHandler(c)) /\ WF_WsVars(WsWriter(c))
=============================================================================
