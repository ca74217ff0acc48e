----------------------------- MODULE TcpServer -----------------------------
(***************************************************************************)
(* The TCP transport of the signalling server                              *)
(* (signaling/internal/transport/transport.go): the accept loop and the    *)
(* handler of a connection, with the timer it leaves behind.               *)
(***************************************************************************)
EXTENDS PeerHandler

CONSTANT TcpConns   \* the connections to the TCP port

ASSUME TcpServerAssumption == TcpConns \subseteq Conns

VARIABLE timer      \* time.AfterFunc of each handler: "none", "armed",
                    \* "delete" once ShouldExpire answered TRUE

TcpInit == timer = [c \in Conns |-> "none"]

\* The accept loop, one goroutine: only it adds to connCount, so its check
\* still holds when it adds.
TcpAccept(c) ==
  /\ Goto(c, "out", "scan")
  /\ ~AtLimit("tcp")
  /\ CountConn("tcp", 1)
  /\ UNCHANGED <<seat, stream, roomVars, timer>>

TcpReject(c) ==
  /\ Goto(c, "out", "done")
  /\ AtLimit("tcp")
  /\ UNCHANGED <<seat, stream, connCount, roomVars, timer>>

\* The first line: a join message names the room, any other (or a name that
\* is too long) leaves "default".  roomOf is what comes out of it.
TcpFirstLine(c) ==
  /\ Goto(c, "scan", "lookup")
  /\ UNCHANGED <<seat, stream, connCount, roomVars, timer>>

\* After RemovePeer: a timer is set if the room this handler joined is empty.
TcpArm(c) ==
  /\ Goto(c, "arm", "release")
  /\ timer' = [timer EXCEPT ![c] = IF Empty(room[c]) THEN "armed" ELSE "none"]
  /\ UNCHANGED <<seat, stream, connCount, roomVars>>

\* Five seconds later, ShouldExpire of that room object ...
TcpTimerFires(c) ==
  /\ timer[c] = "armed"
  /\ \E expired \in ShouldExpire(room[c]) :
       timer' = [timer EXCEPT ![c] = IF expired THEN "delete" ELSE "none"]
  /\ UNCHANGED <<handlerVars, roomVars>>

\* ... and DeleteRoom, by identifier: of whatever object is there by now.
TcpTimerDeletes(c) ==
  /\ timer[c] = "delete"
  /\ DeleteRoom(roomOf[c])
  /\ timer' = [timer EXCEPT ![c] = "none"]
  /\ UNCHANGED handlerVars

\* What the handler of c does on its own.
TcpHandler(c) ==
  \/ UNCHANGED timer /\ JoinLookup(c)
  \/ UNCHANGED timer /\ JoinAdd(c)
  \/ UNCHANGED timer /\ JoinFull(c)
  \/ UNCHANGED timer /\ SendRole(c)
  \/ UNCHANGED timer /\ LeaveLookup(c)
  \/ UNCHANGED timer /\ LeaveRemove(c, "arm")
  \/ TcpArm(c)
  \/ UNCHANGED timer /\ Release(c, "tcp")

TcpWriter(c) == UNCHANGED timer /\ (WriterWrites(c) \/ WriterEnds(c))

TcpTimer(c) == TcpTimerFires(c) \/ TcpTimerDeletes(c)

\* What depends on the client: it connects, sends lines and hangs up, before
\* or after its first line.  The handler returns from the former, and goes
\* through RemovePeer in the latter case.
TcpClient(c) ==
  \/ TcpAccept(c)
  \/ TcpReject(c)
  \/ TcpFirstLine(c)
  \/ UNCHANGED timer /\ Relay(c)
  \/ UNCHANGED timer /\ ReadFails(c, "scan", "release")
  \/ UNCHANGED timer /\ ReadFails(c, "read", "leave")

TcpNext ==
  \E c \in TcpConns : TcpClient(c) \/ TcpHandler(c) \/ TcpWriter(c) \/ TcpTimer(c)

TcpVars == <<handlerVars, roomVars, timer>>

\* Goroutines run and timers fire; clients owe nothing.
TcpFairness ==
  \A c \in TcpConns :
    WF_TcpVars(TcpHandler(c)) /\ WF_TcpVars(TcpWriter(c)) /\ WF_TcpVars(TcpTimer(c))
=============================================================================
