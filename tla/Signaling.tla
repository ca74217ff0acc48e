----------------------------- MODULE Signaling -----------------------------
(***************************************************************************)
(* The signalling server (signaling/cmd/server/main.go): one room manager  *)
(* behind a TCP and a WebSocket server, and the goroutine that cleans up   *)
(* idle rooms.                                                             *)
(***************************************************************************)
EXTENDS TcpServer, WsServer

ASSUME SignalingAssumption ==
  /\ TcpConns \cup WsConns = Conns
  /\ TcpConns \cap WsConns = {}

vars == <<handlerVars, roomVars, timer, wsDone>>

Init == RoomInit /\ HandlerInit /\ TcpInit /\ WsInit

IdleCleanup ==
  /\ \E id \in RoomIds : ExpireRoom(id)
  /\ UNCHANGED <<handlerVars, timer, wsDone>>

Next ==
  \/ TcpNext /\ UNCHANGED wsDone
  \/ WsNext /\ UNCHANGED timer
  \/ IdleCleanup

Spec == Init /\ [][Next]_vars

FairSpec == Spec /\ TcpFairness /\ WsFairness

-----------------------------------------------------------------------------
TypeOK ==
  /\ RoomTypeOK(Message)
  /\ HandlerTypeOK
  /\ timer \in [Conns -> {"none", "armed", "delete"}]
  /\ wsDone \subseteq WsConns

\* The handlers between AddPeer and the end of RemovePeer.
Joined == {"role", "read", "wait", "leave", "remove"}

\* The handlers that connCount counts.
Counted == {"scan", "lookup", "add", "arm", "release"} \cup Joined

\* Whoever sits in a slot joined that room object, has a slot of its own and
\* an open channel: Forward never sends on a closed channel and Remove never
\* closes one twice, either of which would panic the server.  So would
\* r.Peers[slot].Ch, which is read without a lock: a handler that was given a
\* slot sits in it until its own RemovePeer, whatever happens to the map.
SlotsHaveOpenChannels ==
  /\ \A r \in Conns : \A i \in Slots :
       LET c == slots[r][i]
       IN  c # NoConn =>
             /\ room[c] = r
             /\ c \notin closed
             /\ \A j \in Slots : slots[r][j] = c => j = i
  /\ \A c \in Conns :
       pc[c] \in Joined => Occupies(c, room[c])

\* A room that can be found in the map never seats a peer whose handler has
\* left: a peer that comes later finds the slot free, or a live partner.
\* RemovePeer looks the room up again and may find another object or none,
\* and it is far from obvious that it cannot miss a slot that matters.
NoGhostPeer ==
  \A id \in RoomIds : rooms[id] # NoRoom =>
    \A i \in Slots :
      LET c == slots[rooms[id]][i]
      IN  c # NoConn => pc[c] \in Joined /\ roomOf[c] = id

\* A client reads its role first and once, and the role is that of the slot
\* it sits in, whatever its partner relays while it joins.
RoleFirst ==
  \A c \in Conns : wire[c] # <<>> =>
    /\ \A k \in 1..Len(wire[c]) : wire[c][k].from = Server <=> k = 1
    /\ \A i \in Slots :
         slots[room[c]][i] = c => wire[c][1].n = RoleForSlot(i)

\* What a client read from the server, and then what still waits for it.
Log(c) == wire[c] \o ch[c]

\* Every line in the log of a client comes from a client of its own room
\* identifier, never from itself, and the lines of one sender come in the
\* order in which they were sent, each once.
RelayedInOrder ==
  \A c \in Conns :
    /\ \A k \in 1..Len(Log(c)) : Log(c)[k].from # Server =>
         /\ Log(c)[k].from # c
         /\ roomOf[Log(c)[k].from] = roomOf[c]
    /\ \A j, k \in 1..Len(Log(c)) :
         j < k /\ Log(c)[j].from = Log(c)[k].from /\ Log(c)[j].from # Server
           => Log(c)[j].n < Log(c)[k].n

\* A client is in from AddPeer to RemovePeer.
StatusAt(step) ==
  IF step \in {"out", "scan", "upgrade", "lookup", "add"} THEN "new"
  ELSE IF step \in Joined THEN "in" ELSE "out"
Status == [c \in Conns |-> StatusAt(pc[c])]

\* Both servers together, with their goroutines, locks, room map and timers,
\* are the relay of RoomRelay.
Service == INSTANCE RoomRelay WITH
             Clients <- Conns, Nobody <- NoConn, Capacity <- ChannelSize,
             status <- Status, seats <- slots, said <- sent, queue <- ch, log <- wire
IsRoomRelay == Service!Spec

\* The connection counters count exactly the handlers at work, whichever of
\* their early returns those take: a handler that is not uncounted takes a
\* place under the limit for good.
CountsExact ==
  /\ connCount["tcp"] = Cardinality({c \in TcpConns : pc[c] \in Counted})
  /\ connCount["ws"] = Cardinality({c \in WsConns : pc[c] \in Counted})

\* No more TCP connections are served at once than the limit allows, however
\* handlers come and go between the accept loop's check and its increment.
TcpLimitKept ==
  MaxConns > 0 => Cardinality({c \in TcpConns : pc[c] \in Counted}) <= MaxConns

\* A TCP client that hangs up is forgotten: its handler returns, and the slot
\* and the count it held are free again.
TcpHandlerReturns ==
  \A c \in TcpConns : c \in gone ~> pc[c] = "done"

-----------------------------------------------------------------------------
(* What the repository says of the server and the code does not do.        *)

\* The same of WebSocket clients.
WsHandlerReturns ==
  \A c \in WsConns : c \in gone ~> pc[c] = "done"

\* Of the clients that joined one room identifier, the second gets the other
\* role: two that are both being served there never have the same role.
OneAnswererPerRoom ==
  \A c, d \in Conns :
    /\ c # d
    /\ pc[c] = "read" /\ pc[d] = "read"
    /\ wire[c] # <<>> /\ wire[d] # <<>>
    /\ roomOf[c] = roomOf[d]
    => wire[c][1] # wire[d][1]

\* Without an idle timeout rooms do not expire.
NoAutoExpire ==
  [][NoTimeout => \A id \in RoomIds : rooms[id] # NoRoom => rooms'[id] = rooms[id]]_vars
=============================================================================
