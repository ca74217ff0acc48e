---------------------------- MODULE PeerHandler ----------------------------
(***************************************************************************)
(* What the handlers of TCP and of WebSocket connections have in common    *)
(* (signaling/internal/transport): a handler goroutine per connection that *)
(* joins a room, tells the client its role, relays what the client sends   *)
(* and leaves, and a writer goroutine that empties the peer's channel onto *)
(* the wire.  TcpServer and WsServer order these steps and add their own.  *)
(*                                                                         *)
(* A message is [from, n]: the n-th line of connection from, or, from      *)
(* Server, the role n (2 for "peer2", 1 for "peer1").                      *)
(***************************************************************************)
EXTENDS RoomManager

CONSTANTS
  Server,     \* the sender of role messages
  MaxConns,   \* max_connections; 0 is unlimited
  MaxLines    \* bound: the lines each client sends after it joined

ASSUME PeerHandlerAssumption ==
  /\ Server \notin Conns
  /\ MaxConns \in Nat
  /\ MaxLines \in [Conns -> Nat]

VARIABLES
  pc,         \* the next step of the handler of each connection
  roomOf,     \* roomID of the handler
  room,       \* the room object AddPeer gave it
  found,      \* the object RemovePeer found in the map
  writer,     \* the writer goroutine: "none", "run", "ended"
  gone,       \* the connections the server found broken or closed
  sent,       \* number of lines relayed for each open connection
  wire,       \* history: what was written to each open connection
  connCount   \* the connection counter of each server

seat == <<roomOf, room, found>>
stream == <<writer, gone, sent, wire>>
handlerVars == <<pc, seat, stream, connCount>>

Message == [from : Conns \cup {Server}, n : Nat]

Protocols == {"tcp", "ws"}

HandlerInit ==
  /\ pc = [c \in Conns |-> "out"]
  /\ roomOf \in [Conns -> RoomIds]
  /\ room = [c \in Conns |-> NoRoom]
  /\ found = [c \in Conns |-> NoRoom]
  /\ writer = [c \in Conns |-> "none"]
  /\ gone = {}
  /\ sent = [c \in Conns |-> 0]
  /\ wire = [c \in Conns |-> <<>>]
  /\ connCount = [p \in Protocols |-> 0]

Goto(c, from, to) ==
  /\ pc[c] = from
  /\ pc' = [pc EXCEPT ![c] = to]

\* Mutant: one connection too many passes the check.
AtLimitPlusOne(p) == MaxConns > 0 /\ connCount[p] > MaxConns

\* maxConns > 0 && connCount >= maxConns
AtLimit(p) == MaxConns > 0 /\ connCount[p] >= MaxConns

CountConn(p, by) == connCount' = [connCount EXCEPT ![p] = @ + by]

\* The slot of c in the room it joined.
SlotOf(c) == CHOOSE i \in Slots : slots[room[c]][i] = c

\* AddPeer, under m.mu: the room object is found or created.
JoinLookup(c) ==
  /\ Goto(c, "lookup", "add")
  /\ GetOrCreate(roomOf[c], c)
  /\ room' = [room EXCEPT ![c] = RoomFor(roomOf[c], c)]
  /\ UNCHANGED <<roomOf, found, stream, connCount>>

\* Mutant: the writer goroutine is started before the role is sent.
JoinAddStartsWriter(c) ==
  /\ Goto(c, "add", "role")
  /\ FreeSlots(room[c]) # {}
  /\ Add(room[c], c)
  /\ writer' = [writer EXCEPT ![c] = "run"]
  /\ UNCHANGED <<seat, gone, sent, wire, connCount>>

\* AddPeer, under r.mu: a slot is taken.
JoinAdd(c) ==
  /\ Goto(c, "add", "role")
  /\ FreeSlots(room[c]) # {}
  /\ Add(room[c], c)
  /\ UNCHANGED <<seat, stream, connCount>>

\* Mutant: the early return of a full room skips the deferred calls.
JoinFullLeaksCount(c) ==
  /\ Goto(c, "add", "done")
  /\ FreeSlots(room[c]) = {}
  /\ UNCHANGED <<seat, stream, connCount, roomVars>>

\* Both slots are taken: the handler returns.
JoinFull(c) ==
  /\ Goto(c, "add", "release")
  /\ FreeSlots(room[c]) = {}
  /\ UNCHANGED <<seat, stream, connCount, roomVars>>

\* The role message is written and the writer goroutine started.
SendRole(c) ==
  /\ Goto(c, "role", "read")
  /\ wire' = [wire EXCEPT ![c] =
                 Append(@, [from |-> Server, n |-> RoleForSlot(SlotOf(c))])]
  /\ writer' = [writer EXCEPT ![c] = "run"]
  /\ UNCHANGED <<seat, gone, sent, connCount, roomVars>>

\* Mutant: the end of the read loop waits for the writer.
ReadFailsThenWaits(c, from, next) ==
  /\ Goto(c, from, IF from = "read" THEN "wait" ELSE next)
  /\ gone' = gone \cup {c}
  /\ UNCHANGED <<seat, writer, sent, wire, connCount, roomVars>>

\* Reading from the client fails: it closed the connection, the connection
\* broke, or (TCP) a line is longer than the scanner's buffer.
ReadFails(c, from, next) ==
  /\ Goto(c, from, next)
  /\ gone' = gone \cup {c}
  /\ UNCHANGED <<seat, writer, sent, wire, connCount, roomVars>>

\* A line from the client is relayed.
Relay(c) ==
  /\ pc[c] = "read"
  /\ sent[c] < MaxLines[c]
  /\ sent' = [sent EXCEPT ![c] = @ + 1]
  /\ Forward(room[c], c, [from |-> c, n |-> sent[c] + 1])
  /\ UNCHANGED <<pc, seat, writer, gone, wire, connCount>>

\* RemovePeer, under m.mu: it looks the room up again, by its identifier.
LeaveLookup(c) ==
  /\ Goto(c, "leave", "remove")
  /\ found' = [found EXCEPT ![c] = rooms[roomOf[c]]]
  /\ UNCHANGED <<roomOf, room, stream, connCount, roomVars>>

\* RemovePeer, under r.mu of the room it found, if any.
LeaveRemove(c, next) ==
  /\ Goto(c, "remove", next)
  /\ IF found[c] = NoRoom THEN UNCHANGED roomVars ELSE Remove(found[c], c)
  /\ found' = [found EXCEPT ![c] = NoRoom]
  /\ UNCHANGED <<roomOf, room, writer, gone, sent, wire, connCount>>

\* The last deferred calls: the counter is decremented, the connection closed.
Release(c, p) ==
  /\ Goto(c, "release", "done")
  /\ CountConn(p, -1)
  /\ sent' = [sent EXCEPT ![c] = 0]
  /\ wire' = [wire EXCEPT ![c] = <<>>]
  /\ UNCHANGED <<seat, writer, gone, roomVars>>

\* The writer takes a message off the channel and writes it.
WriterWrites(c) ==
  /\ writer[c] = "run"
  /\ ch[c] # <<>>
  /\ ch' = [ch EXCEPT ![c] = Tail(@)]
  /\ wire' = IF pc[c] = "done" THEN wire
             ELSE [wire EXCEPT ![c] = Append(@, Head(ch[c]))]
  /\ UNCHANGED <<pc, seat, writer, gone, sent, connCount, rooms, slots, closed>>

\* The channel is closed and empty: the writer's range loop ends.
WriterEnds(c) ==
  /\ writer[c] = "run"
  /\ c \in closed
  /\ ch[c] = <<>>
  /\ writer' = [writer EXCEPT ![c] = "ended"]
  /\ UNCHANGED <<pc, seat, gone, sent, wire, connCount, roomVars>>

HandlerTypeOK ==
  /\ pc \in [Conns -> {"out", "scan", "upgrade", "lookup", "add", "role",
                       "read", "wait", "leave", "remove", "arm", "release",
                       "done"}]
  /\ roomOf \in [Conns -> RoomIds]
  /\ room \in [Conns -> Conns \cup {NoRoom}]
  /\ found \in [Conns -> Conns \cup {NoRoom}]
  /\ writer \in [Conns -> {"none", "run", "ended"}]
  /\ gone \subseteq Conns
  /\ sent \in [Conns -> Nat]
  /\ wire \in [Conns -> Seq(Message)]
  /\ connCount \in [Protocols -> Int]
=============================================================================
