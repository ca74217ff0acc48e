--------------------------- MODULE Signaling_proofs ---------------------------
(***************************************************************************)
(* The signalling server, for any number of connections, rooms and lines:  *)
(* types, seats, roles, order, the relay that the server is, and counters. *)
(***************************************************************************)
EXTENDS Signaling, FiniteSetTheorems, SequenceTheorems, TLAPS

Pcs == {"out", "scan", "upgrade", "lookup", "add", "role", "read", "wait",
        "leave", "remove", "arm", "release", "done"}

-----------------------------------------------------------------------------
(* Steps.  Shared are those of PeerHandler; p is the protocol of c.        *)

ProtocolOf(c) == IF c \in TcpConns THEN "tcp" ELSE "ws"

Shared(c) ==
  \/ JoinLookup(c)
  \/ JoinAdd(c)
  \/ JoinFull(c)
  \/ SendRole(c)
  \/ Relay(c)
  \/ ReadFails(c, "scan", "release")
  \/ ReadFails(c, "read", "leave")
  \/ ReadFails(c, "read", "wait")
  \/ LeaveLookup(c)
  \/ LeaveRemove(c, "arm")
  \/ LeaveRemove(c, "release")
  \/ Release(c, ProtocolOf(c))
  \/ WriterWrites(c)
  \/ WriterEnds(c)

TcpOwn(c) ==
  /\ c \in TcpConns
  /\ \/ TcpAccept(c)
     \/ TcpReject(c)
     \/ TcpFirstLine(c)
     \/ TcpArm(c)
     \/ TcpTimerFires(c)
     \/ TcpTimerDeletes(c)
  /\ UNCHANGED wsDone

WsOwn(c) ==
  /\ c \in WsConns
  /\ \/ WsCheck(c)
     \/ WsReject(c)
     \/ WsUpgrade(c)
     \/ WsUpgradeFails(c)
     \/ WsRoleFails(c)
     \/ WsReturns(c)
     \/ WsWriterFails(c)
  /\ UNCHANGED timer

Own(c) == TcpOwn(c) \/ WsOwn(c)

\* A shared step leaves the variables of the two servers, except that the
\* writer of a WebSocket connection marks its end.
Common(c) ==
  /\ Shared(c)
  /\ timer' = timer
  /\ wsDone' = wsDone \/ (c \in WsConns /\ wsDone' = wsDone \cup {c})

LEMMA ProtocolsApart ==
  ASSUME NEW c \in Conns
  PROVE  /\ c \in TcpConns => ProtocolOf(c) = "tcp" /\ c \notin WsConns
         /\ c \in WsConns => ProtocolOf(c) = "ws" /\ c \notin TcpConns
         /\ ProtocolOf(c) \in Protocols
BY SignalingAssumption DEF ProtocolOf, Protocols

\* Every step is one of these.
LEMMA NextSplits ==
  ASSUME [Next]_vars
  PROVE  \/ \E c \in Conns : Common(c) \/ Own(c)
         \/ IdleCleanup
         \/ UNCHANGED vars
<1>1. ASSUME NEW c \in TcpConns,
             TcpClient(c) \/ TcpHandler(c) \/ TcpWriter(c) \/ TcpTimer(c),
             UNCHANGED wsDone
      PROVE  c \in Conns /\ (Common(c) \/ Own(c))
  <2>1. c \in Conns /\ ProtocolOf(c) = "tcp"
    BY SignalingAssumption DEF ProtocolOf
  <2>2. CASE TcpClient(c)
    BY <1>1, <2>1, <2>2 DEF TcpClient, Common, Shared, Own, TcpOwn
  <2>3. CASE TcpHandler(c)
    BY <1>1, <2>1, <2>3 DEF TcpHandler, Common, Shared, Own, TcpOwn
  <2>4. CASE TcpWriter(c) \/ TcpTimer(c)
    BY <1>1, <2>1, <2>4 DEF TcpWriter, TcpTimer, Common, Shared, Own, TcpOwn
  <2> QED BY <1>1, <2>2, <2>3, <2>4
<1>2. ASSUME NEW c \in WsConns, WsClient(c) \/ WsHandler(c) \/ WsWriter(c),
             UNCHANGED timer
      PROVE  c \in Conns /\ (Common(c) \/ Own(c))
  <2>1. c \in Conns /\ ProtocolOf(c) = "ws"
    BY SignalingAssumption, ProtocolsApart
  <2>2. CASE WsClient(c)
    BY <1>2, <2>1, <2>2 DEF WsClient, Common, Shared, Own, WsOwn
  <2>3. CASE WsHandler(c)
    BY <1>2, <2>1, <2>3 DEF WsHandler, Common, Shared, Own, WsOwn
  <2>4. CASE WsWriter(c)
    BY <1>2, <2>1, <2>4 DEF WsWriter, WsWriterEnds, Common, Shared, Own, WsOwn
  <2> QED BY <1>2, <2>2, <2>3, <2>4
<1> QED BY <1>1, <1>2 DEF Next, TcpNext, WsNext

-----------------------------------------------------------------------------
(* Types.                                                                  *)

LEMMA MinOfSlots ==
  ASSUME NEW S \in SUBSET Slots, S # {}
  PROVE  Min(S) \in S
<1>1. CASE 0 \in S
  <2>1. \A y \in S : 0 <= y
    BY DEF Slots
  <2>2. \E x \in S : \A y \in S : x <= y
    BY <1>1, <2>1
  <2> QED BY <2>2 DEF Min
<1>2. CASE 0 \notin S
  <2>1. S = {1}
    BY <1>2 DEF Slots
  <2>2. \E x \in S : \A y \in S : x <= y
    BY <2>1
  <2> QED BY <2>2 DEF Min
<1> QED BY <1>1, <1>2

\* What Forward does to the channels.
LEMMA ForwardFits ==
  ASSUME RoomTypeOK(Message), NEW r \in Conns, NEW c \in Conns,
         NEW m \in Message, Forward(r, c, m)
  PROVE  /\ ch' \in [Conns -> Seq(Message)]
         /\ \A d \in Conns : Len(ch'[d]) <= ChannelSize
         /\ \A d \in Conns : ch'[d] = ch[d] \/ ch'[d] = Append(ch[d], m)
<1> DEFINE others == {i \in Slots : slots[r][i] \notin {NoConn, c}}
           to == slots[r][Min(others)]
<1>0. /\ ch \in [Conns -> Seq(Message)]
      /\ \A d \in Conns : Len(ch[d]) <= ChannelSize
      /\ ChannelSize \in Nat
  BY RoomManagerAssumption DEF RoomTypeOK
<1>1. ch' = IF others # {} /\ Len(ch[to]) < ChannelSize
            THEN [ch EXCEPT ![to] = Append(ch[to], m)] ELSE ch
  BY DEF Forward
<1>2. CASE others # {} /\ Len(ch[to]) < ChannelSize
  <2>1. Min(others) \in others
    BY <1>2, MinOfSlots
  <2>2. to \in Conns
    BY <2>1 DEF RoomTypeOK
  <2> HIDE DEF to, others
  <2>3. ch' = [ch EXCEPT ![to] = Append(ch[to], m)]
    BY <1>1, <1>2
  <2>4. Append(ch[to], m) \in Seq(Message)
        /\ Len(Append(ch[to], m)) = Len(ch[to]) + 1
    BY <1>0, <2>2
  <2>5. Len(ch[to]) \in Nat
    BY <1>0, <2>2
  <2> QED BY <1>0, <1>2, <2>2, <2>3, <2>4, <2>5
<1>3. CASE ~(others # {} /\ Len(ch[to]) < ChannelSize)
  <2>1. ch' = ch
    BY <1>1, <1>3
  <2> QED BY <1>0, <2>1
<1> QED BY <1>2, <1>3

\* A handler that was given a room object has one.
HasRoom ==
  \A c \in Conns : pc[c] \in {"add", "arm"} \cup Joined => room[c] \in Conns

LEMMA TypeInit == Init => TypeOK
BY RoomManagerAssumption
   DEF Init, RoomInit, HandlerInit, TcpInit, WsInit, TypeOK, RoomTypeOK,
       HandlerTypeOK, Slots, Protocols

LEMMA SharedKeepsTypes ==
  ASSUME RoomTypeOK(Message), HandlerTypeOK, HasRoom, NEW c \in Conns, Shared(c)
  PROVE  RoomTypeOK(Message)' /\ HandlerTypeOK'
<1> USE DEF RoomTypeOK, HandlerTypeOK, Goto
<1>0. ChannelSize \in Nat /\ Message \subseteq Message
  BY RoomManagerAssumption
<1>1. CASE JoinLookup(c)
  BY <1>1 DEF JoinLookup, GetOrCreate, RoomFor, stream
<1>2. CASE JoinAdd(c)
  <2> DEFINE r == room[c]  i == Min(FreeSlots(r))
  <2>1. i \in Slots
    <3>1. FreeSlots(r) \in SUBSET Slots
      BY DEF FreeSlots
    <3>2. FreeSlots(r) # {}
      BY <1>2 DEF JoinAdd
    <3>3. Min(FreeSlots(r)) \in FreeSlots(r)
      BY <3>1, <3>2, MinOfSlots
    <3> QED BY <3>1, <3>3
  <2> HIDE DEF i
  <2>2. slots' = [slots EXCEPT ![r][i] = c]
    BY <1>2 DEF JoinAdd, Add, i
  <2>3. slots' \in [Conns -> [Slots -> Conns \cup {NoConn}]]
    BY <2>1, <2>2
  <2> QED BY <1>2, <2>3 DEF JoinAdd, Add, seat, stream
<1>3. CASE JoinFull(c)
  BY <1>3 DEF JoinFull, seat, stream, roomVars
<1>4. CASE SendRole(c)
  <2>1. [from |-> Server, n |-> RoleForSlot(SlotOf(c))] \in Message
    BY DEF Message, RoleForSlot
  <2>2. wire' \in [Conns -> Seq(Message)]
    BY <1>4, <2>1 DEF SendRole
  <2> QED BY <1>4, <2>2 DEF SendRole, seat, roomVars
<1>5. CASE Relay(c)
  <2>1. PICK r : Forward(r, c, [from |-> c, n |-> sent[c] + 1]) /\ r = room[c]
    BY <1>5 DEF Relay
  <2>2. UNCHANGED <<rooms, slots, closed>>
    BY <2>1 DEF Forward
  <2>3. [from |-> c, n |-> sent[c] + 1] \in Message /\ sent[c] + 1 \in Nat
    BY DEF Message
  <2>4. /\ ch' \in [Conns -> Seq(Message)]
        /\ \A d \in Conns : Len(ch'[d]) <= ChannelSize
    <3>1. r \in Conns
      BY <1>5, <2>1 DEF Relay, HasRoom, Joined
    <3> QED BY <2>1, <2>3, <3>1, ForwardFits
  <2> QED BY <1>5, <2>2, <2>3, <2>4 DEF Relay, seat
<1>6. CASE \/ ReadFails(c, "scan", "release")
           \/ ReadFails(c, "read", "leave")
           \/ ReadFails(c, "read", "wait")
  BY <1>6 DEF ReadFails, seat, roomVars
<1>7. CASE LeaveLookup(c)
  BY <1>7 DEF LeaveLookup, stream, roomVars
<1>8. CASE LeaveRemove(c, "arm") \/ LeaveRemove(c, "release")
  <2>0. PICK next \in {"arm", "release"} : LeaveRemove(c, next)
    BY <1>8
  <2>1. /\ slots' \in [Conns -> [Slots -> Conns \cup {NoConn}]]
        /\ closed' \subseteq Conns
        /\ UNCHANGED <<rooms, ch>>
    <3>1. CASE found[c] = NoRoom
      BY <2>0, <3>1 DEF LeaveRemove, roomVars
    <3>2. CASE found[c] # NoRoom
      <4>1. Remove(found[c], c)
        BY <2>0, <3>2 DEF LeaveRemove
      <4> QED BY <4>1 DEF Remove
    <3> QED BY <3>1, <3>2
  <2>2. found' = [found EXCEPT ![c] = NoRoom] /\ pc' = [pc EXCEPT ![c] = next]
    BY <2>0 DEF LeaveRemove
  <2>3. UNCHANGED <<roomOf, room, writer, gone, sent, wire, connCount>>
    BY <2>0 DEF LeaveRemove
  <2> QED BY <2>1, <2>2, <2>3
<1>9. CASE Release(c, ProtocolOf(c))
  <2>1. connCount' \in [Protocols -> Int]
    BY <1>9, ProtocolsApart DEF Release, CountConn
  <2> QED BY <1>9, <2>1 DEF Release, seat, roomVars
<1>10. CASE WriterWrites(c)
  <2>1. Head(ch[c]) \in Message /\ Tail(ch[c]) \in Seq(Message)
        /\ Len(Tail(ch[c])) <= Len(ch[c])
    BY <1>10 DEF WriterWrites
  <2>2. /\ ch' \in [Conns -> Seq(Message)]
        /\ \A d \in Conns : Len(ch'[d]) <= ChannelSize
    BY <1>0, <1>10, <2>1 DEF WriterWrites
  <2>3. wire' \in [Conns -> Seq(Message)]
    BY <1>10, <2>1 DEF WriterWrites
  <2> QED BY <1>10, <2>2, <2>3 DEF WriterWrites, seat
<1>11. CASE WriterEnds(c)
  BY <1>11 DEF WriterEnds, seat, roomVars
<1> QED BY <1>1, <1>2, <1>3, <1>4, <1>5, <1>6, <1>7, <1>8, <1>9, <1>10, <1>11
        DEF Shared

LEMMA OwnKeepsTypes ==
  ASSUME TypeOK, NEW c \in Conns, Own(c)
  PROVE  TypeOK'
<1> USE DEF TypeOK, RoomTypeOK, HandlerTypeOK, Goto
<1>1. CASE UNCHANGED wsDone /\ TcpAccept(c)
  <2>1. connCount' \in [Protocols -> Int]
    BY <1>1 DEF TcpAccept, CountConn, Protocols
  <2> QED BY <1>1, <2>1 DEF TcpAccept, seat, stream, roomVars
<1>2. CASE UNCHANGED wsDone /\ (TcpReject(c) \/ TcpFirstLine(c))
  BY <1>2 DEF TcpReject, TcpFirstLine, seat, stream, roomVars
<1>3. CASE UNCHANGED wsDone /\ TcpArm(c)
  BY <1>3 DEF TcpArm, seat, stream, roomVars
<1>4. CASE UNCHANGED wsDone /\ TcpTimerFires(c)
  BY <1>4 DEF TcpTimerFires, handlerVars, seat, stream, roomVars
<1>5. CASE UNCHANGED wsDone /\ TcpTimerDeletes(c)
  BY <1>5 DEF TcpTimerDeletes, DeleteRoom, handlerVars, seat, stream
<1>6. CASE UNCHANGED timer /\ (WsCheck(c) \/ WsReject(c))
  BY <1>6 DEF WsCheck, WsReject, seat, stream, roomVars
<1>7. CASE UNCHANGED timer /\ WsUpgrade(c)
  <2>1. connCount' \in [Protocols -> Int]
    BY <1>7 DEF WsUpgrade, CountConn, Protocols
  <2> QED BY <1>7, <2>1 DEF WsUpgrade, seat, stream, roomVars
<1>8. CASE UNCHANGED timer /\ (WsUpgradeFails(c) \/ WsReturns(c))
  BY <1>8 DEF WsUpgradeFails, WsReturns, seat, stream, roomVars
<1>9. CASE UNCHANGED timer /\ WsRoleFails(c)
  BY <1>9 DEF WsRoleFails, seat, roomVars
<1>10. CASE UNCHANGED timer /\ WsWriterFails(c)
  <2>1. Tail(ch[c]) \in Seq(Message) /\ Len(Tail(ch[c])) <= Len(ch[c])
    BY <1>10 DEF WsWriterFails
  <2>2. /\ ch' \in [Conns -> Seq(Message)]
        /\ \A d \in Conns : Len(ch'[d]) <= ChannelSize
    <3>1. ch' = [ch EXCEPT ![c] = Tail(ch[c])]
      BY <1>10 DEF WsWriterFails
    <3> QED BY <2>1, <3>1, RoomManagerAssumption
  <2> QED BY <1>10, <2>2 DEF WsWriterFails, seat
<1> QED BY <1>1, <1>2, <1>3, <1>4, <1>5, <1>6, <1>7, <1>8, <1>9, <1>10
        DEF Own, TcpOwn, WsOwn

LEMMA TypeStep == TypeOK /\ HasRoom /\ [Next]_vars => TypeOK'
<1> SUFFICES ASSUME TypeOK, HasRoom, [Next]_vars PROVE TypeOK'
  OBVIOUS
<1>1. ASSUME NEW c \in Conns, Common(c) PROVE TypeOK'
  <2>1. RoomTypeOK(Message)' /\ HandlerTypeOK'
    BY <1>1, SharedKeepsTypes DEF TypeOK, Common
  <2>2. timer' \in [Conns -> {"none", "armed", "delete"}] /\ wsDone' \subseteq WsConns
    BY <1>1 DEF TypeOK, Common
  <2> QED BY <2>1, <2>2 DEF TypeOK
<1>2. ASSUME NEW c \in Conns, Own(c) PROVE TypeOK'
  BY <1>2, OwnKeepsTypes
<1>3. CASE IdleCleanup
  BY <1>3 DEF IdleCleanup, ExpireRoom, DeleteRoom, TypeOK, RoomTypeOK,
              HandlerTypeOK, handlerVars, seat, stream
<1>4. CASE UNCHANGED vars
  BY <1>4 DEF vars, handlerVars, roomVars, seat, stream, TypeOK, RoomTypeOK,
              HandlerTypeOK
<1> QED BY <1>1, <1>2, <1>3, <1>4, NextSplits

-----------------------------------------------------------------------------
(* Seats.  What a step does to the handlers' program counters, the map and *)
(* the slots is one of the following, whatever else it does.               *)

Early == {"out", "scan", "upgrade", "lookup"}

places == <<seat, rooms, slots, closed>>

Moves(c) ==
  /\ \E to \in Pcs :
       /\ pc' = [pc EXCEPT ![c] = to]
       /\ \/ pc[c] \in Early /\ to \in Early \cup {"release", "done"}
          \/ pc[c] \in {"role", "read", "wait"} /\ to \in {"read", "wait", "leave"}
          \/ pc[c] \in {"add", "arm", "release"} /\ to \in {"release", "done"}
  /\ UNCHANGED places

Deletes(id) ==
  /\ rooms' = [rooms EXCEPT ![id] = NoRoom]
  /\ UNCHANGED <<pc, seat, slots, closed>>

SeatStep ==
  \/ UNCHANGED <<pc, places>>
  \/ \E c \in Conns : \/ Moves(c)
                      \/ JoinLookup(c)
                      \/ JoinAdd(c)
                      \/ LeaveLookup(c)
                      \/ LeaveRemove(c, "arm")
                      \/ LeaveRemove(c, "release")
  \/ \E id \in RoomIds : Deletes(id)

LEMMA NextIsSeatStep == TypeOK /\ [Next]_vars => SeatStep
<1> SUFFICES ASSUME TypeOK, [Next]_vars PROVE SeatStep
  OBVIOUS
<1>0. roomOf \in [Conns -> RoomIds]
  BY DEF TypeOK, HandlerTypeOK
<1>1. ASSUME NEW c \in Conns, Shared(c) PROVE SeatStep
  <2>1. CASE \/ JoinLookup(c) \/ JoinAdd(c) \/ LeaveLookup(c)
             \/ LeaveRemove(c, "arm") \/ LeaveRemove(c, "release")
    BY <2>1 DEF SeatStep
  <2>2. CASE JoinFull(c)
    <3>1. Moves(c)
      BY <2>2 DEF JoinFull, Goto, Moves, Pcs, places, roomVars
    <3> QED BY <3>1 DEF SeatStep
  <2>3. CASE SendRole(c)
    <3>1. Moves(c)
      BY <2>3 DEF SendRole, Goto, Moves, Pcs, places, roomVars
    <3> QED BY <3>1 DEF SeatStep
  <2>4. CASE \/ ReadFails(c, "scan", "release")
             \/ ReadFails(c, "read", "leave")
             \/ ReadFails(c, "read", "wait")
    <3>1. Moves(c)
      BY <2>4 DEF ReadFails, Goto, Moves, Pcs, places, roomVars, Early
    <3> QED BY <3>1 DEF SeatStep
  <2>5. CASE Release(c, ProtocolOf(c))
    <3>1. Moves(c)
      BY <2>5 DEF Release, Goto, Moves, Pcs, places, roomVars
    <3> QED BY <3>1 DEF SeatStep
  <2>6. CASE Relay(c) \/ WriterWrites(c) \/ WriterEnds(c)
    BY <2>6 DEF Relay, Forward, WriterWrites, WriterEnds, SeatStep, places,
                roomVars
  <2> QED BY <1>1, <2>1, <2>2, <2>3, <2>4, <2>5, <2>6 DEF Shared
<1>2. ASSUME NEW c \in Conns, Own(c) PROVE SeatStep
  <2>1. CASE TcpAccept(c) \/ TcpReject(c) \/ TcpFirstLine(c) \/ TcpArm(c)
    <3>1. Moves(c)
      BY <2>1 DEF TcpAccept, TcpReject, TcpFirstLine, TcpArm, Goto, Moves, Pcs,
                  places, roomVars, Early
    <3> QED BY <3>1 DEF SeatStep
  <2>2. CASE \/ WsCheck(c) \/ WsReject(c) \/ WsUpgrade(c) \/ WsUpgradeFails(c)
             \/ WsRoleFails(c) \/ WsReturns(c)
    <3>1. Moves(c)
      BY <2>2 DEF WsCheck, WsReject, WsUpgrade, WsUpgradeFails, WsRoleFails,
                  WsReturns, Goto, Moves, Pcs, places, roomVars, Early
    <3> QED BY <3>1 DEF SeatStep
  <2>3. CASE TcpTimerFires(c) \/ WsWriterFails(c)
    BY <2>3 DEF TcpTimerFires, WsWriterFails, handlerVars, roomVars, SeatStep,
                places
  <2>4. CASE TcpTimerDeletes(c)
    <3>1. roomOf[c] \in RoomIds /\ Deletes(roomOf[c])
      BY <1>0, <2>4 DEF TcpTimerDeletes, DeleteRoom, Deletes, handlerVars
    <3> QED BY <3>1 DEF SeatStep
  <2> QED BY <1>2, <2>1, <2>2, <2>3, <2>4 DEF Own, TcpOwn, WsOwn
<1>3. CASE IdleCleanup
  <2>1. PICK id \in RoomIds : ExpireRoom(id)
    BY <1>3 DEF IdleCleanup
  <2>2. Deletes(id)
    BY <1>3, <2>1 DEF IdleCleanup, ExpireRoom, DeleteRoom, Deletes, handlerVars
  <2> QED BY <2>2 DEF SeatStep
<1>4. CASE UNCHANGED vars
  BY <1>4 DEF vars, handlerVars, roomVars, SeatStep, places
<1> QED BY <1>1, <1>2, <1>3, <1>4, NextSplits DEF Common

\* The seat invariant.  A room object that left the map never comes back:
\* only the handler that created it puts it there, and it does so once.  So
\* RemovePeer, which looks the identifier up, can miss the object only when
\* nobody will ever be given that object again.

SeatedOnce ==
  \A r \in Conns, i \in Slots :
    LET c == slots[r][i]
    IN  c # NoConn => /\ room[c] = r
                      /\ c \notin closed
                      /\ pc[c] \notin Early \cup {"add"}
                      /\ \A j \in Slots : slots[r][j] = c => j = i

JoinedSits == \A c \in Conns : pc[c] \in Joined => Occupies(c, room[c])

OpenUntilSeated == \A c \in Conns : pc[c] \in Early \cup {"add"} => c \notin closed

SameIdentifier ==
  \A c \in Conns : room[c] # NoRoom =>
    pc[room[c]] \notin Early /\ roomOf[room[c]] = roomOf[c]

UnderItsIdentifier ==
  \A id \in RoomIds : rooms[id] # NoRoom =>
    pc[rooms[id]] \notin Early /\ roomOf[rooms[id]] = id

MissedForGood ==
  \A c \in Conns :
    pc[c] = "remove" /\ found[c] # room[c] => rooms[roomOf[c]] # room[c]

SeatInv ==
  /\ HasRoom
  /\ SeatedOnce
  /\ JoinedSits
  /\ OpenUntilSeated
  /\ SameIdentifier
  /\ UnderItsIdentifier
  /\ MissedForGood
  /\ NoGhostPeer

SeatType ==
  /\ pc \in [Conns -> Pcs]
  /\ roomOf \in [Conns -> RoomIds]
  /\ room \in [Conns -> Conns \cup {NoRoom}]
  /\ found \in [Conns -> Conns \cup {NoRoom}]
  /\ rooms \in [RoomIds -> Conns \cup {NoRoom}]
  /\ slots \in [Conns -> [Slots -> Conns \cup {NoConn}]]
  /\ closed \subseteq Conns
  /\ NoConn \notin Conns
  /\ NoRoom \notin Conns

LEMMA SeatTyped == TypeOK => SeatType
BY RoomManagerAssumption DEF TypeOK, RoomTypeOK, HandlerTypeOK, SeatType, Pcs

LEMMA SeatInit == Init => SeatInv
BY RoomManagerAssumption
   DEF Init, RoomInit, HandlerInit, SeatInv, HasRoom, SeatedOnce, JoinedSits,
       OpenUntilSeated, SameIdentifier, UnderItsIdentifier, MissedForGood,
       NoGhostPeer, Joined, Early

LEMMA SeatMoves ==
  ASSUME SeatType, SeatInv, NEW c \in Conns, Moves(c)
  PROVE  SeatInv'
<1>1. PICK to \in Pcs :
        /\ pc' = [pc EXCEPT ![c] = to]
        /\ \/ pc[c] \in Early /\ to \in Early \cup {"release", "done"}
           \/ pc[c] \in {"role", "read", "wait"} /\ to \in {"read", "wait", "leave"}
           \/ pc[c] \in {"add", "arm", "release"} /\ to \in {"release", "done"}
  BY DEF Moves
<1>2. /\ roomOf' = roomOf /\ room' = room /\ found' = found
      /\ rooms' = rooms /\ slots' = slots /\ closed' = closed
  BY DEF Moves, places, seat
<1>3. \A d \in Conns : pc'[d] = IF d = c THEN to ELSE pc[d]
  BY <1>1 DEF SeatType
<1>4. HasRoom'
  BY <1>1, <1>2, <1>3 DEF SeatType, SeatInv, HasRoom, Joined, Early
<1>5. SeatedOnce'
  BY <1>1, <1>2, <1>3 DEF SeatType, SeatInv, SeatedOnce, Early
<1>6. JoinedSits'
  BY <1>1, <1>2, <1>3
     DEF SeatType, SeatInv, JoinedSits, Occupies, Joined, Early
<1>7. OpenUntilSeated'
  BY <1>1, <1>2, <1>3 DEF SeatType, SeatInv, OpenUntilSeated, Early
<1>8. SameIdentifier'
  BY <1>1, <1>2, <1>3 DEF SeatType, SeatInv, SameIdentifier, Early
<1>9. UnderItsIdentifier'
  BY <1>1, <1>2, <1>3 DEF SeatType, SeatInv, UnderItsIdentifier, Early
<1>10. MissedForGood'
  BY <1>1, <1>2, <1>3 DEF SeatType, SeatInv, MissedForGood, Early
<1>11. NoGhostPeer'
  <2> SUFFICES ASSUME NEW id \in RoomIds, rooms[id] # NoRoom, NEW i \in Slots,
                      slots[rooms[id]][i] # NoConn
               PROVE  /\ pc'[slots[rooms[id]][i]] \in Joined
                      /\ roomOf[slots[rooms[id]][i]] = id
    BY <1>2 DEF NoGhostPeer
  <2>1. /\ pc[slots[rooms[id]][i]] \in Joined
        /\ roomOf[slots[rooms[id]][i]] = id
    BY DEF SeatInv, NoGhostPeer
  <2>2. slots[rooms[id]][i] \in Conns
    BY DEF SeatType
  <2> QED BY <1>1, <1>3, <2>1, <2>2 DEF Joined, Early
<1> QED BY <1>4, <1>5, <1>6, <1>7, <1>8, <1>9, <1>10, <1>11 DEF SeatInv

LEMMA SeatJoinLookup ==
  ASSUME SeatType, SeatInv, NEW c \in Conns, JoinLookup(c)
  PROVE  SeatInv'
<1> DEFINE r == RoomFor(roomOf[c], c)
<1>1. /\ pc[c] = "lookup" /\ pc' = [pc EXCEPT ![c] = "add"]
      /\ room' = [room EXCEPT ![c] = r]
      /\ rooms' = [rooms EXCEPT ![roomOf[c]] = r]
      /\ roomOf' = roomOf /\ found' = found
      /\ slots' = slots /\ closed' = closed
  BY DEF JoinLookup, Goto, GetOrCreate
<1>2. r \in Conns /\ roomOf[c] \in RoomIds
  BY DEF RoomFor, SeatType
<1>3. /\ \A d \in Conns : pc'[d] = IF d = c THEN "add" ELSE pc[d]
      /\ \A d \in Conns : room'[d] = IF d = c THEN r ELSE room[d]
      /\ \A id \in RoomIds : rooms'[id] = IF id = roomOf[c] THEN r ELSE rooms[id]
  BY <1>1 DEF SeatType
<1>4. pc'[r] \notin Early /\ roomOf[r] = roomOf[c]
  BY <1>1, <1>2, <1>3 DEF RoomFor, SeatInv, UnderItsIdentifier, SeatType, Early
<1>5. \A d \in Conns : room[d] # c
  BY <1>1 DEF SeatInv, SameIdentifier, SeatType, Early
<1>6. \A q \in Conns, i \in Slots : slots[q][i] # c
  BY <1>1 DEF SeatInv, SeatedOnce, SeatType, Early
<1>7. r # rooms[roomOf[c]] => r = c
  BY DEF RoomFor
<1> HIDE DEF r
<1>8. HasRoom'
  BY <1>1, <1>2, <1>3 DEF SeatType, SeatInv, HasRoom, Joined
<1>9. SeatedOnce'
  BY <1>1, <1>3, <1>6 DEF SeatType, SeatInv, SeatedOnce, Early
<1>10. JoinedSits'
  BY <1>1, <1>3 DEF SeatType, SeatInv, JoinedSits, Occupies, Joined
<1>11. OpenUntilSeated'
  BY <1>1, <1>3 DEF SeatType, SeatInv, OpenUntilSeated, Early
<1>12. SameIdentifier'
  <2> SUFFICES ASSUME NEW d \in Conns, room'[d] # NoRoom
               PROVE  pc'[room'[d]] \notin Early /\ roomOf[room'[d]] = roomOf[d]
    BY <1>1 DEF SameIdentifier
  <2>1. CASE d = c
    BY <1>3, <1>4, <2>1
  <2>2. CASE d # c
    <3>1. room'[d] = room[d] /\ room[d] \in Conns /\ room[d] # c
      BY <1>3, <1>5, <2>2 DEF SeatType
    <3> QED BY <1>3, <3>1 DEF SeatInv, SameIdentifier
  <2> QED BY <2>1, <2>2
<1>13. UnderItsIdentifier'
  <2> SUFFICES ASSUME NEW id \in RoomIds, rooms'[id] # NoRoom
               PROVE  pc'[rooms'[id]] \notin Early /\ roomOf[rooms'[id]] = id
    BY <1>1 DEF UnderItsIdentifier
  <2>1. CASE id = roomOf[c]
    BY <1>3, <1>4, <2>1
  <2>2. CASE id # roomOf[c]
    <3>1. rooms'[id] = rooms[id] /\ rooms[id] \in Conns
      BY <1>3, <2>2 DEF SeatType
    <3> QED BY <1>1, <1>3, <3>1 DEF SeatInv, UnderItsIdentifier, Early
  <2> QED BY <2>1, <2>2
<1>14. MissedForGood'
  <2> SUFFICES ASSUME NEW d \in Conns, pc'[d] = "remove", found[d] # room'[d]
               PROVE  rooms'[roomOf[d]] # room'[d]
    BY <1>1 DEF MissedForGood
  <2>1. d # c /\ pc[d] = "remove" /\ room'[d] = room[d]
    BY <1>3
  <2>2. rooms[roomOf[d]] # room[d] /\ roomOf[d] \in RoomIds /\ room[d] # c
    BY <1>5, <2>1 DEF SeatInv, MissedForGood, SeatType
  <2> QED BY <1>3, <1>7, <2>1, <2>2
<1>15. NoGhostPeer'
  <2> SUFFICES ASSUME NEW id \in RoomIds, rooms'[id] # NoRoom, NEW i \in Slots,
                      NEW d, d = slots[rooms'[id]][i], d # NoConn
               PROVE  pc'[d] \in Joined /\ roomOf[d] = id
    BY <1>1 DEF NoGhostPeer
  <2>1. rooms'[id] \in Conns /\ d \in Conns
    BY <1>2, <1>3 DEF SeatType
  <2>2. room[d] = rooms'[id] /\ d # c
    BY <1>6, <2>1 DEF SeatInv, SeatedOnce
  <2>3. rooms'[id] = rooms[id]
    BY <1>3, <1>5, <1>7, <2>1, <2>2
  <2>4. pc[d] \in Joined /\ roomOf[d] = id
    BY <2>3 DEF SeatInv, NoGhostPeer
  <2> QED BY <1>3, <2>1, <2>2, <2>4
<1> QED BY <1>8, <1>9, <1>10, <1>11, <1>12, <1>13, <1>14, <1>15 DEF SeatInv

LEMMA SeatJoinAdd ==
  ASSUME SeatType, SeatInv, NEW c \in Conns, JoinAdd(c)
  PROVE  SeatInv'
<1> DEFINE r == room[c]
           k == Min(FreeSlots(r))
<1>1. /\ pc[c] = "add" /\ pc' = [pc EXCEPT ![c] = "role"]
      /\ slots' = [slots EXCEPT ![r][k] = c]
      /\ roomOf' = roomOf /\ found' = found /\ room' = room
      /\ rooms' = rooms /\ closed' = closed
  BY DEF JoinAdd, Goto, Add, seat
<1>2. r \in Conns
  BY <1>1 DEF SeatInv, HasRoom
<1>3. k \in Slots /\ slots[r][k] = NoConn
  <2>1. FreeSlots(r) \in SUBSET Slots /\ FreeSlots(r) # {}
    BY DEF JoinAdd, FreeSlots
  <2>2. k \in FreeSlots(r)
    BY <2>1, MinOfSlots
  <2> QED BY <2>2 DEF FreeSlots
<1> HIDE DEF k, r
<1>4. /\ \A d \in Conns : pc'[d] = IF d = c THEN "role" ELSE pc[d]
      /\ \A q \in Conns, i \in Slots :
           slots'[q][i] = IF q = r /\ i = k THEN c ELSE slots[q][i]
  BY <1>1, <1>2, <1>3 DEF SeatType
<1>5. \A q \in Conns, i \in Slots : slots[q][i] # c
  BY <1>1 DEF SeatInv, SeatedOnce, SeatType
<1>6. HasRoom'
  BY <1>1, <1>2, <1>4 DEF SeatType, SeatInv, HasRoom, Joined, r
<1>7. SeatedOnce'
  <2> SUFFICES ASSUME NEW q \in Conns, NEW i \in Slots, slots'[q][i] # NoConn
               PROVE  /\ room[slots'[q][i]] = q
                      /\ slots'[q][i] \notin closed
                      /\ pc'[slots'[q][i]] \notin Early \cup {"add"}
                      /\ \A j \in Slots : slots'[q][j] = slots'[q][i] => j = i
    BY <1>1 DEF SeatedOnce
  <2>1. CASE q = r /\ i = k
    <3>1. slots'[q][i] = c /\ c \notin closed /\ room[c] = q
      BY <1>1, <1>4, <2>1 DEF SeatInv, OpenUntilSeated, r
    <3>2. pc'[c] = "role"
      BY <1>4
    <3>3. \A j \in Slots : slots'[q][j] = c => j = i
      BY <1>4, <1>5, <2>1
    <3> QED BY <3>1, <3>2, <3>3 DEF Early
  <2>2. CASE ~(q = r /\ i = k)
    <3>1. slots'[q][i] = slots[q][i] /\ slots[q][i] # c /\ slots[q][i] \in Conns
      BY <1>4, <1>5, <2>2 DEF SeatType
    <3>2. pc'[slots[q][i]] = pc[slots[q][i]]
      BY <1>4, <3>1
    <3>3. \A j \in Slots : slots'[q][j] = slots[q][i] => slots[q][j] = slots[q][i]
      BY <1>4, <3>1
    <3> QED BY <3>1, <3>2, <3>3 DEF SeatInv, SeatedOnce
  <2> QED BY <2>1, <2>2
<1>8. JoinedSits'
  <2> SUFFICES ASSUME NEW d \in Conns, pc'[d] \in Joined
               PROVE  \E i \in Slots : slots'[room[d]][i] = d
    BY <1>1 DEF JoinedSits, Occupies
  <2>1. CASE d = c
    BY <1>2, <1>3, <1>4, <2>1 DEF r
  <2>2. CASE d # c
    <3>1. pc[d] \in Joined /\ room[d] \in Conns
      BY <1>4, <2>2 DEF SeatInv, HasRoom
    <3>2. PICK i \in Slots : slots[room[d]][i] = d
      BY <3>1 DEF SeatInv, JoinedSits, Occupies
    <3>3. ~(room[d] = r /\ i = k)
      BY <1>3, <3>2 DEF SeatType
    <3> QED BY <1>4, <3>1, <3>2, <3>3
  <2> QED BY <2>1, <2>2
<1>9. OpenUntilSeated'
  BY <1>1, <1>4 DEF SeatInv, OpenUntilSeated, Early
<1>10. SameIdentifier'
  BY <1>1, <1>4 DEF SeatType, SeatInv, SameIdentifier, Early
<1>11. UnderItsIdentifier'
  BY <1>1, <1>4 DEF SeatType, SeatInv, UnderItsIdentifier, Early
<1>12. MissedForGood'
  BY <1>1, <1>4 DEF SeatInv, MissedForGood
<1>13. NoGhostPeer'
  <2> SUFFICES ASSUME NEW id \in RoomIds, rooms[id] # NoRoom, NEW i \in Slots,
                      NEW d, d = slots'[rooms[id]][i], d # NoConn
               PROVE  pc'[d] \in Joined /\ roomOf[d] = id
    BY <1>1 DEF NoGhostPeer
  <2>1. rooms[id] \in Conns
    BY DEF SeatType
  <2>2. CASE d = c
    <3>1. rooms[id] = r
      BY <1>4, <1>5, <2>1, <2>2
    <3>2. roomOf[r] = id /\ roomOf[r] = roomOf[c]
      BY <1>2, <3>1 DEF SeatInv, SameIdentifier, UnderItsIdentifier, SeatType, r
    <3> QED BY <1>4, <2>2, <3>2 DEF Joined
  <2>3. CASE d # c
    <3>1. d = slots[rooms[id]][i] /\ d \in Conns
      BY <1>4, <2>1, <2>3 DEF SeatType
    <3>2. pc[d] \in Joined /\ roomOf[d] = id
      BY <3>1 DEF SeatInv, NoGhostPeer
    <3> QED BY <1>4, <2>3, <3>1, <3>2
  <2> QED BY <2>2, <2>3
<1> QED BY <1>6, <1>7, <1>8, <1>9, <1>10, <1>11, <1>12, <1>13 DEF SeatInv

LEMMA SeatLeaveLookup ==
  ASSUME SeatType, SeatInv, NEW c \in Conns, LeaveLookup(c)
  PROVE  SeatInv'
<1>1. /\ pc[c] = "leave" /\ pc' = [pc EXCEPT ![c] = "remove"]
      /\ found' = [found EXCEPT ![c] = rooms[roomOf[c]]]
      /\ roomOf' = roomOf /\ room' = room
      /\ rooms' = rooms /\ slots' = slots /\ closed' = closed
  BY DEF LeaveLookup, Goto, roomVars
<1>2. /\ \A d \in Conns : pc'[d] = IF d = c THEN "remove" ELSE pc[d]
      /\ \A d \in Conns : found'[d] = IF d = c THEN rooms[roomOf[c]] ELSE found[d]
  BY <1>1 DEF SeatType
<1>3. HasRoom' /\ JoinedSits'
  BY <1>1, <1>2 DEF SeatInv, HasRoom, JoinedSits, Occupies, Joined
<1>4. SeatedOnce' /\ OpenUntilSeated'
  BY <1>1, <1>2 DEF SeatType, SeatInv, SeatedOnce, OpenUntilSeated, Early
<1>5. SameIdentifier' /\ UnderItsIdentifier'
  BY <1>1, <1>2
     DEF SeatType, SeatInv, SameIdentifier, UnderItsIdentifier, Early
<1>6. MissedForGood'
  BY <1>1, <1>2 DEF SeatInv, MissedForGood
<1>7. NoGhostPeer'
  BY <1>1, <1>2 DEF SeatType, SeatInv, NoGhostPeer, Joined
<1> QED BY <1>3, <1>4, <1>5, <1>6, <1>7 DEF SeatInv

LEMMA SeatLeaveRemove ==
  ASSUME SeatType, SeatInv, NEW c \in Conns, NEW next \in {"arm", "release"},
         LeaveRemove(c, next)
  PROVE  SeatInv'
<1>1. /\ pc[c] = "remove" /\ pc' = [pc EXCEPT ![c] = next]
      /\ found' = [found EXCEPT ![c] = NoRoom]
      /\ roomOf' = roomOf /\ room' = room /\ rooms' = rooms
      /\ IF found[c] = NoRoom THEN slots' = slots /\ closed' = closed
                              ELSE Remove(found[c], c)
  BY DEF LeaveRemove, Goto, Remove, roomVars
<1>2. /\ \A d \in Conns : pc'[d] = IF d = c THEN next ELSE pc[d]
      /\ \A q \in Conns, i \in Slots :
           slots'[q][i] = IF q = found[c] /\ slots[q][i] = c
                          THEN NoConn ELSE slots[q][i]
  <2>1. \A d \in Conns : pc'[d] = IF d = c THEN next ELSE pc[d]
    BY <1>1 DEF SeatType
  <2>2. CASE found[c] = NoRoom
    BY <1>1, <2>1, <2>2 DEF SeatType
  <2>3. CASE found[c] # NoRoom
    <3>1. slots' = [slots EXCEPT ![found[c]] =
                      [i \in Slots |-> IF slots[found[c]][i] = c THEN NoConn
                                       ELSE slots[found[c]][i]]]
      BY <1>1, <2>3 DEF Remove
    <3> QED BY <2>1, <3>1 DEF SeatType
  <2> QED BY <2>2, <2>3
<1>3. closed' \subseteq closed \cup {c}
  BY <1>1 DEF Remove
<1>4. c \notin closed /\ (c \in closed' => found[c] = room[c])
  <2>1. c \notin closed
    <3>1. pc[c] \in Joined
      BY <1>1 DEF Joined
    <3>2. room[c] \in Conns /\ Occupies(c, room[c])
      BY <3>1 DEF SeatInv, HasRoom, JoinedSits
    <3> QED BY <3>2 DEF Occupies, SeatInv, SeatedOnce, SeatType
  <2>2. ASSUME c \in closed' PROVE found[c] = room[c]
    <3>1. found[c] \in Conns /\ Occupies(c, found[c])
      BY <1>1, <2>1, <2>2 DEF Remove, SeatType
    <3> QED BY <3>1 DEF Occupies, SeatInv, SeatedOnce, SeatType
  <2> QED BY <2>1, <2>2
<1>5. HasRoom'
  BY <1>1, <1>2 DEF SeatInv, HasRoom, Joined
<1>6. SeatedOnce'
  <2> SUFFICES ASSUME NEW q \in Conns, NEW i \in Slots, slots'[q][i] # NoConn
               PROVE  /\ room[slots'[q][i]] = q
                      /\ slots'[q][i] \notin closed'
                      /\ pc'[slots'[q][i]] \notin Early \cup {"add"}
                      /\ \A j \in Slots : slots'[q][j] = slots'[q][i] => j = i
    BY <1>1 DEF SeatedOnce
  <2>1. slots'[q][i] = slots[q][i] /\ slots[q][i] \in Conns
        /\ ~(q = found[c] /\ slots[q][i] = c)
    BY <1>2 DEF SeatType
  <2>2. /\ room[slots[q][i]] = q
        /\ slots[q][i] \notin closed
        /\ pc[slots[q][i]] \notin Early \cup {"add"}
        /\ \A j \in Slots : slots[q][j] = slots[q][i] => j = i
    BY <2>1 DEF SeatInv, SeatedOnce, SeatType
  <2>3. slots[q][i] \notin closed'
    BY <1>3, <1>4, <2>1, <2>2
  <2>4. pc'[slots[q][i]] \notin Early \cup {"add"}
    BY <1>2, <2>1, <2>2 DEF Early
  <2>5. \A j \in Slots : slots'[q][j] = slots[q][i] => slots[q][j] = slots[q][i]
    BY <1>2, <2>1 DEF SeatType
  <2> QED BY <2>1, <2>2, <2>3, <2>4, <2>5
<1>7. JoinedSits'
  <2> SUFFICES ASSUME NEW d \in Conns, pc'[d] \in Joined
               PROVE  \E i \in Slots : slots'[room[d]][i] = d
    BY <1>1 DEF JoinedSits, Occupies
  <2>1. d # c /\ pc[d] \in Joined
    BY <1>2 DEF Joined
  <2>2. room[d] \in Conns /\ \E i \in Slots : slots[room[d]][i] = d
    BY <2>1 DEF SeatInv, HasRoom, JoinedSits, Occupies
  <2> QED BY <1>2, <2>1, <2>2
<1>8. OpenUntilSeated'
  BY <1>2, <1>3 DEF SeatInv, OpenUntilSeated, Early
<1>9. SameIdentifier' /\ UnderItsIdentifier'
  BY <1>1, <1>2
     DEF SeatType, SeatInv, SameIdentifier, UnderItsIdentifier, Early
<1>10. MissedForGood'
  BY <1>1, <1>2 DEF SeatType, SeatInv, MissedForGood
<1>11. NoGhostPeer'
  <2> SUFFICES ASSUME NEW id \in RoomIds, rooms[id] # NoRoom, NEW i \in Slots,
                      NEW d, d = slots'[rooms[id]][i], d # NoConn
               PROVE  pc'[d] \in Joined /\ roomOf[d] = id
    BY <1>1 DEF NoGhostPeer
  <2>1. rooms[id] \in Conns
    BY DEF SeatType
  <2>2. d = slots[rooms[id]][i] /\ d \in Conns
        /\ ~(rooms[id] = found[c] /\ d = c)
    BY <1>2, <2>1 DEF SeatType
  <2>3. pc[d] \in Joined /\ roomOf[d] = id
    BY <2>2 DEF SeatInv, NoGhostPeer
  <2>4. d # c
    <3> SUFFICES ASSUME d = c PROVE FALSE
      OBVIOUS
    <3>1. room[c] = rooms[id]
      BY <2>1, <2>2 DEF SeatInv, SeatedOnce, SeatType
    <3>2. rooms[roomOf[c]] = room[c]
      BY <2>3, <3>1
    <3>3. found[c] = room[c]
      BY <1>1, <3>2 DEF SeatInv, MissedForGood
    <3> QED BY <2>2, <3>1, <3>3
  <2> QED BY <1>2, <2>2, <2>3, <2>4
<1> QED BY <1>5, <1>6, <1>7, <1>8, <1>9, <1>10, <1>11 DEF SeatInv

LEMMA SeatDeletes ==
  ASSUME SeatType, SeatInv, NEW id \in RoomIds, Deletes(id)
  PROVE  SeatInv'
<1>1. /\ pc' = pc /\ room' = room /\ roomOf' = roomOf /\ found' = found
      /\ slots' = slots /\ closed' = closed
      /\ \A j \in RoomIds : rooms'[j] = IF j = id THEN NoRoom ELSE rooms[j]
  BY DEF Deletes, seat, SeatType
<1>2. HasRoom' /\ SeatedOnce' /\ JoinedSits' /\ OpenUntilSeated' /\ SameIdentifier'
  BY <1>1 DEF SeatInv, HasRoom, SeatedOnce, JoinedSits, Occupies,
              OpenUntilSeated, SameIdentifier
<1>3. UnderItsIdentifier' /\ NoGhostPeer'
  BY <1>1 DEF SeatInv, UnderItsIdentifier, NoGhostPeer
<1>4. MissedForGood'
  <2> SUFFICES ASSUME NEW c \in Conns, pc[c] = "remove", found[c] # room[c]
               PROVE  rooms'[roomOf[c]] # room[c]
    BY <1>1 DEF MissedForGood
  <2>1. rooms[roomOf[c]] # room[c] /\ roomOf[c] \in RoomIds /\ room[c] # NoRoom
    BY DEF SeatInv, MissedForGood, HasRoom, Joined, SeatType
  <2> QED BY <1>1, <2>1
<1> QED BY <1>2, <1>3, <1>4 DEF SeatInv

LEMMA SeatInvStep == TypeOK /\ SeatInv /\ [Next]_vars => SeatInv'
<1> SUFFICES ASSUME TypeOK, SeatInv, [Next]_vars PROVE SeatInv'
  OBVIOUS
<1>1. SeatType /\ SeatStep
  BY SeatTyped, NextIsSeatStep
<1>2. CASE UNCHANGED <<pc, places>>
  BY <1>2 DEF places, seat, SeatInv, HasRoom, SeatedOnce, JoinedSits, Occupies,
              OpenUntilSeated, SameIdentifier, UnderItsIdentifier,
              MissedForGood, NoGhostPeer
<1>3. ASSUME NEW c \in Conns, Moves(c) PROVE SeatInv'
  BY <1>1, <1>3, SeatMoves
<1>4. ASSUME NEW c \in Conns, JoinLookup(c) PROVE SeatInv'
  BY <1>1, <1>4, SeatJoinLookup
<1>5. ASSUME NEW c \in Conns, JoinAdd(c) PROVE SeatInv'
  BY <1>1, <1>5, SeatJoinAdd
<1>6. ASSUME NEW c \in Conns, LeaveLookup(c) PROVE SeatInv'
  BY <1>1, <1>6, SeatLeaveLookup
<1>7. ASSUME NEW c \in Conns, LeaveRemove(c, "arm") \/ LeaveRemove(c, "release")
      PROVE  SeatInv'
  BY <1>1, <1>7, SeatLeaveRemove
<1>8. ASSUME NEW id \in RoomIds, Deletes(id) PROVE SeatInv'
  BY <1>1, <1>8, SeatDeletes
<1> QED BY <1>1, <1>2, <1>3, <1>4, <1>5, <1>6, <1>7, <1>8 DEF SeatStep

LEMMA SeatsHold == Spec => [](TypeOK /\ SeatInv)
<1>1. SeatInv => HasRoom
  BY DEF SeatInv
<1> QED BY <1>1, TypeInit, SeatInit, TypeStep, SeatInvStep, PTL DEF Spec

\* Every variable keeps its type; in particular no channel holds more than
\* its capacity, whoever forwards (room.go, transport.go, websocket.go).
THEOREM TypesKept == Spec => []TypeOK
BY SeatsHold, PTL

\* Forward never sends on a closed channel, Remove never closes one twice,
\* and a handler that was given a slot sits in it until its own RemovePeer:
\* three ways in which the server would panic.
THEOREM SlotsStayOpen == Spec => []SlotsHaveOpenChannels
<1>1. SeatInv => SlotsHaveOpenChannels
  BY DEF SeatInv, SeatedOnce, JoinedSits, SlotsHaveOpenChannels
<1> QED BY <1>1, SeatsHold, PTL

\* A room in the map seats live peers only, although AddPeer and RemovePeer
\* each look the room up under one lock and use it under another, while the
\* cleanup and the timers delete rooms.
THEOREM NoGhosts == Spec => []NoGhostPeer
<1>1. SeatInv => NoGhostPeer
  BY DEF SeatInv
<1> QED BY <1>1, SeatsHold, PTL

-----------------------------------------------------------------------------
(* Roles.  The writer goroutine runs only after the role was written, and  *)
(* channels never hold a role message.                                     *)

BeforeRole == Early \cup {"add", "role"}

RoleInv ==
  \A c \in Conns :
    /\ \A k \in 1..Len(ch[c]) : ch[c][k].from # Server
    /\ pc[c] \in BeforeRole => writer[c] = "none" /\ wire[c] = <<>>
    /\ writer[c] = "run" /\ pc[c] # "done" => wire[c] # <<>>
    /\ wire[c] # <<>> =>
         /\ room[c] \in Conns
         /\ \A k \in 1..Len(wire[c]) : wire[c][k].from = Server <=> k = 1
         /\ \A i \in Slots :
              slots[room[c]][i] = c => wire[c][1].n = RoleForSlot(i)

\* Steps that leave channels, wires and writers alone.
LEMMA RoleSeatStep ==
  ASSUME SeatType, SeatInv, RoleInv, SeatStep, UNCHANGED <<ch, wire, writer>>
  PROVE  RoleInv'
<1> SUFFICES ASSUME NEW d \in Conns
             PROVE  /\ pc'[d] \in BeforeRole => pc[d] \in BeforeRole
                    /\ pc'[d] # "done" => pc[d] # "done"
                    /\ wire[d] # <<>> =>
                         /\ room'[d] = room[d]
                         /\ \A i \in Slots :
                              slots'[room[d]][i] = d => slots[room[d]][i] = d
  BY DEF RoleInv
<1>0. wire[d] # <<>> => pc[d] \notin BeforeRole /\ room[d] \in Conns
  BY DEF RoleInv
<1>1. CASE UNCHANGED <<pc, places>>
  BY <1>1 DEF places, seat
<1>2. ASSUME NEW c \in Conns, Moves(c)
      PROVE  /\ pc'[d] \in BeforeRole => pc[d] \in BeforeRole
             /\ pc'[d] # "done" => pc[d] # "done"
             /\ room' = room /\ slots' = slots
  BY <1>2 DEF Moves, places, seat, SeatType, BeforeRole, Early
<1>3. ASSUME NEW c \in Conns, JoinLookup(c)
      PROVE  /\ pc'[d] \in BeforeRole => pc[d] \in BeforeRole
             /\ pc'[d] # "done" => pc[d] # "done"
             /\ wire[d] # <<>> => room'[d] = room[d] /\ slots' = slots
  BY <1>0, <1>3 DEF JoinLookup, Goto, GetOrCreate, SeatType, BeforeRole, Early
<1>4. ASSUME NEW c \in Conns, JoinAdd(c)
      PROVE  /\ pc'[d] \in BeforeRole => pc[d] \in BeforeRole
             /\ pc'[d] # "done" => pc[d] # "done"
             /\ wire[d] # <<>> =>
                  /\ room'[d] = room[d]
                  /\ \A i \in Slots :
                       slots'[room[d]][i] = d => slots[room[d]][i] = d
  <2>1. /\ pc[c] = "add" /\ pc' = [pc EXCEPT ![c] = "role"] /\ room' = room
        /\ slots' = [slots EXCEPT ![room[c]][Min(FreeSlots(room[c]))] = c]
    BY <1>4 DEF JoinAdd, Goto, Add, seat
  <2>2. wire[d] # <<>> => d # c
    BY <1>0, <2>1 DEF BeforeRole
  <2>3. ASSUME NEW i \in Slots, wire[d] # <<>>, slots'[room[d]][i] = d
        PROVE  slots[room[d]][i] = d
    <3> DEFINE k == Min(FreeSlots(room[c]))
    <3> HIDE DEF k
    <3>1. slots' = [slots EXCEPT ![room[c]][k] = c]
      BY <2>1 DEF k
    <3> QED BY <1>0, <2>2, <2>3, <3>1 DEF SeatType
  <2> QED BY <2>1, <2>3 DEF SeatType, BeforeRole
<1>5. ASSUME NEW c \in Conns, LeaveLookup(c)
      PROVE  /\ pc'[d] \in BeforeRole => pc[d] \in BeforeRole
             /\ pc'[d] # "done" => pc[d] # "done"
             /\ room' = room /\ slots' = slots
  BY <1>5 DEF LeaveLookup, Goto, roomVars, SeatType, BeforeRole, Early
<1>6. ASSUME NEW c \in Conns, NEW next \in {"arm", "release"},
             LeaveRemove(c, next)
      PROVE  /\ pc'[d] \in BeforeRole => pc[d] \in BeforeRole
             /\ pc'[d] # "done" => pc[d] # "done"
             /\ room' = room
             /\ \A q \in Conns, i \in Slots :
                  slots'[q][i] = d => slots[q][i] = d
  <2>1. /\ pc[c] = "remove" /\ pc' = [pc EXCEPT ![c] = next] /\ room' = room
        /\ IF found[c] = NoRoom THEN slots' = slots ELSE Remove(found[c], c)
    BY <1>6 DEF LeaveRemove, Goto, roomVars
  <2>2. \A q \in Conns, i \in Slots : slots'[q][i] = d => slots[q][i] = d
    <3>1. CASE found[c] = NoRoom
      BY <2>1, <3>1
    <3>2. CASE found[c] # NoRoom
      <4>1. slots' = [slots EXCEPT ![found[c]] =
                        [i \in Slots |-> IF slots[found[c]][i] = c THEN NoConn
                                         ELSE slots[found[c]][i]]]
        BY <2>1, <3>2 DEF Remove
      <4> QED BY <4>1 DEF SeatType
    <3> QED BY <3>1, <3>2
  <2> QED BY <2>1, <2>2 DEF SeatType, BeforeRole, Early
<1>7. ASSUME NEW id \in RoomIds, Deletes(id)
      PROVE  pc' = pc /\ room' = room /\ slots' = slots
  BY <1>7 DEF Deletes, seat
<1> QED BY <1>0, <1>1, <1>2, <1>3, <1>4, <1>5, <1>6, <1>7 DEF SeatStep

LEMMA RoleSendRole ==
  ASSUME TypeOK, SeatInv, RoleInv, NEW c \in Conns, SendRole(c)
  PROVE  RoleInv'
<1> DEFINE m == [from |-> Server, n |-> RoleForSlot(SlotOf(c))]
<1>0. SeatType /\ writer \in [Conns -> {"none", "run", "ended"}]
      /\ wire \in [Conns -> Seq(Message)]
  BY SeatTyped DEF TypeOK, HandlerTypeOK
<1>1. /\ pc[c] = "role" /\ pc' = [pc EXCEPT ![c] = "read"]
      /\ wire' = [wire EXCEPT ![c] = Append(@, m)]
      /\ writer' = [writer EXCEPT ![c] = "run"]
      /\ room' = room /\ slots' = slots /\ ch' = ch
  BY DEF SendRole, Goto, seat, roomVars
<1>2. wire[c] = <<>> /\ wire'[c] = <<m>>
  <2>1. wire[c] = <<>>
    BY <1>1 DEF RoleInv, BeforeRole
  <2> HIDE DEF m
  <2> QED BY <1>0, <1>1, <2>1
<1>3. \A i \in Slots : slots[room[c]][i] = c => m.n = RoleForSlot(i)
  <2> SUFFICES ASSUME NEW i \in Slots, slots[room[c]][i] = c
               PROVE  SlotOf(c) = i
    OBVIOUS
  <2>1. room[c] \in Conns
    BY <1>1 DEF SeatInv, HasRoom, Joined
  <2>2. \A j \in Slots : slots[room[c]][j] = c => j = i
    BY <1>0, <2>1 DEF SeatInv, SeatedOnce, SeatType
  <2> QED BY <2>2 DEF SlotOf
<1>4. room[c] \in Conns
  BY <1>1 DEF SeatInv, HasRoom, Joined
<1> SUFFICES ASSUME NEW d \in Conns
             PROVE  /\ \A k \in 1..Len(ch[d]) : ch[d][k].from # Server
                    /\ pc'[d] \in BeforeRole =>
                         writer'[d] = "none" /\ wire'[d] = <<>>
                    /\ writer'[d] = "run" /\ pc'[d] # "done" => wire'[d] # <<>>
                    /\ wire'[d] # <<>> =>
                         /\ room[d] \in Conns
                         /\ \A k \in 1..Len(wire'[d]) :
                              wire'[d][k].from = Server <=> k = 1
                         /\ \A i \in Slots : slots[room[d]][i] = d =>
                              wire'[d][1].n = RoleForSlot(i)
  BY <1>1 DEF RoleInv
<1>5. CASE d = c
  <2>1. pc'[c] = "read"
    BY <1>0, <1>1 DEF SeatType
  <2>2. m.from = Server
    OBVIOUS
  <2> HIDE DEF m
  <2>3. Len(wire'[c]) = 1 /\ wire'[c][1] = m /\ wire'[c] # <<>>
    BY <1>2
  <2>4. \A k \in 1..Len(wire'[c]) : k = 1
    BY <2>3
  <2>5. \A k \in 1..Len(ch[c]) : ch[c][k].from # Server
    BY DEF RoleInv
  <2> QED BY <1>3, <1>4, <1>5, <2>1, <2>2, <2>3, <2>4, <2>5 DEF BeforeRole, Early
<1>6. CASE d # c
  <2>1. pc'[d] = pc[d] /\ wire'[d] = wire[d] /\ writer'[d] = writer[d]
    BY <1>0, <1>1, <1>6 DEF SeatType
  <2> QED BY <2>1 DEF RoleInv
<1> QED BY <1>5, <1>6

\* The writer takes a message off its channel, and may write it.
LEMMA RoleWriter ==
  ASSUME TypeOK, RoleInv, NEW c \in Conns,
         WriterWrites(c) \/ WsWriterFails(c)
  PROVE  RoleInv'
<1>0. /\ ch \in [Conns -> Seq(Message)]
      /\ wire \in [Conns -> Seq(Message)]
      /\ writer \in [Conns -> {"none", "run", "ended"}]
  BY DEF TypeOK, RoomTypeOK, HandlerTypeOK
<1>1. /\ writer[c] = "run" /\ ch[c] # <<>>
      /\ ch' = [ch EXCEPT ![c] = Tail(@)]
      /\ pc' = pc /\ room' = room /\ slots' = slots
      /\ \A d \in Conns : d # c => wire'[d] = wire[d] /\ writer'[d] = writer[d]
      /\ writer'[c] \in {writer[c], "ended"}
      /\ wire'[c] = wire[c] \/
           (pc[c] # "done" /\ wire'[c] = Append(wire[c], Head(ch[c])))
  <2>1. CASE WriterWrites(c)
    BY <1>0, <2>1 DEF WriterWrites, seat
  <2>2. CASE WsWriterFails(c)
    BY <1>0, <2>2 DEF WsWriterFails, seat
  <2> QED BY <2>1, <2>2
<1>2. /\ Len(Tail(ch[c])) = Len(ch[c]) - 1
      /\ \A k \in 1..Len(Tail(ch[c])) : k + 1 \in 1..Len(ch[c])
                                        /\ Tail(ch[c])[k] = ch[c][k + 1]
      /\ Head(ch[c]) = ch[c][1] /\ 1 \in 1..Len(ch[c])
  BY <1>0, <1>1
<1>3. pc[c] \notin BeforeRole
  BY <1>1 DEF RoleInv
<1>4. \A d \in Conns : \A k \in 1..Len(ch'[d]) : ch'[d][k].from # Server
  <2> SUFFICES ASSUME NEW d \in Conns, NEW k \in 1..Len(ch'[d])
               PROVE  ch'[d][k].from # Server
    OBVIOUS
  <2>1. CASE d = c
    BY <1>0, <1>1, <1>2, <2>1 DEF RoleInv
  <2>2. CASE d # c
    BY <1>0, <1>1, <2>2 DEF RoleInv
  <2> QED BY <2>1, <2>2
<1>5. ASSUME wire'[c] = Append(wire[c], Head(ch[c])), pc[c] # "done"
      PROVE  /\ wire[c] # <<>> /\ wire'[c] # <<>>
             /\ wire'[c][1] = wire[c][1]
             /\ \A k \in 1..Len(wire'[c]) : wire'[c][k].from = Server <=> k = 1
  <2>1. wire[c] # <<>> /\ Head(ch[c]).from # Server
    BY <1>1, <1>2, <1>5 DEF RoleInv
  <2>2. Len(wire[c]) \in Nat \ {0} /\ Head(ch[c]) \in Message
    BY <1>0, <1>1, <2>1
  <2>3. /\ Len(wire'[c]) = Len(wire[c]) + 1
        /\ wire'[c][Len(wire[c]) + 1] = Head(ch[c])
        /\ \A k \in 1..Len(wire[c]) : wire'[c][k] = wire[c][k]
    BY <1>0, <1>5, <2>2
  <2>4. ASSUME NEW k \in 1..Len(wire'[c])
        PROVE  wire'[c][k].from = Server <=> k = 1
    <3>1. CASE k \in 1..Len(wire[c])
      BY <2>1, <2>3, <3>1 DEF RoleInv
    <3>2. CASE k = Len(wire[c]) + 1
      BY <2>1, <2>2, <2>3, <3>2
    <3> QED BY <2>2, <2>3, <3>1, <3>2
  <2>5. wire'[c] # <<>> /\ wire'[c][1] = wire[c][1]
    <3>1. wire'[c] # <<>>
      BY <2>2, <2>3
    <3>2. 1 \in 1..Len(wire[c])
      BY <2>2
    <3> QED BY <2>3, <3>1, <3>2
  <2> QED BY <2>1, <2>4, <2>5
<1> SUFFICES ASSUME NEW d \in Conns
             PROVE  /\ pc[d] \in BeforeRole =>
                         writer'[d] = "none" /\ wire'[d] = <<>>
                    /\ writer'[d] = "run" /\ pc[d] # "done" => wire'[d] # <<>>
                    /\ wire'[d] # <<>> =>
                         /\ room[d] \in Conns
                         /\ \A k \in 1..Len(wire'[d]) :
                              wire'[d][k].from = Server <=> k = 1
                         /\ \A i \in Slots : slots[room[d]][i] = d =>
                              wire'[d][1].n = RoleForSlot(i)
  BY <1>1, <1>4 DEF RoleInv
<1>6. CASE d # c
  BY <1>1, <1>6 DEF RoleInv
<1>7. CASE d = c /\ wire'[c] = wire[c]
  BY <1>1, <1>3, <1>7 DEF RoleInv
<1>8. CASE d = c /\ wire'[c] # wire[c]
  BY <1>1, <1>3, <1>5, <1>8 DEF RoleInv
<1> QED BY <1>6, <1>7, <1>8

LEMMA RoleRelay ==
  ASSUME TypeOK, SeatInv, RoleInv, NEW c \in Conns, Relay(c)
  PROVE  RoleInv'
<1> DEFINE m == [from |-> c, n |-> sent[c] + 1]
<1>1. /\ room[c] \in Conns
      /\ Forward(room[c], c, m)
      /\ UNCHANGED <<pc, room, slots, wire, writer>>
  BY DEF Relay, Forward, seat, SeatInv, HasRoom, Joined
<1>2. m \in Message /\ m.from # Server
  BY PeerHandlerAssumption DEF Message, TypeOK, HandlerTypeOK
<1> HIDE DEF m
<1>3. \A d \in Conns : ch'[d] = ch[d] \/ ch'[d] = Append(ch[d], m)
  BY <1>1, <1>2, ForwardFits DEF TypeOK
<1>4. ch \in [Conns -> Seq(Message)]
  BY DEF TypeOK, RoomTypeOK
<1>5. ASSUME NEW d \in Conns, NEW k \in 1..Len(ch'[d])
      PROVE  ch'[d][k].from # Server
  <2>1. CASE ch'[d] = ch[d]
    BY <1>5, <2>1 DEF RoleInv
  <2>2. CASE ch'[d] = Append(ch[d], m)
    <3>1. /\ Len(ch'[d]) = Len(ch[d]) + 1
          /\ ch'[d][Len(ch[d]) + 1] = m
          /\ \A j \in 1..Len(ch[d]) : ch'[d][j] = ch[d][j]
          /\ Len(ch[d]) \in Nat
      BY <1>2, <1>4, <2>2
    <3>2. k \in 1..Len(ch[d]) \/ k = Len(ch[d]) + 1
      BY <3>1
    <3> QED BY <1>2, <3>1, <3>2 DEF RoleInv
  <2> QED BY <1>3, <2>1, <2>2
<1> QED BY <1>1, <1>5 DEF RoleInv

LEMMA RoleStep == TypeOK /\ SeatInv /\ RoleInv /\ [Next]_vars => RoleInv'
<1> SUFFICES ASSUME TypeOK, SeatInv, RoleInv, [Next]_vars PROVE RoleInv'
  OBVIOUS
<1>0. SeatType /\ SeatStep
  BY SeatTyped, NextIsSeatStep
<1>1. CASE UNCHANGED <<ch, wire, writer>>
  BY <1>0, <1>1, RoleSeatStep
<1>2. ASSUME NEW c \in Conns, SendRole(c) PROVE RoleInv'
  BY <1>2, RoleSendRole
<1>3. ASSUME NEW c \in Conns, WriterWrites(c) \/ WsWriterFails(c) PROVE RoleInv'
  BY <1>3, RoleWriter
<1>4. ASSUME NEW c \in Conns, Relay(c) PROVE RoleInv'
  BY <1>4, RoleRelay
<1>5. ASSUME NEW c \in Conns, WriterEnds(c) PROVE RoleInv'
  <2>1. /\ writer' = [writer EXCEPT ![c] = "ended"] /\ writer[c] = "run"
        /\ UNCHANGED <<pc, room, slots, ch, wire>>
    BY <1>5 DEF WriterEnds, seat, roomVars
  <2>2. writer \in [Conns -> {"none", "run", "ended"}]
    BY DEF TypeOK, HandlerTypeOK
  <2> QED BY <2>1, <2>2 DEF RoleInv
<1>6. ASSUME NEW c \in Conns, Release(c, ProtocolOf(c)) PROVE RoleInv'
  <2>1. /\ pc[c] = "release" /\ pc' = [pc EXCEPT ![c] = "done"]
        /\ wire' = [wire EXCEPT ![c] = <<>>]
        /\ UNCHANGED <<room, slots, ch, writer>>
    BY <1>6 DEF Release, Goto, seat, roomVars
  <2>2. wire \in [Conns -> Seq(Message)]
    BY DEF TypeOK, HandlerTypeOK
  <2> QED BY <1>0, <2>1, <2>2 DEF RoleInv, SeatType, BeforeRole, Early
<1>7. ASSUME NEW c \in Conns, Shared(c)
      PROVE  RoleInv' \/ UNCHANGED <<ch, wire, writer>>
  BY <1>2, <1>3, <1>4, <1>5, <1>6, <1>7
     DEF Shared, JoinLookup, GetOrCreate, JoinAdd, Add, JoinFull, ReadFails,
         LeaveLookup, LeaveRemove, Remove, stream, roomVars
<1>8. ASSUME NEW c \in Conns, Own(c)
      PROVE  RoleInv' \/ UNCHANGED <<ch, wire, writer>>
  BY <1>3, <1>8
     DEF Own, TcpOwn, WsOwn, TcpAccept, TcpReject, TcpFirstLine, TcpArm,
         TcpTimerFires, TcpTimerDeletes, DeleteRoom, WsCheck, WsReject,
         WsUpgrade, WsUpgradeFails, WsRoleFails, WsReturns, handlerVars,
         stream, roomVars
<1>9. IdleCleanup \/ UNCHANGED vars => UNCHANGED <<ch, wire, writer>>
  BY DEF IdleCleanup, ExpireRoom, DeleteRoom, vars, handlerVars, stream, roomVars
<1> QED BY <1>1, <1>7, <1>8, <1>9, NextSplits DEF Common

\* A client reads its role first and once, and it is the role of its slot,
\* although its partner's lines are queued for it from the moment it has the
\* slot.
THEOREM RoleComesFirst == Spec => []RoleFirst
<1>1. Init => RoleInv
  BY DEF Init, RoomInit, HandlerInit, RoleInv
<1>2. RoleInv => RoleFirst
  BY DEF RoleInv, RoleFirst
<1> QED BY <1>1, <1>2, SeatsHold, RoleStep, PTL DEF Spec

-----------------------------------------------------------------------------
(* Order.  The log of a client loses lines, gets its role, or gets the     *)
(* next line of its partner at its end.                                    *)

\* The lines of the new sequence, role messages aside, stand in the old one
\* in the same order.
Thins(new, old) ==
  \E h \in [1..Len(new) -> Int] :
    /\ \A k \in 1..Len(new) :
         new[k].from # Server => h[k] \in 1..Len(old) /\ new[k] = old[h[k]]
    /\ \A j, k \in 1..Len(new) :
         j < k /\ new[j].from # Server /\ new[k].from # Server => h[j] < h[k]

\* A line that may stand in the log of c: and its sender, while it is served,
\* has sent no fewer lines than this one counts.
LineFits(c, m) ==
  m.from # Server =>
    /\ m.from # c
    /\ roomOf[m.from] = roomOf[c]
    /\ pc[m.from] # "done" => m.n <= sent[m.from]

Ordered(log) ==
  \A j, k \in 1..Len(log) :
    j < k /\ log[j].from = log[k].from /\ log[j].from # Server
      => log[j].n < log[k].n

OrderInv ==
  \A c \in Conns :
    /\ \A k \in 1..Len(Log(c)) : LineFits(c, Log(c)[k])
    /\ Ordered(Log(c))

\* What a step does that relays nothing.
Quiet ==
  /\ roomOf' = roomOf
  /\ \A d \in Conns : pc'[d] # "done" => pc[d] # "done" /\ sent'[d] = sent[d]
  /\ \A c \in Conns : Thins(Log(c)', Log(c))

LEMMA LogTyped ==
  ASSUME NEW w \in [Conns -> Seq(Message)], NEW q \in [Conns -> Seq(Message)],
         NEW c \in Conns
  PROVE  /\ w[c] \o q[c] \in Seq(Message)
         /\ Len(w[c]) \in Nat /\ Len(q[c]) \in Nat
         /\ Len(w[c] \o q[c]) = Len(w[c]) + Len(q[c])
         /\ \A k \in 1..Len(w[c]) + Len(q[c]) :
              (w[c] \o q[c])[k] = IF k <= Len(w[c]) THEN w[c][k]
                                  ELSE q[c][k - Len(w[c])]
<1>1. w[c] \in Seq(Message) /\ q[c] \in Seq(Message)
  OBVIOUS
<1> QED BY <1>1, ConcatProperties, LenProperties

LEMMA LogsTyped ==
  ASSUME TypeOK
  PROVE  /\ wire \in [Conns -> Seq(Message)]
         /\ ch \in [Conns -> Seq(Message)]
         /\ \A c \in Conns : /\ Log(c) = wire[c] \o ch[c]
                             /\ Log(c) \in Seq(Message)
                             /\ Len(Log(c)) \in Nat
<1>1. wire \in [Conns -> Seq(Message)] /\ ch \in [Conns -> Seq(Message)]
  BY DEF TypeOK, HandlerTypeOK, RoomTypeOK
<1>2. ASSUME NEW c \in Conns
      PROVE  Log(c) \in Seq(Message) /\ Len(Log(c)) \in Nat
  <2>1. Log(c) \in Seq(Message)
    BY <1>1, LogTyped DEF Log
  <2> QED BY <2>1
<1> QED BY <1>1, <1>2 DEF Log

LEMMA ThinsItself ==
  ASSUME NEW S, NEW s \in Seq(S)
  PROVE  Thins(s, s)
<1> DEFINE h == [k \in 1..Len(s) |-> k]
<1>1. h \in [1..Len(s) -> Int] /\ \A k \in 1..Len(s) : h[k] = k
  OBVIOUS
<1> HIDE DEF h
<1> QED BY <1>1 DEF Thins

\* Lines are never late for their order by being lost.
LEMMA QuietKeepsOrder ==
  ASSUME TypeOK, TypeOK', OrderInv, Quiet
  PROVE  OrderInv'
<1> SUFFICES ASSUME NEW c \in Conns
             PROVE  /\ \A k \in 1..Len(Log(c)') :
                         Log(c)'[k].from # Server =>
                           /\ Log(c)'[k].from # c
                           /\ roomOf'[Log(c)'[k].from] = roomOf'[c]
                           /\ pc'[Log(c)'[k].from] # "done" =>
                                Log(c)'[k].n <= sent'[Log(c)'[k].from]
                    /\ Ordered(Log(c)')
  BY DEF OrderInv, LineFits
<1> DEFINE old == Log(c)  new == Log(c)'
<1>1. PICK h \in [1..Len(new) -> Int] :
        /\ \A k \in 1..Len(new) :
             new[k].from # Server => h[k] \in 1..Len(old) /\ new[k] = old[h[k]]
        /\ \A j, k \in 1..Len(new) :
             j < k /\ new[j].from # Server /\ new[k].from # Server => h[j] < h[k]
  BY DEF Quiet, Thins
<1>2. /\ \A k \in 1..Len(old) : LineFits(c, old[k])
      /\ \A j, k \in 1..Len(old) :
           j < k /\ old[j].from = old[k].from /\ old[j].from # Server
             => old[j].n < old[k].n
  BY DEF OrderInv, Ordered
<1>3. /\ roomOf' = roomOf
      /\ \A d \in Conns : pc'[d] # "done" => pc[d] # "done" /\ sent'[d] = sent[d]
  BY DEF Quiet
<1>4. ASSUME NEW k \in 1..Len(old) PROVE old[k].from \in Conns \cup {Server}
  <2>1. old \in Seq(Message)
    BY LogsTyped
  <2>2. old[k] \in Message
    BY <2>1, ElementOfSeq
  <2> QED BY <2>2 DEF Message
<1> HIDE DEF old, new
<1>5. ASSUME NEW k \in 1..Len(new), new[k].from # Server
      PROVE  /\ new[k].from # c
             /\ roomOf'[new[k].from] = roomOf'[c]
             /\ pc'[new[k].from] # "done" => new[k].n <= sent'[new[k].from]
  <2>1. h[k] \in 1..Len(old) /\ new[k] = old[h[k]]
    BY <1>1, <1>5
  <2> QED BY <1>2, <1>3, <1>4, <1>5, <2>1 DEF LineFits
<1>6. Ordered(new)
  <2> SUFFICES ASSUME NEW j \in 1..Len(new), NEW k \in 1..Len(new), j < k,
                      new[j].from = new[k].from, new[j].from # Server
               PROVE  new[j].n < new[k].n
    BY DEF Ordered
  <2>1. /\ h[j] \in 1..Len(old) /\ h[k] \in 1..Len(old) /\ h[j] < h[k]
        /\ new[j] = old[h[j]] /\ new[k] = old[h[k]]
    BY <1>1
  <2> QED BY <1>2, <2>1
<1> QED BY <1>5, <1>6 DEF new

\* Two histories of one client, each with what is left of its channel: the
\* later one lacks a line of the channel, or the whole wire, or has the role.
LEMMA ThinsChannel ==
  ASSUME NEW w \in Seq(Message), NEW q \in Seq(Message), q # <<>>
  PROVE  Thins(w \o Tail(q), w \o q)
<1> DEFINE h == [k \in 1..Len(w \o Tail(q)) |-> IF k <= Len(w) THEN k ELSE k + 1]
<1>1. /\ Tail(q) \in Seq(Message) /\ Len(Tail(q)) = Len(q) - 1
      /\ \A i \in 1..Len(Tail(q)) : Tail(q)[i] = q[i + 1]
      /\ Len(q) \in Nat \ {0} /\ Len(w) \in Nat
  BY HeadTailProperties, EmptySeq, LenProperties
<1>2. /\ Len(w \o Tail(q)) = Len(w) + Len(q) - 1
      /\ \A k \in 1..Len(w) + Len(Tail(q)) :
           (w \o Tail(q))[k] = IF k <= Len(w) THEN w[k] ELSE Tail(q)[k - Len(w)]
  BY <1>1, ConcatProperties
<1>3. /\ Len(w \o q) = Len(w) + Len(q)
      /\ \A k \in 1..Len(w) + Len(q) :
           (w \o q)[k] = IF k <= Len(w) THEN w[k] ELSE q[k - Len(w)]
  BY ConcatProperties
<1>4. /\ h \in [1..Len(w \o Tail(q)) -> Int]
      /\ \A k \in 1..Len(w \o Tail(q)) : h[k] = IF k <= Len(w) THEN k ELSE k + 1
  BY <1>1, <1>2
<1> HIDE DEF h
<1>5. ASSUME NEW k \in 1..Len(w \o Tail(q))
      PROVE  h[k] \in 1..Len(w \o q) /\ (w \o Tail(q))[k] = (w \o q)[h[k]]
  <2>1. CASE k <= Len(w)
    BY <1>1, <1>2, <1>3, <1>4, <2>1
  <2>2. CASE k > Len(w)
    <3>1. k - Len(w) \in 1..Len(Tail(q)) /\ k + 1 \in 1..Len(w) + Len(q)
      BY <1>1, <1>2, <2>2
    <3>2. (w \o Tail(q))[k] = q[k - Len(w) + 1]
      BY <1>1, <1>2, <2>2, <3>1
    <3>3. (w \o q)[k + 1] = q[k + 1 - Len(w)]
      BY <1>1, <1>3, <2>2, <3>1
    <3> QED BY <1>1, <1>3, <1>4, <2>2, <3>1, <3>2, <3>3
  <2> QED BY <1>1, <1>2, <2>1, <2>2
<1>6. \A j, k \in 1..Len(w \o Tail(q)) : j < k => h[j] < h[k]
  BY <1>1, <1>2, <1>4
<1> QED BY <1>4, <1>5, <1>6 DEF Thins

LEMMA ThinsWire ==
  ASSUME NEW w \in Seq(Message), NEW q \in Seq(Message)
  PROVE  Thins(<<>> \o q, w \o q)
<1> DEFINE h == [k \in 1..Len(q) |-> k + Len(w)]
<1>1. <<>> \o q = q /\ Len(q) \in Nat /\ Len(w) \in Nat
  BY ConcatEmptySeq, LenProperties
<1>2. /\ Len(w \o q) = Len(w) + Len(q)
      /\ \A k \in 1..Len(w) + Len(q) :
           (w \o q)[k] = IF k <= Len(w) THEN w[k] ELSE q[k - Len(w)]
  BY ConcatProperties
<1>3. h \in [1..Len(q) -> Int] /\ \A k \in 1..Len(q) : h[k] = k + Len(w)
  BY <1>1
<1> HIDE DEF h
<1>4. ASSUME NEW k \in 1..Len(q)
      PROVE  h[k] \in 1..Len(w \o q) /\ q[k] = (w \o q)[h[k]]
  <2>1. h[k] = k + Len(w) /\ h[k] \in 1..Len(w) + Len(q) /\ ~(h[k] <= Len(w))
    BY <1>1, <1>3
  <2>2. h[k] - Len(w) = k
    BY <1>1, <2>1
  <2> QED BY <1>2, <2>1, <2>2
<1>5. \A j, k \in 1..Len(q) : j < k => h[j] < h[k]
  BY <1>1, <1>3
<1> QED BY <1>1, <1>3, <1>4, <1>5 DEF Thins

LEMMA ThinsRole ==
  ASSUME NEW m \in Message, m.from = Server, NEW q \in Seq(Message)
  PROVE  Thins(<<m>> \o q, <<>> \o q)
<1> DEFINE h == [k \in 1..Len(<<m>> \o q) |-> k - 1]
<1>1. <<>> \o q = q /\ Len(q) \in Nat
  BY ConcatEmptySeq, LenProperties
<1>2. <<m>> \in Seq(Message) /\ Len(<<m>>) = 1 /\ <<m>>[1] = m
  OBVIOUS
<1>3. /\ Len(<<m>> \o q) = 1 + Len(q)
      /\ \A k \in 1..1 + Len(q) :
           (<<m>> \o q)[k] = IF k <= 1 THEN <<m>>[k] ELSE q[k - 1]
  BY <1>2, ConcatProperties
<1>4. /\ h \in [1..Len(<<m>> \o q) -> Int]
      /\ \A k \in 1..Len(<<m>> \o q) : h[k] = k - 1
  BY <1>1, <1>3
<1> HIDE DEF h
<1>5. ASSUME NEW k \in 1..Len(<<m>> \o q), (<<m>> \o q)[k].from # Server
      PROVE  h[k] \in 1..Len(q) /\ (<<m>> \o q)[k] = q[h[k]]
  <2>1. k # 1
    BY <1>1, <1>2, <1>3, <1>5
  <2> QED BY <1>1, <1>3, <1>4, <2>1
<1>6. \A j, k \in 1..Len(<<m>> \o q) : j < k => h[j] < h[k]
  BY <1>1, <1>3, <1>4
<1> QED BY <1>1, <1>4, <1>5, <1>6 DEF Thins

\* The writer takes a line from the channel to the wire: the log stays.
LEMMA LogMoves ==
  ASSUME NEW w \in Seq(Message), NEW q \in Seq(Message), q # <<>>
  PROVE  Append(w, Head(q)) \o Tail(q) = w \o q
<1>1. Head(q) \in Message /\ Tail(q) \in Seq(Message)
  BY HeadTailProperties
<1>2. <<Head(q)>> \in Seq(Message)
  BY <1>1
<1>3. Append(w, Head(q)) = w \o <<Head(q)>>
  BY <1>1, AppendIsConcat
<1>4. (w \o <<Head(q)>>) \o Tail(q) = w \o (<<Head(q)>> \o Tail(q))
  BY <1>1, <1>2, ConcatAssociative
<1>5. <<Head(q)>> \o Tail(q) = q
  <2>1. /\ Len(q) \in Nat \ {0} /\ Len(Tail(q)) = Len(q) - 1
        /\ \A i \in 1..Len(Tail(q)) : Tail(q)[i] = q[i + 1]
        /\ Head(q) = q[1]
    BY HeadTailProperties, EmptySeq
  <2>2. /\ <<Head(q)>> \o Tail(q) \in Seq(Message)
        /\ Len(<<Head(q)>> \o Tail(q)) = 1 + Len(Tail(q))
        /\ \A i \in 1..1 + Len(Tail(q)) :
             (<<Head(q)>> \o Tail(q))[i] =
               IF i <= 1 THEN <<Head(q)>>[i] ELSE Tail(q)[i - 1]
    BY <1>1, <1>2, ConcatProperties
  <2>3. ASSUME NEW i \in 1..Len(q)
        PROVE  (<<Head(q)>> \o Tail(q))[i] = q[i]
    <3>1. CASE i = 1
      BY <2>1, <2>2, <3>1
    <3>2. CASE i # 1
      <4>1. i - 1 \in 1..Len(Tail(q)) /\ i \in 1..1 + Len(Tail(q)) /\ ~(i <= 1)
        BY <2>1, <3>2
      <4>2. (<<Head(q)>> \o Tail(q))[i] = Tail(q)[i - 1]
        BY <2>2, <4>1
      <4>3. Tail(q)[i - 1] = q[(i - 1) + 1]
        BY <2>1, <4>1
      <4> QED BY <4>2, <4>3
    <3> QED BY <3>1, <3>2
  <2> QED BY <2>1, <2>2, <2>3, SeqEqual
<1> QED BY <1>3, <1>4, <1>5

\* Every step but Relay is quiet.
LEMMA WriterIsQuiet ==
  ASSUME TypeOK, NEW c \in Conns, WriterWrites(c) \/ WsWriterFails(c)
  PROVE  Quiet
<1>0. /\ wire \in [Conns -> Seq(Message)] /\ ch \in [Conns -> Seq(Message)]
      /\ \A d \in Conns : Log(d) \in Seq(Message)
  BY LogsTyped
<1>1. /\ UNCHANGED <<pc, roomOf, sent>>
      /\ ch[c] # <<>> /\ ch' = [ch EXCEPT ![c] = Tail(@)]
      /\ wire' = wire \/ wire' = [wire EXCEPT ![c] = Append(@, Head(ch[c]))]
  BY DEF WriterWrites, WsWriterFails, seat
<1>2. ASSUME NEW d \in Conns, d # c PROVE Thins(Log(d)', Log(d))
  <2>1. Log(d)' = Log(d)
    BY <1>0, <1>1, <1>2 DEF Log
  <2> QED BY <1>0, <2>1, ThinsItself
<1>3. CASE wire' = wire
  <2>1. Log(c)' = wire[c] \o Tail(ch[c])
    BY <1>0, <1>1, <1>3 DEF Log
  <2>2. Thins(Log(c)', Log(c))
    BY <1>0, <1>1, <2>1, ThinsChannel DEF Log
  <2> QED BY <1>1, <1>2, <2>2 DEF Quiet
<1>4. CASE wire' = [wire EXCEPT ![c] = Append(@, Head(ch[c]))]
  <2>1. Log(c)' = Append(wire[c], Head(ch[c])) \o Tail(ch[c])
    BY <1>0, <1>1, <1>4 DEF Log
  <2>2. Log(c)' = Log(c)
    BY <1>0, <1>1, <2>1, LogMoves DEF Log
  <2>3. Thins(Log(c)', Log(c))
    BY <1>0, <2>2, ThinsItself
  <2> QED BY <1>1, <1>2, <2>3 DEF Quiet
<1> QED BY <1>1, <1>3, <1>4

LEMMA ReleaseIsQuiet ==
  ASSUME TypeOK, NEW c \in Conns, Release(c, ProtocolOf(c))
  PROVE  Quiet
<1>0. /\ wire \in [Conns -> Seq(Message)] /\ ch \in [Conns -> Seq(Message)]
      /\ \A d \in Conns : Log(d) \in Seq(Message)
      /\ pc \in [Conns -> Pcs] /\ sent \in [Conns -> Nat]
  BY LogsTyped DEF TypeOK, HandlerTypeOK, Pcs
<1>1. /\ roomOf' = roomOf /\ ch' = ch
      /\ pc' = [pc EXCEPT ![c] = "done"]
      /\ sent' = [sent EXCEPT ![c] = 0]
      /\ wire' = [wire EXCEPT ![c] = <<>>]
  BY DEF Release, Goto, seat, roomVars
<1>2. ASSUME NEW d \in Conns PROVE Thins(Log(d)', Log(d))
  <2>1. CASE d = c
    <3>1. Log(d)' = <<>> \o ch[d] /\ Log(d) = wire[d] \o ch[d]
      BY <1>0, <1>1, <2>1 DEF Log
    <3> QED BY <1>0, <3>1, ThinsWire
  <2>2. CASE d # c
    <3>1. Log(d)' = Log(d)
      BY <1>0, <1>1, <2>2 DEF Log
    <3> QED BY <1>0, <3>1, ThinsItself
  <2> QED BY <2>1, <2>2
<1>3. \A d \in Conns : pc'[d] # "done" => pc[d] # "done" /\ sent'[d] = sent[d]
  BY <1>0, <1>1
<1> QED BY <1>1, <1>2, <1>3 DEF Quiet

LEMMA SendRoleIsQuiet ==
  ASSUME TypeOK, RoleInv, NEW c \in Conns, SendRole(c)
  PROVE  Quiet
<1> DEFINE m == [from |-> Server, n |-> RoleForSlot(SlotOf(c))]
<1>0. /\ wire \in [Conns -> Seq(Message)] /\ ch \in [Conns -> Seq(Message)]
      /\ \A d \in Conns : Log(d) \in Seq(Message)
      /\ pc \in [Conns -> Pcs]
  BY LogsTyped DEF TypeOK, HandlerTypeOK, Pcs
<1>1. /\ pc[c] = "role" /\ pc' = [pc EXCEPT ![c] = "read"]
      /\ wire' = [wire EXCEPT ![c] = Append(@, m)]
      /\ UNCHANGED <<roomOf, sent, ch>>
  BY DEF SendRole, Goto, seat, roomVars
<1>2. m \in Message /\ m.from = Server
  BY DEF Message, RoleForSlot
<1> HIDE DEF m
<1>3. wire[c] = <<>>
  BY <1>1 DEF RoleInv, BeforeRole
<1>4. ASSUME NEW d \in Conns PROVE Thins(Log(d)', Log(d))
  <2>1. CASE d = c
    <3>1. wire'[c] = <<m>>
      BY <1>0, <1>1, <1>2, <1>3
    <3>2. Log(d)' = <<m>> \o ch[d] /\ Log(d) = <<>> \o ch[d]
      BY <1>1, <1>3, <2>1, <3>1 DEF Log
    <3> QED BY <1>0, <1>2, <3>2, ThinsRole
  <2>2. CASE d # c
    <3>1. Log(d)' = Log(d)
      BY <1>0, <1>1, <2>2 DEF Log
    <3> QED BY <1>0, <3>1, ThinsItself
  <2> QED BY <2>1, <2>2
<1>5. \A d \in Conns : pc'[d] # "done" => pc[d] # "done"
  BY <1>0, <1>1
<1> QED BY <1>1, <1>4, <1>5 DEF Quiet

LEMMA NextIsQuiet ==
  ASSUME TypeOK, RoleInv, [Next]_vars
  PROVE  Quiet \/ \E c \in Conns : Relay(c)
<1>0. pc \in [Conns -> Pcs] /\ \A d \in Conns : Log(d) \in Seq(Message)
  BY LogsTyped DEF TypeOK, HandlerTypeOK, Pcs
<1>1. ASSUME UNCHANGED <<roomOf, sent, ch, wire>>,
             \A d \in Conns : pc'[d] # "done" => pc[d] # "done"
      PROVE  Quiet
  <2>1. ASSUME NEW d \in Conns PROVE Thins(Log(d)', Log(d))
    <3>1. Log(d)' = Log(d)
      BY <1>1 DEF Log
    <3> QED BY <1>0, <3>1, ThinsItself
  <2> QED BY <1>1, <2>1 DEF Quiet
<1>2. ASSUME NEW c \in Conns, Shared(c)
      PROVE  Quiet \/ Relay(c)
  <2>1. CASE SendRole(c) \/ WriterWrites(c) \/ Release(c, ProtocolOf(c)) \/ Relay(c)
    BY <2>1, SendRoleIsQuiet, WriterIsQuiet, ReleaseIsQuiet
  <2>2. CASE ~(SendRole(c) \/ WriterWrites(c) \/ Release(c, ProtocolOf(c)) \/ Relay(c))
    <3>1. UNCHANGED <<roomOf, sent, ch, wire>>
      BY <1>2, <2>2
         DEF Shared, JoinLookup, GetOrCreate, JoinAdd, Add, JoinFull, ReadFails,
             LeaveLookup, LeaveRemove, Remove, WriterEnds, seat, stream, roomVars
    <3>2. pc' = pc \/ \E to \in Pcs : pc[c] # "done" /\ pc' = [pc EXCEPT ![c] = to]
      BY <1>2, <2>2
         DEF Shared, Goto, JoinLookup, JoinAdd, JoinFull, ReadFails,
             LeaveLookup, LeaveRemove, WriterEnds, Pcs
    <3> QED BY <1>0, <1>1, <3>1, <3>2
  <2> QED BY <2>1, <2>2
<1>3. ASSUME NEW c \in Conns, Own(c)
      PROVE  Quiet
  <2>1. CASE WsWriterFails(c)
    BY <2>1, WriterIsQuiet
  <2>2. CASE ~WsWriterFails(c)
    <3>1. UNCHANGED <<roomOf, sent, ch, wire>>
      BY <1>3, <2>2
         DEF Own, TcpOwn, WsOwn, TcpAccept, TcpReject, TcpFirstLine, TcpArm,
             TcpTimerFires, TcpTimerDeletes, DeleteRoom, WsCheck, WsReject,
             WsUpgrade, WsUpgradeFails, WsRoleFails, WsReturns, handlerVars,
             seat, stream, roomVars
    <3>2. pc' = pc \/ \E to \in Pcs : pc[c] # "done" /\ pc' = [pc EXCEPT ![c] = to]
      BY <1>3, <2>2
         DEF Own, TcpOwn, WsOwn, TcpAccept, TcpReject, TcpFirstLine, TcpArm,
             TcpTimerFires, TcpTimerDeletes, WsCheck, WsReject, WsUpgrade,
             WsUpgradeFails, WsRoleFails, WsReturns, handlerVars, Goto, Pcs
    <3> QED BY <1>0, <1>1, <3>1, <3>2
  <2> QED BY <2>1, <2>2
<1>4. IdleCleanup \/ UNCHANGED vars => UNCHANGED <<pc, roomOf, sent, ch, wire>>
  BY DEF IdleCleanup, ExpireRoom, DeleteRoom, vars, handlerVars, seat, stream, roomVars
<1> QED BY <1>1, <1>2, <1>3, <1>4, NextSplits DEF Common

\* The partner of c, to whom its line goes, joined the same room identifier.
LEMMA PartnerSharesIdentifier ==
  ASSUME TypeOK, SeatInv, NEW c \in Conns, pc[c] = "read",
         NEW m \in Message, Forward(room[c], c, m)
  PROVE  \A d \in Conns :
           \/ ch'[d] = ch[d]
           \/ /\ ch'[d] = Append(ch[d], m)
              /\ d # c /\ roomOf[d] = roomOf[c]
<1> DEFINE r == room[c]
           others == {i \in Slots : slots[r][i] \notin {NoConn, c}}
           to == slots[r][Min(others)]
<1>0. /\ SeatType /\ r \in Conns
      /\ ch \in [Conns -> Seq(Message)]
  BY SeatTyped DEF SeatInv, HasRoom, Joined, TypeOK, RoomTypeOK
<1>1. ch' = IF others # {} /\ Len(ch[to]) < ChannelSize
            THEN [ch EXCEPT ![to] = Append(ch[to], m)] ELSE ch
  BY DEF Forward
<1>2. CASE others # {} /\ Len(ch[to]) < ChannelSize
  <2>1. Min(others) \in others
    BY <1>2, MinOfSlots
  <2>2. PICK i \in Slots : to = slots[r][i] /\ to # NoConn /\ to # c
    BY <2>1
  <2>3. to \in Conns
    BY <1>0, <2>2 DEF SeatType
  <2>4. room[to] = r
    BY <1>0, <2>2 DEF SeatInv, SeatedOnce
  <2> HIDE DEF to, others
  <2>5. roomOf[to] = roomOf[r] /\ roomOf[c] = roomOf[r]
    BY <1>0, <2>3, <2>4 DEF SeatInv, SameIdentifier, SeatType
  <2>6. ch' = [ch EXCEPT ![to] = Append(ch[to], m)]
    BY <1>1, <1>2
  <2> QED BY <1>0, <2>2, <2>3, <2>5, <2>6
<1>3. CASE ~(others # {} /\ Len(ch[to]) < ChannelSize)
  BY <1>1, <1>3
<1> QED BY <1>2, <1>3

LEMMA LogAppends ==
  ASSUME NEW w \in Seq(Message), NEW q \in Seq(Message), NEW m \in Message
  PROVE  w \o Append(q, m) = Append(w \o q, m)
<1>1. <<m>> \in Seq(Message) /\ w \o q \in Seq(Message)
  BY ConcatProperties
<1>2. Append(q, m) = q \o <<m>> /\ Append(w \o q, m) = (w \o q) \o <<m>>
  BY <1>1, AppendIsConcat
<1> QED BY <1>1, <1>2, ConcatAssociative

LEMMA RelayKeepsOrder ==
  ASSUME TypeOK, SeatInv, OrderInv, NEW c \in Conns, Relay(c)
  PROVE  OrderInv'
<1> DEFINE m == [from |-> c, n |-> sent[c] + 1]
<1>0. /\ wire \in [Conns -> Seq(Message)] /\ ch \in [Conns -> Seq(Message)]
      /\ \A d \in Conns : Log(d) \in Seq(Message) /\ Len(Log(d)) \in Nat
      /\ sent \in [Conns -> Nat]
  BY LogsTyped DEF TypeOK, HandlerTypeOK
<1>1. /\ pc[c] = "read"
      /\ sent' = [sent EXCEPT ![c] = @ + 1]
      /\ Forward(room[c], c, m)
      /\ UNCHANGED <<pc, roomOf, wire>>
  BY DEF Relay, seat
<1>2. m \in Message /\ m.from = c /\ m.n = sent[c] + 1 /\ c # Server
  BY <1>0, PeerHandlerAssumption DEF Message
<1> HIDE DEF m
<1>3. \A d \in Conns : ch'[d] = ch[d] \/ /\ ch'[d] = Append(ch[d], m)
                                         /\ d # c /\ roomOf[d] = roomOf[c]
  BY <1>1, <1>2, PartnerSharesIdentifier
<1>4. ASSUME NEW d \in Conns, NEW k \in 1..Len(Log(d))
      PROVE  Log(d)[k].from \in Conns \cup {Server} /\ Log(d)[k].n \in Nat
  <2>1. Log(d)[k] \in Message
    BY <1>0, ElementOfSeq
  <2> QED BY <2>1 DEF Message
<1> SUFFICES ASSUME NEW d \in Conns
             PROVE  /\ \A k \in 1..Len(Log(d)') :
                         Log(d)'[k].from # Server =>
                           /\ Log(d)'[k].from # d
                           /\ roomOf[Log(d)'[k].from] = roomOf[d]
                           /\ pc[Log(d)'[k].from] # "done" =>
                                Log(d)'[k].n <= sent'[Log(d)'[k].from]
                    /\ Ordered(Log(d)')
  BY <1>1 DEF OrderInv, LineFits
<1>5. \A k \in 1..Len(Log(d)) :
        Log(d)[k].from # Server =>
          /\ Log(d)[k].from # d
          /\ roomOf[Log(d)[k].from] = roomOf[d]
          /\ pc[Log(d)[k].from] # "done" =>
               /\ Log(d)[k].n <= sent[Log(d)[k].from]
               /\ Log(d)[k].n <= sent'[Log(d)[k].from]
  BY <1>0, <1>1, <1>4 DEF OrderInv, LineFits
<1>6. Ordered(Log(d))
  BY DEF OrderInv
<1>7. CASE ch'[d] = ch[d]
  <2>1. Log(d)' = Log(d)
    BY <1>1, <1>7 DEF Log
  <2> QED BY <1>5, <1>6, <2>1
<1>8. CASE ch'[d] = Append(ch[d], m) /\ d # c /\ roomOf[d] = roomOf[c]
  <2>1. Log(d)' = Append(Log(d), m)
    BY <1>0, <1>1, <1>2, <1>8, LogAppends DEF Log
  <2>2. /\ Len(Log(d)') = Len(Log(d)) + 1
        /\ Log(d)'[Len(Log(d)) + 1] = m
        /\ \A k \in 1..Len(Log(d)) : Log(d)'[k] = Log(d)[k]
    BY <1>0, <1>2, <2>1, AppendProperties
  <2>3. sent'[c] = sent[c] + 1 /\ pc[c] # "done"
    BY <1>0, <1>1
  <2>4. ASSUME NEW k \in 1..Len(Log(d)), Log(d)[k].from = c
        PROVE  Log(d)[k].n < m.n
    <3>1. Log(d)[k].n <= sent[c]
      BY <1>2, <1>5, <2>3, <2>4
    <3>2. Log(d)[k].n \in Nat /\ sent[c] \in Nat
      BY <1>0, <1>4
    <3> QED BY <1>2, <3>1, <3>2
  <2> DEFINE old == Log(d)  new == Log(d)'
  <2>5. new[Len(old) + 1] = m /\ Len(new) = Len(old) + 1 /\ Len(old) \in Nat
        /\ \A k \in 1..Len(old) : new[k] = old[k]
    BY <1>0, <2>2
  <2>6. \A k \in 1..Len(new) : k \in 1..Len(old) \/ k = Len(old) + 1
    BY <2>5
  <2>7. \A j, k \in 1..Len(new) : j < k => j \in 1..Len(old)
    BY <2>5
  <2> HIDE DEF old, new
  <2>8. Ordered(new)
    <3> SUFFICES ASSUME NEW j \in 1..Len(new), NEW k \in 1..Len(new), j < k,
                        new[j].from = new[k].from, new[j].from # Server
                 PROVE  new[j].n < new[k].n
      BY DEF Ordered
    <3>1. j \in 1..Len(old)
      BY <2>7
    <3>2. CASE k \in 1..Len(old)
      BY <1>6, <2>5, <3>1, <3>2 DEF Ordered, old
    <3>3. CASE k = Len(old) + 1
      BY <1>2, <2>4, <2>5, <3>1, <3>3 DEF old
    <3> QED BY <2>6, <3>2, <3>3
  <2>9. ASSUME NEW k \in 1..Len(new), new[k].from # Server
        PROVE  /\ new[k].from # d
               /\ roomOf[new[k].from] = roomOf[d]
               /\ pc[new[k].from] # "done" => new[k].n <= sent'[new[k].from]
    <3>1. CASE k \in 1..Len(old)
      BY <1>5, <2>5, <2>9, <3>1 DEF old
    <3>2. CASE k = Len(old) + 1
      <4>1. new[k] = m
        BY <2>5, <3>2
      <4>2. sent'[c] \in Nat
        BY <1>0, <2>3
      <4> QED BY <1>2, <1>8, <2>3, <4>1, <4>2
    <3> QED BY <2>6, <3>1, <3>2
  <2> QED BY <2>8, <2>9 DEF new
<1> QED BY <1>3, <1>7, <1>8

\* What a client reads, and what still waits for it, comes from other clients
\* of its own room identifier, the lines of each in the order in which they
\* were sent and none twice, whichever lines full channels and broken
\* connections lose (Forward in room.go, the handlers and writers).
THEOREM LinesStayInOrder == Spec => []RelayedInOrder
<1>1. Init => OrderInv
  <2> SUFFICES ASSUME Init, NEW c \in Conns PROVE Log(c) = <<>>
    BY DEF OrderInv, Ordered
  <2>1. wire[c] = <<>> /\ ch[c] = <<>>
    BY DEF Init, HandlerInit, RoomInit
  <2> QED BY <2>1 DEF Log
<1>2. Init => RoleInv
  BY DEF Init, RoomInit, HandlerInit, RoleInv
<1>3. TypeOK /\ TypeOK' /\ SeatInv /\ RoleInv /\ OrderInv /\ [Next]_vars => OrderInv'
  BY NextIsQuiet, QuietKeepsOrder, RelayKeepsOrder
<1>4. OrderInv => RelayedInOrder
  BY DEF OrderInv, LineFits, Ordered, RelayedInOrder
<1> QED BY <1>1, <1>2, <1>3, <1>4, SeatsHold, RoleStep, PTL DEF Spec

-----------------------------------------------------------------------------
(* The refinement.  Every step is a step of RoomRelay or leaves it alone.  *)

LEMMA StatusMoves ==
  ASSUME TypeOK, NEW c \in Conns, NEW to \in Pcs, pc' = [pc EXCEPT ![c] = to]
  PROVE  Status' = [Status EXCEPT ![c] = StatusAt(to)]
BY DEF Status, TypeOK, HandlerTypeOK, Pcs

\* A handler goes on without a new status, and nothing else happens.
LEMMA ServiceRests ==
  ASSUME TypeOK, UNCHANGED <<slots, sent, ch, wire>>,
         \/ pc' = pc
         \/ \E c \in Conns, to \in Pcs : /\ pc' = [pc EXCEPT ![c] = to]
                                         /\ StatusAt(to) = StatusAt(pc[c])
  PROVE  UNCHANGED Service!vars
<1>1. CASE pc' = pc
  BY <1>1 DEF Service!vars, Status
<1>2. CASE \E c \in Conns, to \in Pcs : /\ pc' = [pc EXCEPT ![c] = to]
                                        /\ StatusAt(to) = StatusAt(pc[c])
  <2>1. PICK c \in Conns, to \in Pcs : /\ pc' = [pc EXCEPT ![c] = to]
                                       /\ StatusAt(to) = StatusAt(pc[c])
    BY <1>2
  <2>2. Status' = [Status EXCEPT ![c] = StatusAt(to)]
    BY <2>1, StatusMoves
  <2>3. Status' = Status
    BY <2>1, <2>2 DEF Status
  <2> QED BY <2>3 DEF Service!vars
<1> QED BY <1>1, <1>2

LEMMA ServiceRefuses ==
  ASSUME TypeOK, NEW c \in Conns, NEW to \in {"release", "done"},
         pc[c] \in Early \cup {"add"}, pc' = [pc EXCEPT ![c] = to],
         UNCHANGED <<slots, sent, ch, wire>>
  PROVE  Service!Refuse(c)
<1>1. Status' = [Status EXCEPT ![c] = StatusAt(to)]
  <2>1. to \in Pcs
    BY DEF Pcs
  <2> QED BY <2>1, StatusMoves
<1>2. Status[c] = "new" /\ StatusAt(to) = "out"
  BY DEF Status, StatusAt, Joined, Early
<1> QED BY <1>1, <1>2 DEF Service!Refuse, Service!Becomes

LEMMA ServiceEnters ==
  ASSUME TypeOK, SeatInv, NEW c \in Conns, JoinAdd(c)
  PROVE  Service!Enter(c)
<1> DEFINE r == room[c]
           k == Min(FreeSlots(r))
<1>1. /\ pc[c] = "add" /\ pc' = [pc EXCEPT ![c] = "role"]
      /\ FreeSlots(r) # {}
      /\ slots' = [slots EXCEPT ![r][k] = c]
      /\ UNCHANGED <<sent, ch, wire>>
  BY DEF JoinAdd, Goto, Add, stream
<1>2. Status' = [Status EXCEPT ![c] = "in"] /\ Status[c] = "new"
  <2>1. Status' = [Status EXCEPT ![c] = StatusAt("role")]
    BY <1>1, StatusMoves DEF Pcs
  <2> QED BY <1>1, <2>1 DEF Status, StatusAt, Joined
<1>3. r \in Conns
  BY <1>1 DEF SeatInv, HasRoom
<1>4. FreeSlots(r) \in SUBSET Slots
  BY DEF FreeSlots
<1>5. k \in FreeSlots(r)
  BY <1>1, <1>4, MinOfSlots
<1>6. k \in {0, 1} /\ slots[r][k] = NoConn
  BY <1>5 DEF FreeSlots, Slots
<1> HIDE DEF r, k
<1> QED BY <1>1, <1>2, <1>3, <1>6 DEF Service!Enter, Service!Becomes

LEMMA ServiceTells ==
  ASSUME TypeOK, SeatInv, RoleInv, NEW c \in Conns, SendRole(c)
  PROVE  Service!TellRole(c)
<1> DEFINE r == room[c]
           i == SlotOf(c)
           m == [from |-> Server, n |-> RoleForSlot(i)]
<1>1. /\ pc[c] = "role" /\ pc' = [pc EXCEPT ![c] = "read"]
      /\ wire' = [wire EXCEPT ![c] = Append(@, m)]
      /\ UNCHANGED <<slots, sent, ch>>
  BY DEF SendRole, Goto, roomVars
<1>2. Status' = Status /\ Status[c] = "in"
  <2>1. Status' = [Status EXCEPT ![c] = StatusAt("read")]
    BY <1>1, StatusMoves DEF Pcs
  <2> QED BY <1>1, <2>1 DEF Status, StatusAt, Joined
<1>3. r \in Conns /\ Occupies(c, r)
  BY <1>1 DEF SeatInv, HasRoom, JoinedSits, Joined
<1>4. i \in Slots /\ slots[r][i] = c
  <2>1. \E j \in Slots : slots[room[c]][j] = c
    BY <1>3 DEF Occupies
  <2> QED BY <2>1 DEF SlotOf
<1>5. wire[c] = <<>>
  BY <1>1 DEF RoleInv, BeforeRole
<1>6. wire' = [wire EXCEPT ![c] = <<m>>]
  <2> HIDE DEF m
  <2>1. Append(<<>>, m) = <<m>>
    OBVIOUS
  <2> QED BY <1>1, <1>5, <2>1
<1>7. m = [from |-> Server, n |-> Service!Role(i)]
  BY DEF RoleForSlot, Service!Role
<1> HIDE DEF r, i, m
<1> QED BY <1>1, <1>2, <1>3, <1>4, <1>5, <1>6, <1>7 DEF Service!TellRole, Slots

\* The other seat is where Forward finds its addressee.
LEMMA ServiceSpeaks ==
  ASSUME TypeOK, SeatInv, NEW c \in Conns, Relay(c)
  PROVE  Service!Speak(c)
<1> DEFINE r == room[c]
           m == [from |-> c, n |-> sent[c] + 1]
           others == {i \in Slots : slots[r][i] \notin {NoConn, c}}
           to == slots[r][Min(others)]
<1>1. /\ pc[c] = "read" /\ pc' = pc
      /\ sent' = [sent EXCEPT ![c] = @ + 1]
      /\ ch' = IF others # {} /\ Len(ch[to]) < ChannelSize
               THEN [ch EXCEPT ![to] = Append(@, m)] ELSE ch
      /\ UNCHANGED <<slots, wire>>
  BY DEF Relay, Forward
<1>2. Status' = Status /\ Status[c] = "in"
  BY <1>1 DEF Status, StatusAt, Joined
<1>3. r \in Conns /\ Occupies(c, r)
  BY <1>1 DEF SeatInv, HasRoom, JoinedSits, Joined
<1>4. PICK o \in Slots : slots[r][o] = c
  BY <1>3 DEF Occupies
<1>5. Service!SitsIn(c, r)
  BY <1>4 DEF Service!SitsIn, Slots
<1>6. /\ slots \in [Conns -> [Slots -> Conns \cup {NoConn}]]
      /\ NoConn \notin Conns
  BY RoomManagerAssumption DEF TypeOK, RoomTypeOK
<1>7. others # {} => Min(others) \in others
  BY MinOfSlots
<1>8. \A i, j \in others : i = j
  BY <1>4 DEF Slots
<1>9. others # {} => to \in Conns \ {c} /\ Service!SitsIn(to, r)
  BY <1>3, <1>6, <1>7 DEF Service!SitsIn, Slots
<1>10. ASSUME NEW d \in Conns \ {c}, Service!SitsIn(d, r)
       PROVE  others # {} /\ d = to
  <2>1. PICK i \in Slots : slots[r][i] = d
    BY <1>10 DEF Service!SitsIn, Slots
  <2>2. i \in others
    BY <1>6, <1>10, <2>1
  <2> QED BY <1>7, <1>8, <2>1, <2>2
<1> HIDE DEF others, to
<1>11. CASE others # {} /\ Len(ch[to]) < ChannelSize
  <2>1. to \in Service!Open(c, r)
    BY <1>9, <1>11 DEF Service!Open
  <2>2. ch' = [ch EXCEPT ![to] = Append(@, m)]
    BY <1>1, <1>11
  <2> HIDE DEF r
  <2> QED BY <1>1, <1>2, <1>3, <1>5, <2>1, <2>2 DEF Service!Speak
<1>12. CASE ~(others # {} /\ Len(ch[to]) < ChannelSize)
  <2>1. Service!Open(c, r) = {}
    BY <1>10, <1>12 DEF Service!Open
  <2>2. ch' = ch
    BY <1>1, <1>12
  <2> HIDE DEF r
  <2> QED BY <1>1, <1>2, <1>3, <1>5, <2>1, <2>2 DEF Service!Speak
<1> QED BY <1>11, <1>12

LEMMA ServiceWrites ==
  ASSUME TypeOK, RoleInv, NEW c \in Conns, WriterWrites(c) \/ WsWriterFails(c)
  PROVE  Service!Deliver(c) \/ Service!Lose(c)
<1>1. /\ writer[c] = "run" /\ ch[c] # <<>>
      /\ ch' = [ch EXCEPT ![c] = Tail(@)]
      /\ UNCHANGED <<pc, slots, sent>>
      /\ \/ wire' = wire
         \/ pc[c] # "done" /\ wire' = [wire EXCEPT ![c] = Append(@, Head(ch[c]))]
  BY DEF WriterWrites, WsWriterFails
<1>2. Status' = Status
  BY <1>1 DEF Status
<1>3. pc[c] # "done" => wire[c] # <<>>
  BY <1>1 DEF RoleInv
<1> QED BY <1>1, <1>2, <1>3 DEF Service!Deliver, Service!Lose

LEMMA ServiceLeaves ==
  ASSUME TypeOK, NEW c \in Conns, NEW next \in {"arm", "release"}, LeaveRemove(c, next)
  PROVE  Service!Leave(c)
<1>1. /\ pc[c] = "remove" /\ pc' = [pc EXCEPT ![c] = next]
      /\ IF found[c] = NoRoom THEN UNCHANGED roomVars ELSE Remove(found[c], c)
      /\ UNCHANGED <<sent, wire>>
  BY DEF LeaveRemove, Goto
<1>2. Status' = [Status EXCEPT ![c] = "out"] /\ Status[c] = "in"
  <2>0. next \in Pcs
    BY DEF Pcs
  <2>1. Status' = [Status EXCEPT ![c] = StatusAt(next)]
    BY <1>1, <2>0, StatusMoves
  <2> QED BY <1>1, <2>1 DEF Status, StatusAt, Joined
<1>3. CASE found[c] = NoRoom
  BY <1>1, <1>2, <1>3 DEF roomVars, Service!Leave, Service!Becomes
<1>4. CASE found[c] # NoRoom
  <2> DEFINE r == found[c]
  <2>1. r \in Conns
    BY <1>4 DEF TypeOK, HandlerTypeOK
  <2>2. /\ slots' = [slots EXCEPT ![r] =
                       [i \in {0, 1} |-> IF @[i] = c THEN NoConn ELSE @[i]]]
        /\ ch' = ch
    BY <1>1, <1>4 DEF Remove, Slots
  <2> HIDE DEF r
  <2> QED BY <1>1, <1>2, <2>1, <2>2 DEF Service!Leave, Service!Becomes
<1> QED BY <1>3, <1>4

LEMMA ServiceCloses ==
  ASSUME TypeOK, NEW c \in Conns, Release(c, ProtocolOf(c))
  PROVE  Service!Close(c)
<1>1. /\ pc[c] = "release" /\ pc' = [pc EXCEPT ![c] = "done"]
      /\ sent' = [sent EXCEPT ![c] = 0]
      /\ wire' = [wire EXCEPT ![c] = <<>>]
      /\ UNCHANGED <<slots, ch>>
  BY DEF Release, Goto, roomVars
<1>2. Status' = [Status EXCEPT ![c] = StatusAt("done")]
  BY <1>1, StatusMoves DEF Pcs
<1>3. Status' = Status /\ Status[c] = "out"
  BY <1>1, <1>2 DEF Status, StatusAt, Joined
<1> QED BY <1>1, <1>3 DEF Service!Close

LEMMA NextServes ==
  ASSUME TypeOK, SeatInv, RoleInv, [Next]_vars
  PROVE  [Service!Next]_(Service!vars)
<1>1. ASSUME NEW c \in Conns, Shared(c)
      PROVE  Service!Next \/ UNCHANGED Service!vars
  <2>1. CASE JoinAdd(c)
    BY <2>1, ServiceEnters DEF Service!Next
  <2>2. CASE SendRole(c)
    BY <2>2, ServiceTells DEF Service!Next
  <2>3. CASE Relay(c)
    BY <2>3, ServiceSpeaks DEF Service!Next
  <2>4. CASE WriterWrites(c)
    BY <2>4, ServiceWrites DEF Service!Next
  <2>5. CASE LeaveRemove(c, "arm") \/ LeaveRemove(c, "release")
    <3>1. Service!Leave(c)
      BY <2>5, ServiceLeaves
    <3> QED BY <3>1 DEF Service!Next
  <2>6. CASE Release(c, ProtocolOf(c))
    BY <2>6, ServiceCloses DEF Service!Next
  <2>7. CASE JoinFull(c) \/ ReadFails(c, "scan", "release")
    <3>1. /\ pc[c] \in Early \cup {"add"} /\ pc' = [pc EXCEPT ![c] = "release"]
          /\ UNCHANGED <<slots, sent, ch, wire>>
      BY <2>7 DEF JoinFull, ReadFails, Goto, stream, roomVars, Early
    <3>2. Service!Refuse(c)
      BY <3>1, ServiceRefuses
    <3> QED BY <3>2 DEF Service!Next
  <2>8. CASE JoinLookup(c)
    <3>1. /\ pc[c] = "lookup" /\ pc' = [pc EXCEPT ![c] = "add"]
          /\ UNCHANGED <<slots, sent, ch, wire>>
      BY <2>8 DEF JoinLookup, Goto, GetOrCreate, stream
    <3>2. StatusAt("add") = StatusAt("lookup") /\ "add" \in Pcs
      BY DEF StatusAt, Pcs
    <3> QED BY <3>1, <3>2, ServiceRests
  <2>9. CASE \/ ReadFails(c, "read", "leave") \/ ReadFails(c, "read", "wait")
             \/ LeaveLookup(c)
    <3>1. /\ UNCHANGED <<slots, sent, ch, wire>>
          /\ pc[c] \in Joined
          /\ \E to \in Joined : pc' = [pc EXCEPT ![c] = to]
      BY <2>9 DEF ReadFails, LeaveLookup, Goto, stream, roomVars, Joined
    <3>2. \A to \in Joined : to \in Pcs /\ StatusAt(to) = "in"
      BY DEF StatusAt, Joined, Pcs
    <3> QED BY <3>1, <3>2, ServiceRests
  <2>10. CASE WriterEnds(c)
    <3>1. pc' = pc /\ UNCHANGED <<slots, sent, ch, wire>>
      BY <2>10 DEF WriterEnds, roomVars
    <3> QED BY <3>1, ServiceRests
  <2> QED BY <1>1, <2>1, <2>2, <2>3, <2>4, <2>5, <2>6, <2>7, <2>8, <2>9, <2>10
          DEF Shared
<1>2. ASSUME NEW c \in Conns, Own(c)
      PROVE  Service!Next \/ UNCHANGED Service!vars
  <2>1. CASE WsWriterFails(c)
    BY <2>1, ServiceWrites DEF Service!Next
  <2>2. CASE TcpReject(c) \/ WsReject(c) \/ WsUpgradeFails(c)
    <3>1. /\ pc[c] \in Early \cup {"add"} /\ pc' = [pc EXCEPT ![c] = "done"]
          /\ UNCHANGED <<slots, sent, ch, wire>>
      BY <2>2 DEF TcpReject, WsReject, WsUpgradeFails, Goto, stream, roomVars, Early
    <3>2. Service!Refuse(c)
      BY <3>1, ServiceRefuses
    <3> QED BY <3>2 DEF Service!Next
  <2>3. CASE TcpAccept(c) \/ TcpFirstLine(c) \/ WsCheck(c) \/ WsUpgrade(c)
    <3>1. /\ UNCHANGED <<slots, sent, ch, wire>>
          /\ pc[c] \in Early
          /\ \E to \in Early : pc' = [pc EXCEPT ![c] = to]
      BY <2>3 DEF TcpAccept, TcpFirstLine, WsCheck, WsUpgrade, Goto, stream,
                  roomVars, Early
    <3>2. \A to \in Early : to \in Pcs /\ StatusAt(to) = "new"
      BY DEF StatusAt, Early, Pcs
    <3> QED BY <3>1, <3>2, ServiceRests
  <2>4. CASE WsRoleFails(c) \/ WsReturns(c)
    <3>1. /\ UNCHANGED <<slots, sent, ch, wire>>
          /\ pc[c] \in Joined
          /\ \E to \in Joined : pc' = [pc EXCEPT ![c] = to]
      BY <2>4 DEF WsRoleFails, WsReturns, Goto, stream, roomVars, Joined
    <3>2. \A to \in Joined : to \in Pcs /\ StatusAt(to) = "in"
      BY DEF StatusAt, Joined, Pcs
    <3> QED BY <3>1, <3>2, ServiceRests
  <2>5. CASE TcpArm(c)
    <3>1. /\ UNCHANGED <<slots, sent, ch, wire>>
          /\ pc[c] = "arm" /\ pc' = [pc EXCEPT ![c] = "release"]
      BY <2>5 DEF TcpArm, Goto, stream, roomVars
    <3>2. StatusAt("arm") = StatusAt("release") /\ "release" \in Pcs
      BY DEF StatusAt, Joined, Pcs
    <3> QED BY <3>1, <3>2, ServiceRests
  <2>6. CASE TcpTimerFires(c) \/ TcpTimerDeletes(c)
    <3>1. pc' = pc /\ UNCHANGED <<slots, sent, ch, wire>>
      BY <2>6 DEF TcpTimerFires, TcpTimerDeletes, DeleteRoom, handlerVars, stream,
                  roomVars
    <3> QED BY <3>1, ServiceRests
  <2> QED BY <1>2, <2>1, <2>2, <2>3, <2>4, <2>5, <2>6 DEF Own, TcpOwn, WsOwn
<1>3. IdleCleanup \/ UNCHANGED vars => UNCHANGED Service!vars
  <2>1. IdleCleanup \/ UNCHANGED vars => pc' = pc /\ UNCHANGED <<slots, sent, ch, wire>>
    BY DEF IdleCleanup, ExpireRoom, DeleteRoom, vars, handlerVars, stream, roomVars
  <2> QED BY <2>1, ServiceRests
<1> QED BY <1>1, <1>2, <1>3, NextSplits DEF Common

\* The two servers, with the room map, its locks, its timers and the cleanup,
\* are to their clients the relay of RoomRelay: each line goes to whoever has
\* the other seat when it is sent, and is dropped only if the seat is free or
\* the channel full.
THEOREM ServerIsRoomRelay == Spec => IsRoomRelay
<1>1. Init => Service!Init
  BY DEF Init, RoomInit, HandlerInit, Service!Init, Status, StatusAt, Slots
<1>2. Init => RoleInv
  BY DEF Init, RoomInit, HandlerInit, RoleInv
<1>3. TypeOK /\ SeatInv /\ RoleInv /\ [Next]_vars => [Service!Next]_(Service!vars)
  BY NextServes
<1> QED BY <1>1, <1>2, <1>3, SeatsHold, RoleStep, PTL
        DEF Spec, IsRoomRelay, Service!Spec

-----------------------------------------------------------------------------
(* Counters.  A step leaves the handlers that are counted as they are, or  *)
(* counts one more, or one less.                                           *)

Enters(c) ==
  /\ pc[c] \notin Counted /\ pc'[c] \in Counted
  /\ \A d \in Conns : d # c => pc'[d] = pc[d]
  /\ connCount' = [connCount EXCEPT ![ProtocolOf(c)] = @ + 1]
  /\ ProtocolOf(c) = "tcp" => ~AtLimit("tcp")

Exits(c) ==
  /\ pc[c] \in Counted /\ pc'[c] \notin Counted
  /\ \A d \in Conns : d # c => pc'[d] = pc[d]
  /\ connCount' = [connCount EXCEPT ![ProtocolOf(c)] = @ - 1]

Stays ==
  /\ connCount' = connCount
  /\ \A d \in Conns : pc'[d] \in Counted <=> pc[d] \in Counted

LEMMA NextCounts ==
  ASSUME TypeOK, [Next]_vars
  PROVE  Stays \/ \E c \in Conns : Enters(c) \/ Exits(c)
<1>0. pc \in [Conns -> Pcs] /\ connCount \in [Protocols -> Int]
  BY DEF TypeOK, HandlerTypeOK, Pcs
<1> USE <1>0 DEF Counted, Joined
<1>1. ASSUME NEW c \in Conns, Shared(c)
      PROVE  Stays \/ Exits(c)
  <2>1. CASE Release(c, ProtocolOf(c))
    <3>1. pc[c] = "release" /\ pc' = [pc EXCEPT ![c] = "done"]
          /\ connCount' = [connCount EXCEPT ![ProtocolOf(c)] = @ + (-1)]
      BY <2>1 DEF Release, Goto, CountConn
    <3>2. connCount' = [connCount EXCEPT ![ProtocolOf(c)] = @ - 1]
      BY <3>1, ProtocolsApart
    <3> QED BY <3>1, <3>2 DEF Exits
  <2>2. CASE ~Release(c, ProtocolOf(c))
    <3>1. connCount' = connCount
      BY <1>1, <2>2
         DEF Shared, JoinLookup, JoinAdd, JoinFull, SendRole, Relay, ReadFails,
             LeaveLookup, LeaveRemove, WriterWrites, WriterEnds
    <3>2. \/ pc' = pc
          \/ \E to \in Counted : pc[c] \in Counted /\ pc' = [pc EXCEPT ![c] = to]
      BY <1>1, <2>2
         DEF Shared, Goto, JoinLookup, JoinAdd, JoinFull, SendRole, Relay,
             ReadFails, LeaveLookup, LeaveRemove, WriterWrites, WriterEnds
    <3> QED BY <3>1, <3>2 DEF Stays
  <2> QED BY <2>1, <2>2
<1>2. ASSUME NEW c \in Conns, Own(c)
      PROVE  Stays \/ Enters(c)
  <2>1. CASE c \in TcpConns /\ TcpAccept(c)
    BY <2>1, ProtocolsApart DEF TcpAccept, Goto, CountConn, Enters
  <2>2. CASE c \in WsConns /\ WsUpgrade(c)
    BY <2>2, ProtocolsApart DEF WsUpgrade, Goto, CountConn, Enters
  <2>3. CASE ~(c \in TcpConns /\ TcpAccept(c)) /\ ~(c \in WsConns /\ WsUpgrade(c))
    <3>1. connCount' = connCount
      BY <1>2, <2>3
         DEF Own, TcpOwn, WsOwn, TcpReject, TcpFirstLine, TcpArm, TcpTimerFires,
             TcpTimerDeletes, WsCheck, WsReject, WsUpgradeFails, WsRoleFails,
             WsReturns, WsWriterFails, handlerVars
    <3>2. \/ pc' = pc
          \/ \E to \in Counted : pc[c] \in Counted /\ pc' = [pc EXCEPT ![c] = to]
          \/ \E to \in Pcs \ Counted :
               pc[c] \notin Counted /\ pc' = [pc EXCEPT ![c] = to]
      BY <1>2, <2>3
         DEF Own, TcpOwn, WsOwn, TcpReject, TcpFirstLine, TcpArm, TcpTimerFires,
             TcpTimerDeletes, WsCheck, WsReject, WsUpgradeFails, WsRoleFails,
             WsReturns, WsWriterFails, handlerVars, Goto, Pcs
    <3> QED BY <3>1, <3>2 DEF Stays
  <2> QED BY <2>1, <2>2, <2>3
<1>3. IdleCleanup \/ UNCHANGED vars => Stays
  BY DEF IdleCleanup, vars, handlerVars, Stays
<1> QED BY <1>1, <1>2, <1>3, NextSplits DEF Common

CountInv ==
  /\ CountsExact
  /\ TcpLimitKept

\* A counter follows the set it counts.
LEMMA CountFollows ==
  ASSUME TypeOK, CountInv, NEW S, NEW p,
         \/ p = "tcp" /\ S = TcpConns
         \/ p = "ws" /\ S = WsConns,
         Stays \/ \E c \in Conns : Enters(c) \/ Exits(c)
  PROVE  connCount'[p] = Cardinality({c \in S : pc'[c] \in Counted})
<1> DEFINE now == {c \in S : pc[c] \in Counted}
           then == {c \in S : pc'[c] \in Counted}
<1>0. /\ S \subseteq Conns
      /\ \A c \in Conns : c \in S <=> ProtocolOf(c) = p
      /\ connCount \in [Protocols -> Int] /\ p \in Protocols
  BY SignalingAssumption, ProtocolsApart
     DEF TypeOK, HandlerTypeOK, Protocols
<1>1. connCount[p] = Cardinality(now)
  BY DEF CountInv, CountsExact
<1>2. IsFiniteSet(now)
  BY <1>0, FS_Subset, RoomManagerAssumption
<1>3. CASE Stays
  <2>1. then = now
    BY <1>0, <1>3 DEF Stays
  <2> QED BY <1>1, <1>3, <2>1 DEF Stays
<1>4. ASSUME NEW c \in Conns, Enters(c) \/ Exits(c), ProtocolOf(c) # p
      PROVE  connCount'[p] = Cardinality(then)
  <2>1. then = now
    BY <1>0, <1>4 DEF Enters, Exits
  <2>2. connCount'[p] = connCount[p]
    BY <1>0, <1>4 DEF Enters, Exits
  <2> QED BY <1>1, <2>1, <2>2
<1>5. ASSUME NEW c \in Conns, Enters(c), ProtocolOf(c) = p
      PROVE  connCount'[p] = Cardinality(then)
  <2>1. then = now \cup {c} /\ c \notin now
    BY <1>0, <1>5 DEF Enters
  <2>2. connCount'[p] = connCount[p] + 1
    BY <1>0, <1>5 DEF Enters
  <2>3. Cardinality(now \cup {c}) = Cardinality(now) + 1
    BY <1>2, <2>1, FS_AddElement
  <2> QED BY <1>1, <2>1, <2>2, <2>3
<1>6. ASSUME NEW c \in Conns, Exits(c), ProtocolOf(c) = p
      PROVE  connCount'[p] = Cardinality(then)
  <2>1. then = now \ {c} /\ c \in now
    BY <1>0, <1>6 DEF Exits
  <2>2. connCount'[p] = connCount[p] - 1
    BY <1>0, <1>6 DEF Exits
  <2>3. Cardinality(now \ {c}) = Cardinality(now) - 1
    BY <1>2, <2>1, FS_RemoveElement
  <2> QED BY <1>1, <2>1, <2>2, <2>3
<1> QED BY <1>3, <1>4, <1>5, <1>6

LEMMA CountInvStep == TypeOK /\ CountInv /\ [Next]_vars => CountInv'
<1> SUFFICES ASSUME TypeOK, CountInv, [Next]_vars PROVE CountInv'
  OBVIOUS
<1>1. Stays \/ \E c \in Conns : Enters(c) \/ Exits(c)
  BY NextCounts
<1>2. CountsExact'
  <2>1. connCount'["tcp"] = Cardinality({c \in TcpConns : pc'[c] \in Counted})
    BY <1>1, CountFollows
  <2>2. connCount'["ws"] = Cardinality({c \in WsConns : pc'[c] \in Counted})
    BY <1>1, CountFollows
  <2> QED BY <2>1, <2>2 DEF CountsExact
<1>3. TcpLimitKept'
  <2>0. MaxConns \in Nat /\ connCount \in [Protocols -> Int] /\ "tcp" \in Protocols
    BY PeerHandlerAssumption DEF TypeOK, HandlerTypeOK, Protocols
  <2>1. connCount["tcp"] = Cardinality({c \in TcpConns : pc[c] \in Counted})
    BY DEF CountInv, CountsExact
  <2>2. MaxConns > 0 => connCount["tcp"] <= MaxConns
    BY <2>1 DEF CountInv, TcpLimitKept
  <2>3. \/ connCount'["tcp"] <= connCount["tcp"]
        \/ ~AtLimit("tcp") /\ connCount'["tcp"] = connCount["tcp"] + 1
    BY <1>1, <2>0, ProtocolsApart DEF Stays, Enters, Exits, Protocols
  <2>4. connCount'["tcp"] \in Int
    BY <1>1, <2>0, ProtocolsApart DEF Stays, Enters, Exits, Protocols
  <2>5. MaxConns > 0 => connCount'["tcp"] <= MaxConns
    BY <2>0, <2>2, <2>3, <2>4 DEF AtLimit
  <2> QED BY <1>2, <2>5 DEF CountsExact, TcpLimitKept
<1> QED BY <1>2, <1>3 DEF CountInv

LEMMA CountsHold == Spec => [](TypeOK /\ CountInv)
<1>1. Init => CountInv
  <2> SUFFICES ASSUME Init PROVE CountInv
    OBVIOUS
  <2>1. {c \in TcpConns : pc[c] \in Counted} = {}
        /\ {c \in WsConns : pc[c] \in Counted} = {}
    BY SignalingAssumption DEF Init, HandlerInit, Counted, Joined
  <2>2. connCount["tcp"] = 0 /\ connCount["ws"] = 0
    BY DEF Init, HandlerInit, Protocols
  <2>3. MaxConns \in Nat
    BY PeerHandlerAssumption
  <2> QED BY <2>1, <2>2, <2>3, FS_EmptySet DEF CountInv, CountsExact, TcpLimitKept
<1> QED BY <1>1, CountInvStep, SeatsHold, PTL DEF Spec

\* The counters count exactly the handlers at work, on every path through
\* their early returns and deferred calls.
THEOREM CountersAreExact == Spec => []CountsExact
<1>1. CountInv => CountsExact
  BY DEF CountInv
<1> QED BY <1>1, CountsHold, PTL

\* The accept loop alone adds to the counter of the TCP server, so that its
\* check holds when it does: the limit is never exceeded.
THEOREM TcpLimitHolds == Spec => []TcpLimitKept
<1>1. CountInv => TcpLimitKept
  BY DEF CountInv
<1> QED BY <1>1, CountsHold, PTL
=============================================================================
