---------------------------- MODULE RoomManager ----------------------------
(***************************************************************************)
(* Rooms of the signalling server                                          *)
(* (signaling/internal/room/room.go): a map from room identifiers to room  *)
(* objects, each with two slots, and a buffered channel per peer.  Every   *)
(* operation below is one critical section of the code: of m.mu for the    *)
(* map, of r.mu for a room.  AddPeer and RemovePeer take first one lock    *)
(* and then the other, so they are two operations each, and the modules    *)
(* that call them say what happens in between.                             *)
(*                                                                         *)
(* A peer is known by its connection (connID, the remote address, which    *)
(* two open connections do not share).  A room object is known by the      *)
(* connection whose handler created it: a handler creates at most one.     *)
(***************************************************************************)
EXTENDS Integers, Sequences, FiniteSets, FiniteSetsExt

CONSTANTS
  Conns,        \* connections to the server
  RoomIds,      \* room identifiers
  NoConn,       \* nil in Peers
  NoRoom,       \* no entry in the map; no room object
  ChannelSize,  \* capacity of a peer's channel
  NoTimeout     \* IdleTimeout <= 0

ASSUME RoomManagerAssumption ==
  /\ IsFiniteSet(Conns)
  /\ NoConn \notin Conns
  /\ NoRoom \notin Conns
  /\ ChannelSize \in Nat \ {0}
  /\ NoTimeout \in BOOLEAN

VARIABLES
  rooms,   \* Manager.rooms: the room object under each identifier
  slots,   \* Room.Peers of each room object
  ch,      \* the messages in each peer's channel
  closed   \* the peers whose channel was closed

roomVars == <<rooms, slots, ch, closed>>

Slots == {0, 1}

RoomInit ==
  /\ rooms = [id \in RoomIds |-> NoRoom]
  /\ slots = [r \in Conns |-> [i \in Slots |-> NoConn]]
  /\ ch = [c \in Conns |-> <<>>]
  /\ closed = {}

\* The role of the peer in slot i, as a number: slot 0 is "peer2" (the
\* answerer), slot 1 is "peer1" (the offerer).
RoleForSlot(i) == IF i = 0 THEN 2 ELSE 1

Empty(r) == \A i \in Slots : slots[r][i] = NoConn

FreeSlots(r) == {i \in Slots : slots[r][i] = NoConn}

Occupies(c, r) == \E i \in Slots : slots[r][i] = c

\* What ShouldExpire may answer: TRUE for an empty room without a timeout;
\* with a timeout it depends on the time since LastActive.
ShouldExpire(r) ==
  IF ~Empty(r) THEN {FALSE} ELSE IF NoTimeout THEN {TRUE} ELSE BOOLEAN

\* GetOrCreate, called by the handler of c: the object it returns ...
RoomFor(id, c) == IF rooms[id] = NoRoom THEN c ELSE rooms[id]

\* ... and what it does to the map.
GetOrCreate(id, c) ==
  /\ rooms' = [rooms EXCEPT ![id] = RoomFor(id, c)]
  /\ UNCHANGED <<slots, ch, closed>>

\* Add in a room that has a free slot: the lower one is taken.
Add(r, c) ==
  /\ slots' = [slots EXCEPT ![r][Min(FreeSlots(r))] = c]
  /\ UNCHANGED <<rooms, ch, closed>>

\* Mutant: the channel is closed but the slot is not freed.
RemoveKeepsSlot(r, c) ==
  /\ closed' = IF Occupies(c, r) THEN closed \cup {c} ELSE closed
  /\ UNCHANGED <<rooms, slots, ch>>

\* Remove: the peer's channel is closed and its slot freed, if it is there.
Remove(r, c) ==
  /\ slots' = [slots EXCEPT ![r] =
                 [i \in Slots |-> IF @[i] = c THEN NoConn ELSE @[i]]]
  /\ closed' = IF Occupies(c, r) THEN closed \cup {c} ELSE closed
  /\ UNCHANGED <<rooms, ch>>

\* Mutant: the message is appended whether the channel has room or not.
ForwardUnbounded(r, c, m) ==
  LET others == {i \in Slots : slots[r][i] \notin {NoConn, c}}
  IN  /\ ch' = IF others # {}
               THEN [ch EXCEPT ![slots[r][Min(others)]] = Append(@, m)]
               ELSE ch
      /\ UNCHANGED <<rooms, slots, closed>>

\* Mutant: the first peer of the room gets the message, be it the sender.
ForwardToFirst(r, c, m) ==
  LET peers == {i \in Slots : slots[r][i] # NoConn}
      to == slots[r][Min(peers)]
  IN  /\ ch' = IF peers # {} /\ Len(ch[to]) < ChannelSize
               THEN [ch EXCEPT ![to] = Append(@, m)]
               ELSE ch
      /\ UNCHANGED <<rooms, slots, closed>>

\* Mutant: a full channel gives up its oldest message.
ForwardDisplaces(r, c, m) ==
  LET others == {i \in Slots : slots[r][i] \notin {NoConn, c}}
      to == slots[r][Min(others)]
      kept == IF Len(ch[to]) < ChannelSize THEN ch[to] ELSE Tail(ch[to])
  IN  /\ ch' = IF others # {} THEN [ch EXCEPT ![to] = Append(kept, m)] ELSE ch
      /\ UNCHANGED <<rooms, slots, closed>>

\* Forward: the message goes to the other peer of the room, and is dropped
\* if there is none or its channel is full.
Forward(r, c, m) ==
  LET others == {i \in Slots : slots[r][i] \notin {NoConn, c}}
      to == slots[r][Min(others)]
  IN  /\ ch' = IF others # {} /\ Len(ch[to]) < ChannelSize
               THEN [ch EXCEPT ![to] = Append(@, m)]
               ELSE ch
      /\ UNCHANGED <<rooms, slots, closed>>

DeleteRoom(id) ==
  /\ rooms' = [rooms EXCEPT ![id] = NoRoom]
  /\ UNCHANGED <<slots, ch, closed>>

\* RunIdleCleanup, for one room of its pass.  m.mu is held from the check to
\* the deletion, so that a handler that joins the room in between (it had
\* the object already) might as well join after the deletion.
ExpireRoom(id) ==
  /\ rooms[id] # NoRoom
  /\ TRUE \in ShouldExpire(rooms[id])
  /\ DeleteRoom(id)

RoomTypeOK(Message) ==
  /\ rooms \in [RoomIds -> Conns \cup {NoRoom}]
  /\ slots \in [Conns -> [Slots -> Conns \cup {NoConn}]]
  /\ ch \in [Conns -> Seq(Message)]
  /\ \A c \in Conns : Len(ch[c]) <= ChannelSize
  /\ closed \subseteq Conns
=============================================================================
