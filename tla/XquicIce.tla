------------------------------ MODULE XquicIce ------------------------------
(***************************************************************************)
(* The ICE/QUIC adapter (src/src/common/xquic_ice.c) and the select loop   *)
(* of p2p_run_peer that drives it (src/src/common/run.c), from the moment  *)
(* the context has its engine until the loop breaks.  Two threads share    *)
(* the context: libjuice's thread runs on_recv, the main thread runs the   *)
(* loop.  The packet list is only touched under queue_mutex, so a critical *)
(* section is one step; the byte written to the wakeup pipe afterwards is  *)
(* a step of its own, and so is every read() of xquic_ice_clear_wakeup.    *)
(*                                                                         *)
(* A packet is its number in the order of arrival.  The pipe is a count of *)
(* bytes, a chunk of signalling input a unit of sigs.                      *)
(***************************************************************************)
EXTENDS Naturals, Sequences, SequencesExt

CONSTANTS
  QueueMax,         \* queue_max (XQUIC_ICE_QUEUE_MAX)
  PipeCap,          \* the bytes the wakeup pipe holds
  ReadMax,          \* sizeof(buf) in xquic_ice_clear_wakeup
  NonBlockingRead,  \* the mode in which the caller opened the read end
  MaxPackets,       \* bound: packets that arrive
  MaxSignals        \* bound: chunks of signalling input waiting at once

ASSUME XquicIceAssumption ==
  /\ QueueMax \in Nat \ {0}
  /\ PipeCap \in Nat \ {0}
  /\ ReadMax \in Nat \ {0}
  /\ NonBlockingRead \in BOOLEAN
  /\ MaxPackets \in Nat
  /\ MaxSignals \in Nat

VARIABLES
  mutex,    \* queue_mutex was allocated
  queue,    \* the list: packets from queue_head on, queue_tail, queue_len
  pipe,     \* unread bytes in the wakeup pipe
  jpc,      \* libjuice's thread: "idle", or "wake" before its write()
  mpc,      \* the main thread: where it is in the loop
  ready,    \* the descriptors select() reported; {} is nready == 0
  fed,      \* n > 0 in xquic_ice_drain_and_feed
  due,      \* the engine's timer (next_wakeup_us) has expired, unserved
  sigs,     \* chunks of signalling input not yet received
  eof,      \* the signalling server closed the connection
  arrived,  \* number of packets handed to on_recv
  taken     \* history: the packets taken off the list by the main thread

adapter == <<mutex, queue, pipe>>
loop == <<mpc, ready, fed>>
outside == <<due, sigs, eof>>
history == <<arrived, taken>>
vars == <<adapter, jpc, loop, outside, history>>

NoPacket == 0
Packets == 1..MaxPackets
EmptyList == [items |-> <<>>, tail |-> NoPacket, len |-> 0]

Init ==
  /\ mutex \in BOOLEAN
  /\ queue = EmptyList
  /\ pipe = 0
  /\ jpc = "idle"
  /\ mpc = "select"
  /\ ready = {}
  /\ fed = FALSE
  /\ due = FALSE
  /\ sigs = 0
  /\ eof = FALSE
  /\ arrived = 0
  /\ taken = <<>>

-----------------------------------------------------------------------------
(* The list.  A list whose tail pointer is not its last packet would lose  *)
(* what is linked behind it, which is why queue_tail is reset when the     *)
(* list becomes empty.  The definitions marked as mutants are not part of  *)
(* the specification: each is the definition after it with a bug.          *)

\* Mutant: queue_len is decremented twice.
UnlinkCountsTwice(l) ==
  [items |-> Tail(l.items),
   tail  |-> IF Len(l.items) = 1 THEN NoPacket ELSE l.tail,
   len   |-> l.len - 2]

\* Mutant: queue_tail is not reset when the list becomes empty.
UnlinkKeepsTail(l) ==
  [items |-> Tail(l.items), tail |-> l.tail, len |-> l.len - 1]

\* Take the packet at queue_head off the list.
Unlink(l) ==
  [items |-> Tail(l.items),
   tail  |-> IF Len(l.items) = 1 THEN NoPacket ELSE l.tail,
   len   |-> l.len - 1]

\* Mutant: the packet becomes queue_head.
LinkInFront(l, p) ==
  [items |-> <<p>> \o l.items, tail |-> p, len |-> l.len + 1]

\* Put packet p behind queue_tail, or at queue_head if there is no tail.
Link(l, p) ==
  [items |-> IF l.tail = NoPacket THEN <<p>>
             ELSE IF l.items # <<>> /\ l.tail = Last(l.items)
                  THEN Append(l.items, p)
                  ELSE l.items,
   tail  |-> p,
   len   |-> l.len + 1]

\* Mutant: a full list is emptied instead of giving up one packet.
DropAll(l) == IF l.len >= QueueMax THEN EmptyList ELSE l

\* The loop that makes room.  queue_len never exceeds queue_max
\* (QueueConsistent), so its body runs at most once.
DropOldest(l) ==
  IF l.len >= QueueMax /\ l.items # <<>> THEN Unlink(l) ELSE l

\* The critical section of xquic_ice_on_recv.
Enqueue(l, p) ==
  LET room == DropOldest(l)
  IN  IF room.len >= QueueMax THEN room ELSE Link(room, p)

-----------------------------------------------------------------------------
(* libjuice's thread.                                                      *)

\* A packet is dropped before it reaches the list: empty, longer than
\* XQUIC_ICE_PACKET_MAX, no memory for its copy, or no mutex.
OnRecvReject ==
  /\ jpc = "idle"
  /\ arrived < MaxPackets
  /\ arrived' = arrived + 1
  /\ UNCHANGED <<adapter, jpc, loop, outside, taken>>

OnRecvEnqueue ==
  /\ jpc = "idle"
  /\ mutex
  /\ arrived < MaxPackets
  /\ arrived' = arrived + 1
  /\ queue' = Enqueue(queue, arrived')
  /\ jpc' = IF DropOldest(queue).len >= QueueMax THEN "idle" ELSE "wake"
  /\ UNCHANGED <<mutex, pipe, loop, outside, taken>>

\* The write end is left blocking: write() waits while the pipe is full.
OnRecvWake ==
  /\ jpc = "wake"
  /\ pipe < PipeCap
  /\ pipe' = pipe + 1
  /\ jpc' = "idle"
  /\ UNCHANGED <<mutex, queue, loop, outside, history>>

-----------------------------------------------------------------------------
(* The environment: signalling input, the end of it, and time.             *)

SignalArrives ==
  /\ ~eof
  /\ sigs < MaxSignals
  /\ sigs' = sigs + 1
  /\ UNCHANGED <<adapter, jpc, loop, due, eof, history>>

ServerCloses ==
  /\ ~eof
  /\ eof' = TRUE
  /\ UNCHANGED <<adapter, jpc, loop, due, sigs, history>>

TimerExpires ==
  /\ ~due
  /\ due' = TRUE
  /\ UNCHANGED <<adapter, jpc, loop, sigs, eof, history>>

-----------------------------------------------------------------------------
(* The main thread.                                                        *)

ReadyFds ==
  (IF pipe > 0 THEN {"wakeup"} ELSE {}) \cup
  (IF sigs > 0 \/ eof THEN {"signal"} ELSE {})

\* Where the loop goes once the adapter has been served.
AfterAdapter(fds) == IF "signal" \in fds THEN "signal" ELSE "select"

\* Mutant: the signalling socket goes first, and the adapter has its turn
\* only when there is no input.
SignalFirst(fds) == IF "signal" \in fds THEN "signal" ELSE "clear"

\* Where the loop goes after select().
AfterSelect(fds) ==
  IF fds = {} \/ "wakeup" \in fds THEN "clear" ELSE AfterAdapter(fds)

\* select() returns; with nothing readable it returns 0 at the timeout, when
\* the engine's timer expires, or after a second if it has none.
Select ==
  /\ mpc = "select"
  /\ ready' = ReadyFds
  /\ mpc' = AfterSelect(ready')
  /\ UNCHANGED <<adapter, jpc, fed, outside, history>>

\* select() fails: perror and break.
SelectFails ==
  /\ mpc = "select"
  /\ mpc' = "stopped"
  /\ UNCHANGED <<adapter, jpc, ready, fed, outside, history>>

\* One read() of xquic_ice_clear_wakeup that returns bytes: read again.
ReadWakeup ==
  /\ mpc = "clear"
  /\ pipe > 0
  /\ pipe' = IF pipe > ReadMax THEN pipe - ReadMax ELSE 0
  /\ UNCHANGED <<mutex, queue, jpc, loop, outside, history>>

\* The read() that finds the pipe empty returns only on a descriptor in
\* non-blocking mode; otherwise the thread sleeps in it.
ReadReturns ==
  /\ mpc = "clear"
  /\ pipe = 0
  /\ NonBlockingRead
  /\ mpc' = "drain"
  /\ fed' = FALSE
  /\ UNCHANGED <<adapter, jpc, ready, outside, history>>

\* One round of xquic_ice_drain_and_feed: take a packet off the list, give
\* it to xqc_engine_packet_process, and count it if that returned XQC_OK.
Feed(ok) ==
  /\ mpc = "drain"
  /\ mutex
  /\ queue.items # <<>>
  /\ taken' = Append(taken, Head(queue.items))
  /\ queue' = Unlink(queue)
  /\ fed' = (fed \/ ok)
  /\ UNCHANGED <<mutex, pipe, jpc, mpc, ready, outside, arrived>>

\* Mutant: one good packet per call is enough.
DrainedAfterOne == fed \/ ~mutex \/ queue.items = <<>>

\* What ends the loop of xquic_ice_drain_and_feed.
Drained == ~mutex \/ queue.items = <<>>

\* Mutant: the main logic does not run after a timeout.
MainLogicIfFed == fed

\* The engine's main logic runs: after packets that were fed, and after a
\* timeout of select().  Only it serves the engine's timers.
MainLogicRuns == fed \/ ready = {}

\* The drain is over; main logic and post_main_logic follow.
DrainDone ==
  /\ mpc = "drain"
  /\ Drained
  /\ due' = (due /\ ~MainLogicRuns)
  /\ mpc' = AfterAdapter(ready)
  /\ UNCHANGED <<adapter, jpc, ready, fed, sigs, eof, history>>

RecvSignal ==
  /\ mpc = "signal"
  /\ sigs > 0
  /\ sigs' = sigs - 1
  /\ mpc' = "select"
  /\ UNCHANGED <<adapter, jpc, ready, fed, due, eof, history>>

\* recv() returns 0, or fails: break.
RecvEof ==
  /\ mpc = "signal"
  /\ sigs = 0
  /\ mpc' = "stopped"
  /\ UNCHANGED <<adapter, jpc, ready, fed, outside, history>>

JuiceThread == OnRecvReject \/ OnRecvEnqueue \/ OnRecvWake

Environment == SignalArrives \/ ServerCloses \/ TimerExpires

MainThread ==
  \/ Select
  \/ SelectFails
  \/ ReadWakeup
  \/ ReadReturns
  \/ \E ok \in BOOLEAN : Feed(ok)
  \/ DrainDone
  \/ RecvSignal
  \/ RecvEof

Next == JuiceThread \/ Environment \/ MainThread

Spec == Init /\ [][Next]_vars

\* Both threads are scheduled.  Nothing obliges a packet, a signal or a
\* timer to come.
FairSpec == Spec /\ WF_vars(MainThread) /\ WF_vars(OnRecvWake)

-----------------------------------------------------------------------------
TypeOK ==
  /\ mutex \in BOOLEAN
  /\ queue \in [items : Seq(Packets), tail : Packets \cup {NoPacket},
                len : Nat]
  /\ pipe \in 0..PipeCap
  /\ jpc \in {"idle", "wake"}
  /\ mpc \in {"select", "clear", "drain", "signal", "stopped"}
  /\ ready \subseteq {"wakeup", "signal"}
  /\ fed \in BOOLEAN
  /\ due \in BOOLEAN
  /\ sigs \in 0..MaxSignals
  /\ eof \in BOOLEAN
  /\ arrived \in 0..MaxPackets
  /\ taken \in Seq(Packets)

\* queue_len counts the packets reachable from queue_head, queue_tail is the
\* last of them (and NULL when there is none), and the list never holds more
\* than queue_max: what the append of the next packet relies on.  Without the
\* mutex the list stays empty, and the drain that gives up at once misses
\* nothing.
QueueConsistent ==
  /\ queue.len = Len(queue.items)
  /\ queue.len <= QueueMax
  /\ queue.tail = IF queue.items = <<>> THEN NoPacket ELSE Last(queue.items)
  /\ mutex \/ queue.items = <<>>

\* The engine sees packets in the order of their arrival and none twice,
\* whatever was rejected or displaced, across the two threads' interleavings.
InOrder ==
  LET seen == taken \o queue.items
  IN  \A i, j \in 1..Len(seen) : i < j => seen[i] < seen[j]

\* No lost wakeup: the main thread never goes to sleep in select() with a
\* packet on the list unless a byte is in the pipe or about to be written.
\* Clearing the pipe before draining the list, in that order, is what
\* guarantees it.
NoLostWakeup ==
  mpc \in {"select", "signal"} /\ queue.items # <<>>
    => pipe > 0 \/ jpc = "wake"

\* The path is a bounded FIFO channel that gives up its oldest packet when
\* full: on_recv and drain_and_feed implement PacketChannel.
Channel == INSTANCE PacketChannel WITH
             Capacity <- QueueMax, offered <- arrived,
             chan <- queue.items, delivered <- taken
IsPacketChannel == Channel!Spec

\* Every packet that reaches the list leaves it (fed to the engine or
\* displaced), unless the loop stops, even if signalling input never ends.
PacketServed ==
  \A p \in Packets :
    p \in Range(queue.items) ~> (p \notin Range(queue.items) \/ mpc = "stopped")

\* A timer of the engine that expires is served, once signalling input and
\* packets have both gone quiet: a loop woken by the signalling socket alone
\* runs no engine logic, and packets none of which can be decoded keep
\* select() from timing out without making fed true (run.c:235-245).
TimerServed ==
  <>[](sigs = 0 /\ queue.items = <<>>) => (due ~> (~due \/ mpc = "stopped"))

\* libjuice's thread always comes back from its write() to the wakeup pipe,
\* however full the pipe was and however long signalling input goes on,
\* unless the loop stops: the main thread reads the pipe in every turn in
\* which it is readable.
WriteReturns == jpc = "wake" ~> (jpc = "idle" \/ mpc = "stopped")
=============================================================================
