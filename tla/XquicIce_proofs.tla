-------------------------- MODULE XquicIce_proofs --------------------------
(***************************************************************************)
(* Proofs about XquicIce, for every queue length, pipe size, read size,    *)
(* mode of the pipe and number of packets.                                 *)
(*                                                                         *)
(* The type of the list and its consistency depend on each other (a list   *)
(* whose length is wrong underflows queue_len, a wrong tail loses packets),*)
(* so they are proved as one invariant.  What the operators of the list do *)
(* to a consistent list is stated first, in lemmas of their own; the order *)
(* of packets, the refinement and the absence of lost wakeups rest on them.*)
(***************************************************************************)
EXTENDS XquicIce, SequenceTheorems, TLAPS

USE DEF NoPacket

\* A list as QueueConsistent wants it, without the bound.
List == [items : Seq(Packets), tail : Packets \cup {NoPacket}, len : Nat]

WellFormed(l) ==
  /\ l \in List
  /\ l.len = Len(l.items)
  /\ l.tail = IF l.items = <<>> THEN NoPacket ELSE Last(l.items)

-----------------------------------------------------------------------------
\* What the provers need to know of the empty sequence and of Last.
LEMMA SeqFacts ==
  ASSUME NEW S, NEW t \in Seq(S)
  PROVE  /\ Len(t) \in Nat
         /\ t = <<>> <=> Len(t) = 0
         /\ Last(t) = t[Len(t)]
         /\ t # <<>> => t[Len(t)] \in S
  BY EmptySeq, LenProperties DEF Last

\* The last element of a sequence stays the last when the head is taken off.
LEMMA TailFacts ==
  ASSUME NEW S, NEW s \in Seq(S), s # <<>>
  PROVE  /\ Tail(s) \in Seq(S)
         /\ Len(Tail(s)) = Len(s) - 1
         /\ Tail(s) = <<>> <=> Len(s) = 1
         /\ Len(s) # 1 => Last(Tail(s)) = Last(s)
  <1>1. /\ Tail(s) \in Seq(S)
        /\ Len(Tail(s)) = Len(s) - 1
        /\ \A i \in 1..Len(Tail(s)) : Tail(s)[i] = s[i + 1]
    BY HeadTailProperties
  <1>2. Len(s) \in Nat /\ Len(s) # 0
    BY SeqFacts
  <1>3. /\ Tail(s) = <<>> <=> Len(Tail(s)) = 0
        /\ Last(Tail(s)) = Tail(s)[Len(Tail(s))]
        /\ Last(s) = s[Len(s)]
    BY <1>1, SeqFacts, Zenon
  <1>4. Len(s) # 1 => Tail(s)[Len(s) - 1] = s[Len(s)]
    <2> SUFFICES ASSUME NEW n \in Nat, n = Len(s), n # 0, n # 1
                 PROVE  Tail(s)[n - 1] = s[n]
      BY <1>2
    <2>1. n - 1 \in 1..(n - 1) /\ (n - 1) + 1 = n
      OBVIOUS
    <2> QED
      BY <1>1, <2>1
  <1> QED
    BY <1>1, <1>2, <1>3, <1>4

\* Taking the head off a consistent list leaves a consistent list.
LEMMA UnlinkWellFormed ==
  ASSUME NEW l, WellFormed(l), l.items # <<>>
  PROVE  /\ WellFormed(Unlink(l))
         /\ Unlink(l).items = Tail(l.items)
         /\ Unlink(l).len = l.len - 1
  <1> DEFINE s == l.items
             u == Unlink(l)
  <1>1. /\ s \in Seq(Packets)
        /\ l.tail = s[Len(s)]
        /\ l.len = Len(s)
    BY DEF WellFormed, List, Last
  <1>2. /\ Len(s) \in Nat /\ Len(s) # 0
        /\ s[Len(s)] \in Packets
        /\ Last(s) = s[Len(s)]
    BY <1>1, SeqFacts
  <1>3. /\ Tail(s) \in Seq(Packets)
        /\ Len(Tail(s)) = Len(s) - 1
        /\ Tail(s) = <<>> <=> Len(s) = 1
        /\ Len(s) # 1 => Last(Tail(s)) = Last(s)
    BY <1>1, TailFacts
  <1>4. /\ u.items = Tail(s)
        /\ u.tail = IF Len(s) = 1 THEN NoPacket ELSE s[Len(s)]
        /\ u.len = Len(s) - 1
        /\ u = [items |-> u.items, tail |-> u.tail, len |-> u.len]
    BY <1>1 DEF Unlink
  <1>5. u \in List
    BY <1>2, <1>3, <1>4 DEF List
  <1> QED
    BY <1>1, <1>2, <1>3, <1>4, <1>5 DEF WellFormed

\* Linking a packet behind a consistent list appends it.
LEMMA LinkWellFormed ==
  ASSUME NEW l, WellFormed(l), NEW p \in Packets
  PROVE  /\ WellFormed(Link(l, p))
         /\ Link(l, p).items = Append(l.items, p)
         /\ Link(l, p).len = l.len + 1
  <1> DEFINE s == l.items
             k == Link(l, p)
  <1>1. /\ s \in Seq(Packets)
        /\ l.len = Len(s)
        /\ l.tail = IF s = <<>> THEN NoPacket ELSE Last(s)
    BY DEF WellFormed, List
  <1>2. s # <<>> => Last(s) \in Packets /\ Last(s) # NoPacket
    <2>1. s # <<>> => Last(s) \in Packets
      BY <1>1, SeqFacts, Zenon
    <2> QED
      BY <2>1 DEF Packets
  <1>3. k.items = Append(s, p)
    <2>1. CASE s = <<>>
      BY <2>1, <1>1 DEF Link
    <2>2. CASE s # <<>>
      BY <2>2, <1>1, <1>2 DEF Link
    <2> QED
      BY <2>1, <2>2
  <1>4. k.tail = p /\ k.len = Len(s) + 1
        /\ k = [items |-> k.items, tail |-> k.tail, len |-> k.len]
    BY <1>1 DEF Link
  <1>5. /\ Append(s, p) \in Seq(Packets)
        /\ Len(Append(s, p)) = Len(s) + 1
        /\ Append(s, p)[Len(s) + 1] = p
        /\ Append(s, p) # <<>>
    BY <1>1
  <1>6. Last(Append(s, p)) = p
    BY <1>5 DEF Last
  <1>7. k \in List
    BY <1>1, <1>3, <1>4, <1>5 DEF List
  <1> QED
    BY <1>1, <1>3, <1>4, <1>5, <1>6, <1>7 DEF WellFormed

\* The critical section of on_recv: a consistent list within its bound stays
\* so, the packet comes last, and the list gave up its head if it was full.
LEMMA EnqueueWellFormed ==
  ASSUME NEW l, WellFormed(l), l.len <= QueueMax, NEW p \in Packets
  PROVE  /\ WellFormed(Enqueue(l, p))
         /\ Enqueue(l, p).len <= QueueMax
         /\ DropOldest(l).len < QueueMax
         /\ Enqueue(l, p).items =
              Append(IF Len(l.items) = QueueMax THEN Tail(l.items) ELSE l.items, p)
  <1> DEFINE d == DropOldest(l)
  <1>1. /\ QueueMax \in Nat \ {0}
        /\ l.len \in Nat
        /\ l.len = Len(l.items)
        /\ l.items \in Seq(Packets)
    BY XquicIceAssumption DEF WellFormed, List
  <1>2. /\ WellFormed(d)
        /\ d.len < QueueMax
        /\ d.items = IF Len(l.items) = QueueMax THEN Tail(l.items) ELSE l.items
    <2>1. CASE l.len >= QueueMax
      <3>1. l.items # <<>>
        BY <1>1, <2>1, EmptySeq
      <3>2. d = Unlink(l)
        BY <2>1, <3>1 DEF DropOldest
      <3> QED
        BY <1>1, <2>1, <3>1, <3>2, UnlinkWellFormed
    <2>2. CASE ~(l.len >= QueueMax)
      BY <1>1, <2>2 DEF DropOldest
    <2> QED
      BY <2>1, <2>2
  <1>3. d.len \in Nat
    BY <1>2 DEF WellFormed, List
  <1>4. Enqueue(l, p) = Link(d, p)
    BY <1>1, <1>2, <1>3 DEF Enqueue
  <1>5. /\ WellFormed(Link(d, p))
        /\ Link(d, p).items = Append(d.items, p)
        /\ Link(d, p).len = d.len + 1
    BY <1>2, LinkWellFormed
  <1> QED
    BY <1>1, <1>2, <1>3, <1>4, <1>5

-----------------------------------------------------------------------------
(* Types and the consistency of the list.                                  *)

ListOK == TypeOK /\ QueueConsistent

LEMMA ListOKWellFormed == ListOK => WellFormed(queue) /\ queue.len <= QueueMax
  BY DEF ListOK, TypeOK, QueueConsistent, WellFormed, List

LEMMA InitListOK == Init => ListOK
  <1> SUFFICES ASSUME Init PROVE ListOK
    OBVIOUS
  <1>1. <<>> \in Seq(Packets) /\ Len(<<>>) = 0
    BY EmptySeq
  <1>2. /\ queue = [items |-> <<>>, tail |-> 0, len |-> 0]
        /\ queue.items = <<>> /\ queue.tail = 0 /\ queue.len = 0
    BY DEF Init, EmptyList
  <1>3. QueueConsistent
    BY <1>1, <1>2, XquicIceAssumption DEF QueueConsistent
  <1>4. TypeOK
    <2>1. queue \in [items : Seq(Packets), tail : Packets \cup {NoPacket},
                     len : Nat]
      BY <1>1, <1>2
    <2>2. 0 \in 0..PipeCap /\ 0 \in 0..MaxSignals /\ 0 \in 0..MaxPackets
      BY XquicIceAssumption
    <2> QED
      BY <1>1, <2>1, <2>2 DEF Init, TypeOK
  <1> QED
    BY <1>3, <1>4 DEF ListOK

LEMMA ListOKStep == ListOK /\ [Next]_vars => ListOK'
  <1> SUFFICES ASSUME ListOK, [Next]_vars
               PROVE  ListOK'
    OBVIOUS
  <1> USE XquicIceAssumption
  <1>a. WellFormed(queue) /\ queue.len <= QueueMax
    BY ListOKWellFormed
  <1>b. QueueConsistent /\ UNCHANGED <<mutex, queue>> => QueueConsistent'
    BY DEF QueueConsistent
  <1>c. TypeOK /\ QueueConsistent
    BY DEF ListOK
  <1>1. CASE OnRecvReject
    BY <1>1, <1>b, <1>c DEF ListOK, OnRecvReject, TypeOK, adapter, loop, outside
  <1>2. CASE OnRecvEnqueue
    <2>1. arrived' \in Packets
      BY <1>2, <1>c DEF OnRecvEnqueue, TypeOK, Packets
    <2>2. WellFormed(queue') /\ queue'.len <= QueueMax
      BY <1>2, <1>a, <2>1, EnqueueWellFormed DEF OnRecvEnqueue
    <2>3. queue' \in List /\ QueueConsistent'
      BY <1>2, <2>2 DEF OnRecvEnqueue, WellFormed, QueueConsistent
    <2>4. TypeOK'
      BY <1>2, <1>c, <2>1, <2>3
      DEF OnRecvEnqueue, TypeOK, Packets, List, loop, outside
    <2> QED
      BY <2>3, <2>4 DEF ListOK
  <1>3. CASE OnRecvWake
    BY <1>3, <1>b, <1>c
    DEF ListOK, OnRecvWake, TypeOK, loop, outside, history
  <1>4. CASE Environment
    <2>1. CASE SignalArrives
      BY <2>1, <1>b, <1>c DEF ListOK, SignalArrives, TypeOK, adapter, loop, history
    <2>2. CASE ServerCloses
      BY <2>2, <1>b, <1>c DEF ListOK, ServerCloses, TypeOK, adapter, loop, history
    <2>3. CASE TimerExpires
      BY <2>3, <1>b, <1>c DEF ListOK, TimerExpires, TypeOK, adapter, loop, history
    <2> QED
      BY <1>4, <2>1, <2>2, <2>3 DEF Environment
  <1>5. CASE MainThread
    <2>1. CASE Select
      BY <2>1, <1>b, <1>c
      DEF ListOK, Select, ReadyFds, AfterSelect, AfterAdapter, TypeOK, adapter,
          outside, history
    <2>2. CASE SelectFails
      BY <2>2, <1>b, <1>c DEF ListOK, SelectFails, TypeOK, adapter, outside, history
    <2>3. CASE ReadWakeup
      BY <2>3, <1>b, <1>c DEF ListOK, ReadWakeup, TypeOK, loop, outside, history
    <2>4. CASE ReadReturns
      BY <2>4, <1>b, <1>c DEF ListOK, ReadReturns, TypeOK, adapter, outside, history
    <2>5. ASSUME NEW ok \in BOOLEAN, Feed(ok)
          PROVE  ListOK'
      <3>1. WellFormed(queue') /\ queue'.len = queue.len - 1
        BY <2>5, <1>a, UnlinkWellFormed DEF Feed
      <3>2. queue' \in List /\ queue'.len <= QueueMax /\ QueueConsistent'
        BY <2>5, <3>1, <1>a DEF Feed, WellFormed, List, QueueConsistent
      <3>3. Head(queue.items) \in Packets /\ taken' \in Seq(Packets)
        BY <2>5, <1>c, HeadTailProperties DEF Feed, TypeOK
      <3>4. TypeOK'
        BY <2>5, <1>c, <3>2, <3>3 DEF Feed, TypeOK, List, outside
      <3> QED
        BY <3>2, <3>4 DEF ListOK
    <2>6. CASE DrainDone
      BY <2>6, <1>b, <1>c
      DEF ListOK, DrainDone, MainLogicRuns, AfterAdapter, TypeOK, adapter, history
    <2>7. CASE RecvSignal
      BY <2>7, <1>b, <1>c DEF ListOK, RecvSignal, TypeOK, adapter, history
    <2>8. CASE RecvEof
      BY <2>8, <1>b, <1>c DEF ListOK, RecvEof, TypeOK, adapter, outside, history
    <2> QED
      BY <1>5, <2>1, <2>2, <2>3, <2>4, <2>5, <2>6, <2>7, <2>8 DEF MainThread
  <1>6. CASE UNCHANGED vars
    BY <1>6, <1>b, <1>c
    DEF ListOK, TypeOK, vars, adapter, loop, outside, history
  <1> QED
    BY <1>1, <1>2, <1>3, <1>4, <1>5, <1>6 DEF Next, JuiceThread

\* In every reachable state the variables have their types, queue_len and
\* queue_tail agree with the list, and the list is within queue_max.
THEOREM ListIsConsistent == Spec => [](TypeOK /\ QueueConsistent)
  <1>1. Init => ListOK
    BY InitListOK
  <1>2. ListOK => TypeOK /\ QueueConsistent
    BY DEF ListOK
  <1> QED
    BY <1>1, <1>2, ListOKStep, PTL DEF Spec

\* The types alone: no thread leaves the wakeup pipe, the list or one of the
\* program counters in a state that the code does not know.
THEOREM TypesKept == Spec => []TypeOK
  <1>1. TypeOK /\ QueueConsistent => TypeOK
    OBVIOUS
  <1> QED
    BY <1>1, ListIsConsistent, PTL

-----------------------------------------------------------------------------
(* No lost wakeup.                                                         *)

LEMMA NoLostWakeupStep ==
  ListOK /\ NoLostWakeup /\ [Next]_vars => NoLostWakeup'
  <1> SUFFICES ASSUME ListOK, NoLostWakeup, [Next]_vars
               PROVE  NoLostWakeup'
    OBVIOUS
  <1> USE DEF NoLostWakeup
  <1>a. pipe \in Nat /\ WellFormed(queue) /\ queue.len <= QueueMax
    BY ListOKWellFormed DEF ListOK, TypeOK
  <1>1. CASE OnRecvReject
    BY <1>1 DEF OnRecvReject, adapter, loop
  <1>2. CASE OnRecvEnqueue
    \* A packet that was linked is followed by a write to the pipe.
    <2>1. arrived' \in Packets
      BY <1>2, XquicIceAssumption DEF OnRecvEnqueue, ListOK, TypeOK, Packets
    <2>2. DropOldest(queue).len < QueueMax /\ DropOldest(queue).len \in Nat
      <3>1. DropOldest(queue).len < QueueMax
        BY <1>a, <2>1, EnqueueWellFormed
      <3>2. DropOldest(queue).len \in Nat
        BY <1>a, UnlinkWellFormed DEF DropOldest, WellFormed, List
      <3> QED
        BY <3>1, <3>2
    <2>3. jpc' = "wake"
      BY <1>2, <2>2, XquicIceAssumption DEF OnRecvEnqueue
    <2> QED
      BY <2>3
  <1>3. CASE OnRecvWake
    BY <1>3, <1>a DEF OnRecvWake
  <1>4. CASE Environment
    BY <1>4 DEF Environment, SignalArrives, ServerCloses, TimerExpires, adapter, loop
  <1>5. CASE MainThread
    <2>1. CASE Select
      \* select() leaves the pipe alone; if nothing but the signalling
      \* socket was ready, no byte was in it.
      BY <2>1 DEF Select, adapter
    <2>2. CASE SelectFails
      BY <2>2 DEF SelectFails
    <2>3. CASE ReadWakeup
      BY <2>3 DEF ReadWakeup, loop
    <2>4. CASE ReadReturns
      BY <2>4 DEF ReadReturns
    <2>5. CASE \E ok \in BOOLEAN : Feed(ok)
      BY <2>5 DEF Feed
    <2>6. CASE DrainDone
      \* The drain went on until the list was empty.
      BY <2>6 DEF DrainDone, Drained, adapter, ListOK, QueueConsistent
    <2>7. CASE RecvSignal
      BY <2>7 DEF RecvSignal, adapter
    <2>8. CASE RecvEof
      BY <2>8 DEF RecvEof
    <2> QED
      BY <1>5, <2>1, <2>2, <2>3, <2>4, <2>5, <2>6, <2>7, <2>8 DEF MainThread
  <1>6. CASE UNCHANGED vars
    BY <1>6 DEF vars, adapter, loop
  <1> QED
    BY <1>1, <1>2, <1>3, <1>4, <1>5, <1>6 DEF Next, JuiceThread

\* The main thread never sleeps in select() on a packet that nobody will wake
\* it for.
THEOREM WakeupNeverLost == Spec => []NoLostWakeup
  <1>1. Init => ListOK /\ NoLostWakeup
    BY InitListOK DEF Init, EmptyList, NoLostWakeup
  <1>2. (ListOK /\ NoLostWakeup) /\ [Next]_vars => (ListOK /\ NoLostWakeup)'
    BY ListOKStep, NoLostWakeupStep
  <1> QED
    BY <1>1, <1>2, PTL DEF Spec

-----------------------------------------------------------------------------
(* Order.  seen is what was taken followed by what waits: taking a packet  *)
(* leaves it as it is, a displaced packet disappears from its middle, and  *)
(* a new packet comes last, with a number above all others.                *)

Increasing(s) == \A i, j \in 1..Len(s) : i < j => s[i] < s[j]

UpTo(s, n) == \A i \in 1..Len(s) : s[i] <= n

\* Appending a number above all others keeps a sequence increasing.
LEMMA IncreasingAppend ==
  ASSUME NEW s \in Seq(Nat), NEW n \in Nat, Increasing(s), UpTo(s, n)
  PROVE  Increasing(Append(s, n + 1)) /\ UpTo(Append(s, n + 1), n + 1)
  <1>1. /\ Len(Append(s, n + 1)) = Len(s) + 1
        /\ Append(s, n + 1)[Len(s) + 1] = n + 1
        /\ \A i \in 1..Len(s) : Append(s, n + 1)[i] = s[i] /\ s[i] \in Nat
        /\ Len(s) \in Nat
    OBVIOUS
  <1> QED
    BY <1>1 DEF Increasing, UpTo

\* Dropping the head of the second of two sequences keeps them increasing.
LEMMA IncreasingDrop ==
  ASSUME NEW t \in Seq(Nat), NEW q \in Seq(Nat), q # <<>>, NEW n \in Nat,
         Increasing(t \o q), UpTo(t \o q, n)
  PROVE  Increasing(t \o Tail(q)) /\ UpTo(t \o Tail(q), n)
  <1> DEFINE a == t \o q
             r == Tail(q)
             b == t \o r
  <1>1. /\ r \in Seq(Nat)
        /\ Len(r) = Len(q) - 1
        /\ \A i \in 1..Len(r) : r[i] = q[i + 1]
        /\ Len(q) \in Nat /\ Len(t) \in Nat
    BY HeadTailProperties, LenProperties
  <1> HIDE DEF r
  <1>2. /\ Len(a) = Len(t) + Len(q)
        /\ \A i \in 1..Len(t) + Len(q) :
              a[i] = IF i <= Len(t) THEN t[i] ELSE q[i - Len(t)]
    BY ConcatProperties
  <1>3. /\ Len(b) = Len(t) + Len(r)
        /\ \A i \in 1..Len(t) + Len(r) :
              b[i] = IF i <= Len(t) THEN t[i] ELSE r[i - Len(t)]
    BY <1>1, ConcatProperties
  <1> HIDE DEF a, b
  <1>4. ASSUME NEW i \in 1..Len(b)
        PROVE  \E k \in 1..Len(a) :
                 b[i] = a[k] /\ k = IF i <= Len(t) THEN i ELSE i + 1
    <2>1. CASE i <= Len(t)
      <3>1. i \in 1..Len(a) /\ i \in 1..Len(t) + Len(q) /\ i \in 1..Len(t) + Len(r)
        BY <1>1, <1>2, <1>3, <2>1
      <3>2. a[i] = t[i] /\ b[i] = t[i]
        BY <1>2, <1>3, <2>1, <3>1
      <3> QED
        BY <2>1, <3>1, <3>2
    <2>2. CASE i > Len(t)
      <3>1. /\ i - Len(t) \in 1..Len(r)
            /\ i + 1 \in 1..Len(a)
            /\ (i + 1) - Len(t) = (i - Len(t)) + 1
            /\ ~(i <= Len(t)) /\ ~(i + 1 <= Len(t))
        BY <1>1, <1>2, <1>3, <2>2
      <3>2. b[i] = r[i - Len(t)]
        BY <1>3, <3>1
      <3>3. r[i - Len(t)] = q[(i + 1) - Len(t)]
        BY <1>1, <3>1
      <3>4. a[i + 1] = q[(i + 1) - Len(t)]
        BY <1>2, <3>1
      <3> QED
        BY <2>2, <3>1, <3>2, <3>3, <3>4
    <2> QED
      BY <1>1, <1>3, <2>1, <2>2
  <1>5. Len(a) \in Nat /\ Len(b) \in Nat
    BY <1>1, <1>2, <1>3
  <1>6. Increasing(a) /\ UpTo(a, n)
    BY DEF a
  <1>7. Increasing(b)
    <2> SUFFICES ASSUME NEW i \in 1..Len(b), NEW j \in 1..Len(b), i < j
                 PROVE  b[i] < b[j]
      BY DEF Increasing
    <2>1. PICK k \in 1..Len(a) : b[i] = a[k] /\ k = IF i <= Len(t) THEN i ELSE i + 1
      BY <1>4
    <2>2. PICK m \in 1..Len(a) : b[j] = a[m] /\ m = IF j <= Len(t) THEN j ELSE j + 1
      BY <1>4
    <2>3. k < m
      BY <1>1, <1>5, <2>1, <2>2
    <2> QED
      BY <1>6, <2>1, <2>2, <2>3 DEF Increasing
  <1>8. UpTo(b, n)
    BY <1>4, <1>6 DEF UpTo
  <1> QED
    BY <1>7, <1>8 DEF b, r

\* Moving the head of one sequence to the end of another, and appending to
\* the second of two sequences, seen on their concatenation.
LEMMA ConcatMoves ==
  ASSUME NEW S, NEW t \in Seq(S), NEW q \in Seq(S), NEW p \in S
  PROVE  /\ q # <<>> => Append(t, Head(q)) \o Tail(q) = t \o q
         /\ t \o Append(q, p) = Append(t \o q, p)
  <1>1. ASSUME q # <<>>
        PROVE  Append(t, Head(q)) \o Tail(q) = t \o q
    <2>1. Head(q) \in S /\ Tail(q) \in Seq(S) /\ <<Head(q)>> \in Seq(S)
      BY <1>1, HeadTailProperties
    <2>2. Append(t, Head(q)) = t \o <<Head(q)>>
      BY <2>1, AppendIsConcat
    <2>3. (t \o <<Head(q)>>) \o Tail(q) = t \o (<<Head(q)>> \o Tail(q))
      BY <2>1, ConcatAssociative
    <2>4. <<Head(q)>> \o Tail(q) = q
      BY <1>1, <2>1
    <2> QED
      BY <2>2, <2>3, <2>4
  <1>2. t \o Append(q, p) = Append(t \o q, p)
    <2>1. Append(q, p) = q \o <<p>> /\ <<p>> \in Seq(S)
      BY AppendIsConcat
    <2>2. Append(t \o q, p) = (t \o q) \o <<p>>
      BY ConcatProperties, AppendIsConcat
    <2> QED
      BY <2>1, <2>2, ConcatAssociative
  <1> QED
    BY <1>1, <1>2

\* InOrder, strengthened by what makes it inductive: no packet has a number
\* that is still to come.
Seen == taken \o queue.items

Ordered == Increasing(Seen) /\ UpTo(Seen, arrived)

LEMMA OrderedInOrder == Ordered => InOrder
  BY DEF Ordered, InOrder, Increasing, Seen

\* What every step does to the list, in terms of its packets.
LEMMA EnqueueItems ==
  ASSUME ListOK, OnRecvEnqueue
  PROVE  /\ arrived' = arrived + 1 /\ arrived' \in Packets
         /\ taken' = taken
         /\ queue'.items =
              Append(IF Len(queue.items) = QueueMax THEN Tail(queue.items)
                     ELSE queue.items, arrived')
  <1>1. arrived' = arrived + 1 /\ arrived' \in Packets
    BY XquicIceAssumption DEF OnRecvEnqueue, ListOK, TypeOK, Packets
  <1>2. WellFormed(queue) /\ queue.len <= QueueMax
    BY ListOKWellFormed
  <1> QED
    BY <1>1, <1>2, EnqueueWellFormed DEF OnRecvEnqueue

LEMMA FeedItems ==
  ASSUME ListOK, NEW ok \in BOOLEAN, Feed(ok)
  PROVE  /\ queue.items # <<>>
         /\ queue'.items = Tail(queue.items)
         /\ taken' = Append(taken, Head(queue.items))
         /\ arrived' = arrived
  BY ListOKWellFormed, UnlinkWellFormed DEF Feed

\* Every other step leaves both sequences alone.
LEMMA OtherItems ==
  ASSUME ListOK, [Next]_vars, ~OnRecvReject, ~OnRecvEnqueue,
         ~(\E ok \in BOOLEAN : Feed(ok))
  PROVE  UNCHANGED <<queue, taken, arrived>>
  <1>1. CASE OnRecvWake
    BY <1>1 DEF OnRecvWake, history
  <1>2. CASE Environment
    BY <1>2
    DEF Environment, SignalArrives, ServerCloses, TimerExpires, adapter, history
  <1>3. CASE MainThread
    <2>1. \/ Select \/ SelectFails \/ ReadWakeup \/ ReadReturns
          \/ DrainDone \/ RecvSignal \/ RecvEof
      BY <1>3 DEF MainThread
    <2> QED
      BY <2>1
      DEF Select, SelectFails, ReadWakeup, ReadReturns, DrainDone, RecvSignal,
          RecvEof, adapter, history
  <1>4. CASE UNCHANGED vars
    BY <1>4 DEF vars, adapter, history
  <1> QED
    BY <1>1, <1>2, <1>3, <1>4 DEF Next, JuiceThread

LEMMA OrderedStep == ListOK /\ Ordered /\ [Next]_vars => Ordered'
  <1> SUFFICES ASSUME ListOK, Ordered, [Next]_vars
               PROVE  Ordered'
    OBVIOUS
  <1> DEFINE q == queue.items
  <1>a. /\ q \in Seq(Packets) /\ taken \in Seq(Packets)
        /\ q \in Seq(Nat) /\ taken \in Seq(Nat)
        /\ arrived \in Nat
    <2>1. q \in Seq(Packets) /\ taken \in Seq(Packets) /\ arrived \in Nat
      BY XquicIceAssumption DEF ListOK, TypeOK
    <2>2. Packets \subseteq Nat
      BY DEF Packets
    <2> QED
      BY <2>1, <2>2, SeqMonotonic
  <1>b. Increasing(taken \o q) /\ UpTo(taken \o q, arrived)
    BY DEF Ordered, Seen
  <1>1. CASE OnRecvReject
    <2>1. UNCHANGED <<queue, taken>> /\ arrived' = arrived + 1
      BY <1>1 DEF OnRecvReject, adapter
    <2>2. taken \o q \in Seq(Nat)
      BY <1>a, ConcatProperties
    <2>3. \A i \in 1..Len(taken \o q) : (taken \o q)[i] \in Nat
      BY <2>2, ElementOfSeq
    <2>4. UpTo(taken \o q, arrived + 1)
      BY <1>a, <1>b, <2>3 DEF UpTo
    <2> QED
      BY <1>b, <2>1, <2>4 DEF Ordered, Seen
  <1>2. CASE OnRecvEnqueue
    <2> DEFINE k == IF Len(q) = QueueMax THEN Tail(q) ELSE q
    <2>1. /\ arrived' = arrived + 1 /\ taken' = taken
          /\ queue'.items = Append(k, arrived + 1)
      BY <1>2, EnqueueItems
    <2>2. k \in Seq(Nat) /\ Increasing(taken \o k) /\ UpTo(taken \o k, arrived)
      <3>1. CASE Len(q) = QueueMax
        <4>1. q # <<>>
          BY <3>1, EmptySeq, XquicIceAssumption
        <4>2. Tail(q) \in Seq(Nat)
          BY <1>a, <4>1, HeadTailProperties
        <4> QED
          BY <1>a, <1>b, <3>1, <4>1, <4>2, IncreasingDrop
      <3>2. CASE Len(q) # QueueMax
        BY <1>a, <1>b, <3>2
      <3> QED
        BY <3>1, <3>2
    <2> HIDE DEF k
    <2>3. taken \o k \in Seq(Nat) /\ arrived + 1 \in Nat
      BY <1>a, <2>2, ConcatProperties
    <2>4. taken \o Append(k, arrived + 1) = Append(taken \o k, arrived + 1)
      BY <1>a, <2>2, <2>3, ConcatMoves
    <2>5. /\ Increasing(Append(taken \o k, arrived + 1))
          /\ UpTo(Append(taken \o k, arrived + 1), arrived + 1)
      BY <1>a, <2>2, <2>3, IncreasingAppend
    <2> QED
      BY <2>1, <2>4, <2>5 DEF Ordered, Seen
  <1>3. ASSUME NEW ok \in BOOLEAN, Feed(ok)
        PROVE  Ordered'
    <2>1. /\ q # <<>> /\ queue'.items = Tail(q)
          /\ taken' = Append(taken, Head(q)) /\ arrived' = arrived
      BY <1>3, FeedItems
    <2>2. Head(q) \in Packets
      BY <1>a, <2>1, HeadTailProperties
    <2>3. Append(taken, Head(q)) \o Tail(q) = taken \o q
      BY <1>a, <2>1, <2>2, ConcatMoves
    <2> QED
      BY <1>b, <2>1, <2>3 DEF Ordered, Seen
  <1>4. CASE UNCHANGED <<queue, taken, arrived>>
    BY <1>4 DEF Ordered, Seen
  <1> QED
    BY <1>1, <1>2, <1>3, <1>4, OtherItems

\* The engine is given packets in the order of their arrival, none twice.
THEOREM PacketsInOrder == Spec => []InOrder
  <1>1. Init => ListOK /\ Ordered
    <2>1. Init => Ordered
      <3> SUFFICES ASSUME Init PROVE Ordered
        OBVIOUS
      <3>1. Seen = <<>> \o <<>> /\ <<>> \in Seq(Nat)
        BY DEF Init, Seen, EmptyList
      <3>2. Len(Seen) = 0
        BY <3>1, ConcatEmptySeq, EmptySeq
      <3> QED
        BY <3>2 DEF Ordered, Increasing, UpTo
    <2> QED
      BY <2>1, InitListOK
  <1>2. (ListOK /\ Ordered) /\ [Next]_vars => (ListOK /\ Ordered)'
    BY ListOKStep, OrderedStep
  <1>3. ListOK /\ Ordered => InOrder
    BY OrderedInOrder
  <1> QED
    BY <1>1, <1>2, <1>3, PTL DEF Spec

-----------------------------------------------------------------------------
(* Refinement.                                                             *)

LEMMA InitChannel == Init => Channel!Init
  BY DEF Init, Channel!Init, EmptyList

LEMMA StepChannel == ListOK /\ [Next]_vars => [Channel!Next]_Channel!vars
  <1> SUFFICES ASSUME ListOK, [Next]_vars
               PROVE  [Channel!Next]_Channel!vars
    OBVIOUS
  <1>1. CASE OnRecvReject
    BY <1>1 DEF OnRecvReject, adapter, Channel!Next, Channel!Refuse
  <1>2. CASE OnRecvEnqueue
    <2>1. /\ arrived' = arrived + 1 /\ taken' = taken
          /\ queue'.items =
               Append(IF Len(queue.items) = QueueMax THEN Tail(queue.items)
                      ELSE queue.items, arrived')
      BY <1>2, EnqueueItems
    <2>2. Len(queue.items) \in Nat /\ Len(queue.items) <= QueueMax
      BY ListOKWellFormed DEF WellFormed, List
    <2>3. CASE Len(queue.items) = QueueMax
      BY <2>1, <2>3 DEF Channel!Next, Channel!Displace
    <2>4. CASE Len(queue.items) # QueueMax
      BY <2>1, <2>2, <2>4, XquicIceAssumption DEF Channel!Next, Channel!Accept
    <2> QED
      BY <2>3, <2>4
  <1>3. ASSUME NEW ok \in BOOLEAN, Feed(ok)
        PROVE  Channel!Next
    BY <1>3, FeedItems DEF Channel!Next, Channel!Deliver
  <1>4. CASE UNCHANGED <<queue, taken, arrived>>
    BY <1>4 DEF Channel!vars
  <1> QED
    BY <1>1, <1>2, <1>3, <1>4, OtherItems

\* on_recv and drain_and_feed implement the bounded FIFO channel that gives
\* up its oldest packet when full.
THEOREM AdapterIsPacketChannel == Spec => IsPacketChannel
  <1>1. Init => ListOK
    BY InitListOK
  <1> QED
    BY <1>1, ListOKStep, InitChannel, StepChannel, PTL
    DEF Spec, IsPacketChannel, Channel!Spec
=============================================================================
