------------------------- MODULE IceSession_proofs -------------------------
(***************************************************************************)
(* The exchange of a room's clients, for any number of runs, candidates    *)
(* and any capacity of the relay.                                          *)
(*                                                                         *)
(* The log of a run is what it handled and what is on its way to it.       *)
(* Handling a line leaves the log as it is, sending one appends to it, and *)
(* only the recv() that completes the role line takes something away, so   *)
(* the invariants below speak of logs.                                     *)
(***************************************************************************)
EXTENDS IceSession, SequenceTheorems, TLAPS

Log(p) == got[p] \o net[p]

\* The effects of a step on the logs: one of them grows by the line l, ...
Grows(p, l) ==
  /\ Log(p)' = Append(Log(p), l)
  /\ \A d \in Runs : d # p => Log(d)' = Log(d)

\* ... or loses its first k lines, which count as lost, ...
Shrinks(p, k) ==
  /\ got[p] = <<>>
  /\ Log(p)' = SubSeq(Log(p), k + 1, Len(Log(p)))
  /\ lost \cup {Log(p)[j] : j \in 1..k} = lost'
  /\ \A d \in Runs : d # p => Log(d)' = Log(d)

\* ... or none changes.
SameLogs == \A d \in Runs : Log(d)' = Log(d)

-----------------------------------------------------------------------------
(* Types.                                                                  *)

LEMMA PartnerType ==
  ASSUME TypeOK, NEW p \in Runs
  PROVE  Partner(p) \in Runs \cup {NoRun}
BY DEF TypeOK, Partner, Slots

LEMMA LogType ==
  ASSUME TypeOK
  PROVE  /\ \A p \in Runs : Log(p) \in Seq(Line) /\ Len(Log(p)) \in Nat
         /\ \A p \in Runs : \A k \in 1..Len(Log(p)) : Log(p)[k] \in Line
BY DEF TypeOK, Log

LEMMA LineType ==
  ASSUME TypeOK, NEW p \in Runs, NEW kind \in Kinds
  PROVE  LineOf(p, kind) \in Line
BY DEF TypeOK, LineOf, Line

\* What a send does.
LEMMA SendFits ==
  ASSUME TypeOK, NEW p \in Runs, NEW kind \in Kinds, Send(p, kind)
  PROVE  /\ net' \in [Runs -> Seq(Line)]
         /\ \A d \in Runs : Len(net'[d]) <= Capacity
         /\ lost' \subseteq Line
         /\ UNCHANGED slots
<1> DEFINE line == LineOf(p, kind)
           to == Partner(p)
<1>0. /\ net \in [Runs -> Seq(Line)] /\ \A d \in Runs : Len(net[d]) <= Capacity
      /\ Capacity \in Nat /\ lost \subseteq Line /\ to \in Runs \cup {NoRun}
      /\ line \in Line
  BY PartnerType, LineType, IceSessionAssumption DEF TypeOK
<1>1. CASE to # NoRun /\ Len(net[to]) < Capacity
  <2>1. to \in Runs /\ net' = [net EXCEPT ![to] = Append(@, line)] /\ lost' = lost
    BY <1>0, <1>1 DEF Send
  <2> HIDE DEF to, line
  <2>2. /\ Append(net[to], line) \in Seq(Line)
        /\ Len(Append(net[to], line)) = Len(net[to]) + 1
        /\ Len(net[to]) \in Nat
    BY <1>0, <2>1
  <2>3. Len(Append(net[to], line)) <= Capacity
    BY <1>0, <1>1, <2>2
  <2> QED BY <1>0, <2>1, <2>2, <2>3 DEF Send
<1>2. CASE ~(to # NoRun /\ Len(net[to]) < Capacity)
  <2>1. net' = net /\ lost' = lost \cup {line}
    BY <1>2 DEF Send
  <2> QED BY <1>0, <2>1 DEF Send
<1> QED BY <1>1, <1>2

LEMMA TypeInit == Init => TypeOK
<1> SUFFICES ASSUME Init PROVE TypeOK
  OBVIOUS
<1>1. Capacity \in Nat
  BY IceSessionAssumption
<1>2. <<>> \in Seq(Line) /\ Len(<<>>) = 0
  BY EmptySeq
<1> QED BY <1>1, <1>2 DEF Init, TypeOK, Slots

\* Taking the next line.
LEMMA TakeFits ==
  ASSUME TypeOK, NEW p \in Runs, NEW kinds, Take(p, kinds)
  PROVE  /\ net' \in [Runs -> Seq(Line)]
         /\ \A d \in Runs : Len(net'[d]) <= Capacity
         /\ got' \in [Runs -> Seq(Line)]
         /\ Head(net[p]) \in Line /\ Head(net[p]).from \in Runs
         /\ Head(net[p]).kind \in kinds
<1>0. /\ net \in [Runs -> Seq(Line)] /\ \A d \in Runs : Len(net[d]) <= Capacity
      /\ got \in [Runs -> Seq(Line)]
      /\ Capacity \in Nat
  BY IceSessionAssumption DEF TypeOK
<1>1. /\ net[p] \in Seq(Line) /\ net[p] # <<>> /\ Len(net[p]) \in Nat
      /\ Head(net[p]) \in Line /\ Tail(net[p]) \in Seq(Line)
      /\ Len(Tail(net[p])) = Len(net[p]) - 1
  BY <1>0, HeadTailProperties DEF Take
<1>2. Append(got[p], Head(net[p])) \in Seq(Line)
  BY <1>0, <1>1
<1>3. /\ net' = [net EXCEPT ![p] = Tail(net[p])]
      /\ got' = [got EXCEPT ![p] = Append(got[p], Head(net[p]))]
  BY DEF Take
<1>4. Len(Tail(net[p])) <= Capacity
  BY <1>0, <1>1
<1> QED BY <1>0, <1>1, <1>2, <1>3, <1>4 DEF Line, Take

\* The recv() that completes the role line.
LEMMA RecvRoleFits ==
  ASSUME TypeOK, NEW p \in Runs, RecvRole(p)
  PROVE  /\ net' \in [Runs -> Seq(Line)]
         /\ \A d \in Runs : Len(net'[d]) <= Capacity
         /\ lost' \subseteq Line
<1>0. /\ net \in [Runs -> Seq(Line)] /\ \A d \in Runs : Len(net[d]) <= Capacity
      /\ Capacity \in Nat /\ lost \subseteq Line
      /\ Len(net[p]) \in Nat /\ \A j \in 1..Len(net[p]) : net[p][j] \in Line
  BY IceSessionAssumption DEF TypeOK
<1>1. PICK k \in 0..Len(net[p]) :
        /\ net' = [net EXCEPT ![p] = SubSeq(net[p], k + 1, Len(net[p]))]
        /\ lost' = lost \cup {net[p][j] : j \in 1..k}
  BY DEF RecvRole
<1>2. \A i \in (k + 1)..Len(net[p]) : net[p][i] \in Line
  BY <1>0
<1>3. /\ SubSeq(net[p], k + 1, Len(net[p])) \in Seq(Line)
      /\ Len(SubSeq(net[p], k + 1, Len(net[p]))) <= Len(net[p])
  <2>1. k + 1 \in Int /\ Len(net[p]) \in Int
    BY <1>0
  <2>2. /\ SubSeq(net[p], k + 1, Len(net[p])) \in Seq(Line)
        /\ Len(SubSeq(net[p], k + 1, Len(net[p]))) =
             IF k + 1 <= Len(net[p]) THEN Len(net[p]) - (k + 1) + 1 ELSE 0
    BY <1>2, <2>1, SubSeqProperties
  <2> QED BY <1>0, <2>2
<1>4. \A d \in Runs : Len(net'[d]) <= Capacity
  <2> SUFFICES ASSUME NEW d \in Runs PROVE Len(net'[d]) <= Capacity
    OBVIOUS
  <2>1. CASE d = p
    <3>1. net'[d] = SubSeq(net[p], k + 1, Len(net[p])) /\ Len(net[p]) <= Capacity
      BY <1>0, <1>1, <2>1
    <3>2. Len(net'[d]) \in Nat
      BY <1>3, <3>1
    <3> QED BY <1>0, <1>3, <3>1, <3>2
  <2>2. CASE d # p
    BY <1>0, <1>1, <2>2
  <2> QED BY <2>1, <2>2
<1>5. \A j \in 1..k : net[p][j] \in Line
  BY <1>0
<1> QED BY <1>0, <1>1, <1>3, <1>4, <1>5

LEMMA TypeStep == TypeOK /\ [Next]_vars => TypeOK'
<1> SUFFICES ASSUME TypeOK, [Next]_vars PROVE TypeOK'
  OBVIOUS
<1> USE DEF TypeOK, Goto, server, agent, known
<1>0. MaxCandidates \in Nat
  BY IceSessionAssumption
<1>1. ASSUME NEW p \in Runs, NEW i \in Slots, Join(p, i) PROVE TypeOK'
  BY <1>1 DEF Join, Slots, RoleForSlot
<1>2. ASSUME NEW p \in Runs, JoinFails(p) \/ Exit(p) PROVE TypeOK'
  BY <1>2 DEF JoinFails, Exit
<1>3. ASSUME NEW i \in Slots, RemovePeer(i) PROVE TypeOK'
  BY <1>3 DEF RemovePeer
<1>4. ASSUME NEW p \in Runs, RecvRole(p) PROVE TypeOK'
  <2>1. /\ net' \in [Runs -> Seq(Line)]
        /\ \A d \in Runs : Len(net'[d]) <= Capacity
        /\ lost' \subseteq Line
    BY <1>4, RecvRoleFits
  <2> QED BY <1>4, <2>1 DEF RecvRole
<1>5. ASSUME NEW p \in Runs, NEW kind \in Kinds, Send(p, kind),
             SendOffer(p) \/ SendAnswer(p) \/ SendCandidate(p)
                          \/ SendGatheringDone(p)
      PROVE  TypeOK'
  <2>1. /\ net' \in [Runs -> Seq(Line)]
        /\ \A d \in Runs : Len(net'[d]) <= Capacity
        /\ lost' \subseteq Line
        /\ UNCHANGED slots
    BY <1>5, SendFits
  <2>2. CASE SendOffer(p)
    BY <2>1, <2>2 DEF SendOffer
  <2>3. CASE SendAnswer(p)
    BY <2>1, <2>3 DEF SendAnswer, Gather
  <2>4. CASE SendCandidate(p)
    BY <1>0, <2>1, <2>4 DEF SendCandidate
  <2>5. CASE SendGatheringDone(p)
    BY <2>1, <2>5 DEF SendGatheringDone
  <2> QED BY <1>5, <2>2, <2>3, <2>4, <2>5
<1>6. ASSUME NEW p \in Runs, NEW kinds, Take(p, kinds),
             OnOffer(p) \/ OnAnswer(p) \/ OnCandidate(p)
      PROVE  TypeOK'
  <2>1. /\ net' \in [Runs -> Seq(Line)]
        /\ \A d \in Runs : Len(net'[d]) <= Capacity
        /\ got' \in [Runs -> Seq(Line)]
        /\ Head(net[p]).from \in Runs
    BY <1>6, TakeFits
  <2>2. CASE OnOffer(p)
    BY <1>6, <2>1, <2>2 DEF OnOffer, SetRemote, Take
  <2>3. CASE OnAnswer(p)
    BY <1>6, <2>1, <2>3 DEF OnAnswer, SetRemote, Gather, Take
  <2>4. CASE OnCandidate(p)
    BY <1>6, <2>1, <2>4 DEF OnCandidate, Take
  <2> QED BY <1>6, <2>2, <2>3, <2>4
<1>7. ASSUME NEW p \in Runs, AwaitOffer(p) \/ SendBegins(p) \/ Sleep(p)
      PROVE  TypeOK'
  BY <1>7 DEF AwaitOffer, SendBegins, Sleep
<1>8. CASE UNCHANGED vars
  BY <1>8 DEF vars
<1>9. ASSUME NEW p \in Runs, MainThread(p) PROVE TypeOK'
  <2>1. CASE RecvRole(p) \/ AwaitOffer(p)
    BY <1>4, <1>7, <2>1
  <2>2. CASE SendOffer(p)
    BY <1>5, <2>2 DEF SendOffer, Kinds
  <2>3. CASE SendAnswer(p)
    BY <1>5, <2>3 DEF SendAnswer, Kinds
  <2>4. CASE OnOffer(p)
    BY <1>6, <2>4 DEF OnOffer
  <2>5. CASE OnAnswer(p)
    BY <1>6, <2>5 DEF OnAnswer
  <2>6. CASE OnCandidate(p)
    BY <1>6, <2>6 DEF OnCandidate
  <2> QED BY <1>9, <2>1, <2>2, <2>3, <2>4, <2>5, <2>6 DEF MainThread
<1>10. ASSUME NEW p \in Runs, JuiceThread(p) PROVE TypeOK'
  <2>1. CASE SendBegins(p)
    BY <1>7, <2>1
  <2>2. CASE SendCandidate(p)
    BY <1>5, <2>2 DEF SendCandidate, Kinds
  <2>3. CASE SendGatheringDone(p)
    BY <1>5, <2>3 DEF SendGatheringDone, Kinds
  <2> QED BY <1>10, <2>1, <2>2, <2>3 DEF JuiceThread
<1> QED BY <1>1, <1>2, <1>3, <1>7, <1>8, <1>9, <1>10 DEF Next, Environment

LEMMA TypesHold == Spec => []TypeOK
BY TypeInit, TypeStep, PTL DEF Spec

\* Every variable keeps its type; in particular the relay never holds more
\* than Capacity lines for a run.
THEOREM TypesKept == Spec => []TypeOK
BY TypesHold

-----------------------------------------------------------------------------
(* Logs.                                                                   *)

LEMMA Positions ==
  ASSUME NEW a \in Nat, NEW b \in Nat
  PROVE  /\ \A k \in 1..a : k \in 1..(a + b) /\ k <= a
         /\ \A k \in 1..b : /\ a + k \in 1..(a + b)
                            /\ ~(a + k <= a)
                            /\ (a + k) - a = k
OBVIOUS

\* A concatenation, element by element.
LEMMA LogElements ==
  ASSUME TypeOK, NEW p \in Runs
  PROVE  /\ Len(Log(p)) = Len(got[p]) + Len(net[p])
         /\ Len(got[p]) \in Nat /\ Len(net[p]) \in Nat
         /\ \A k \in 1..Len(got[p]) : Log(p)[k] = got[p][k]
         /\ \A k \in 1..Len(net[p]) : Log(p)[Len(got[p]) + k] = net[p][k]
<1>1. got[p] \in Seq(Line) /\ net[p] \in Seq(Line)
  BY DEF TypeOK
<1>2. Len(got[p]) \in Nat /\ Len(net[p]) \in Nat
  BY <1>1
<1>3. /\ Len(got[p] \o net[p]) = Len(got[p]) + Len(net[p])
      /\ \A i \in 1..(Len(got[p]) + Len(net[p])) :
           (got[p] \o net[p])[i] = IF i <= Len(got[p]) THEN got[p][i]
                                    ELSE net[p][i - Len(got[p])]
  BY <1>1, ConcatProperties
<1>4. ASSUME NEW k \in 1..Len(got[p]) PROVE Log(p)[k] = got[p][k]
  <2>1. k \in 1..(Len(got[p]) + Len(net[p])) /\ k <= Len(got[p])
    BY <1>2, <1>4, Positions
  <2> QED BY <1>3, <2>1 DEF Log
<1>5. ASSUME NEW k \in 1..Len(net[p])
      PROVE  Log(p)[Len(got[p]) + k] = net[p][k]
  <2>1. /\ Len(got[p]) + k \in 1..(Len(got[p]) + Len(net[p]))
        /\ ~(Len(got[p]) + k <= Len(got[p]))
        /\ (Len(got[p]) + k) - Len(got[p]) = k
    BY <1>2, <1>5, Positions
  <2> QED BY <1>3, <2>1 DEF Log
<1> QED BY <1>2, <1>3, <1>4, <1>5 DEF Log

\* What was handled is in the log.
LEMMA HandledInLog ==
  ASSUME TypeOK, NEW p \in Runs, NEW kind, NEW q
  PROVE  Handled(p, kind, q) <=>
           \E k \in 1..Len(got[p]) : /\ k \in 1..Len(Log(p))
                                     /\ Log(p)[k].kind = kind
                                     /\ Log(p)[k].from = q
<1>1. got[p] \in Seq(Line)
  BY DEF TypeOK
<1>2. Range(got[p]) = {got[p][k] : k \in 1..Len(got[p])}
  BY <1>1, RangeEquality
<1>3. \A k \in 1..Len(got[p]) : k \in 1..Len(Log(p)) /\ Log(p)[k] = got[p][k]
  <2>1. /\ Len(Log(p)) = Len(got[p]) + Len(net[p])
        /\ Len(got[p]) \in Nat /\ Len(net[p]) \in Nat
        /\ \A k \in 1..Len(got[p]) : Log(p)[k] = got[p][k]
    BY LogElements
  <2>2. \A k \in 1..Len(got[p]) : k \in 1..Len(Log(p))
    BY <2>1, Positions
  <2> QED BY <2>1, <2>2
<1> QED BY <1>2, <1>3 DEF Handled

LEMMA SendLog ==
  ASSUME TypeOK, NEW p \in Runs, NEW kind \in Kinds, Send(p, kind), got' = got
  PROVE  \/ /\ lost' = lost
            /\ \E to \in Runs : /\ to = Partner(p)
                               /\ Grows(to, LineOf(p, kind))
         \/ /\ lost' = lost \cup {LineOf(p, kind)}
            /\ SameLogs
<1> DEFINE line == LineOf(p, kind)
<1>0. line \in Line /\ Partner(p) \in Runs \cup {NoRun}
      /\ net \in [Runs -> Seq(Line)] /\ got \in [Runs -> Seq(Line)]
  BY PartnerType, LineType DEF TypeOK
<1>1. CASE Partner(p) # NoRun /\ Len(net[Partner(p)]) < Capacity
  <2>0. PICK to \in Runs : to = Partner(p)
    BY <1>0, <1>1
  <2>1. net' = [net EXCEPT ![to] = Append(@, line)] /\ lost' = lost
    BY <1>1, <2>0 DEF Send
  <2> HIDE DEF line
  <2>2. Append(net[to], line) = net[to] \o <<line>> /\ <<line>> \in Seq(Line)
        /\ got[to] \o net[to] \in Seq(Line)
    BY <1>0, <2>1, AppendIsConcat, ConcatProperties
  <2>3. got[to] \o (net[to] \o <<line>>) = (got[to] \o net[to]) \o <<line>>
    BY <1>0, <2>1, <2>2, ConcatAssociative
  <2>4. Append(got[to] \o net[to], line) = (got[to] \o net[to]) \o <<line>>
    BY <1>0, <2>2, AppendIsConcat
  <2>5. Log(to)' = Append(Log(to), line)
    BY <1>0, <2>1, <2>2, <2>3, <2>4 DEF Log
  <2>6. Grows(to, line)
    BY <1>0, <2>1, <2>5 DEF Grows, Log
  <2> QED BY <2>0, <2>1, <2>6 DEF line
<1>2. CASE ~(Partner(p) # NoRun /\ Len(net[Partner(p)]) < Capacity)
  BY <1>2 DEF Send, SameLogs, Log
<1> QED BY <1>1, <1>2

LEMMA TakeLog ==
  ASSUME TypeOK, NEW p \in Runs, NEW kinds, Take(p, kinds)
  PROVE  /\ SameLogs
         /\ got' = [got EXCEPT ![p] = Append(@, Head(net[p]))]
         /\ Len(got[p]) + 1 \in 1..Len(Log(p))
         /\ Log(p)[Len(got[p]) + 1] = Head(net[p])
         /\ Head(net[p]).kind \in kinds
         /\ lost' = lost /\ slots' = slots
<1>0. /\ net[p] \in Seq(Line) /\ net[p] # <<>> /\ got[p] \in Seq(Line)
      /\ net \in [Runs -> Seq(Line)] /\ got \in [Runs -> Seq(Line)]
  BY DEF TypeOK, Take
<1>1. /\ net' = [net EXCEPT ![p] = Tail(@)]
      /\ got' = [got EXCEPT ![p] = Append(@, Head(net[p]))]
  BY DEF Take
<1>2. Append(got[p], Head(net[p])) \o Tail(net[p]) = got[p] \o net[p]
  <2>1. Head(net[p]) \in Line /\ Tail(net[p]) \in Seq(Line)
        /\ <<Head(net[p])>> \in Seq(Line)
    BY <1>0, HeadTailProperties
  <2>2. Append(got[p], Head(net[p])) = got[p] \o <<Head(net[p])>>
    BY <1>0, <2>1, AppendIsConcat
  <2>3. (got[p] \o <<Head(net[p])>>) \o Tail(net[p])
          = got[p] \o (<<Head(net[p])>> \o Tail(net[p]))
    BY <1>0, <2>1, ConcatAssociative
  <2>4. <<Head(net[p])>> \o Tail(net[p]) = net[p]
    BY <1>0, <2>1
  <2> QED BY <2>2, <2>3, <2>4
<1>3. SameLogs
  <2> SUFFICES ASSUME NEW d \in Runs PROVE Log(d)' = Log(d)
    BY DEF SameLogs
  <2>1. CASE d = p
    <3>1. net'[p] = Tail(net[p]) /\ got'[p] = Append(got[p], Head(net[p]))
      BY <1>0, <1>1
    <3> QED BY <1>2, <2>1, <3>1 DEF Log
  <2>2. CASE d # p
    BY <1>0, <1>1, <2>2 DEF Log
  <2> QED BY <2>1, <2>2
<1>4. Len(net[p]) \in Nat \ {0} /\ Head(net[p]) = net[p][1]
  BY <1>0
<1>5. Len(got[p]) + 1 \in 1..Len(Log(p)) /\ Log(p)[Len(got[p]) + 1] = net[p][1]
  <2>1. 1 \in 1..Len(net[p]) /\ Len(net[p]) >= 1
    BY <1>4
  <2>2. /\ Len(Log(p)) = Len(got[p]) + Len(net[p])
        /\ Len(got[p]) \in Nat /\ Len(net[p]) \in Nat
        /\ \A k \in 1..Len(net[p]) : Log(p)[Len(got[p]) + k] = net[p][k]
    BY LogElements
  <2>3. Len(got[p]) + 1 \in 1..Len(Log(p))
    BY <2>1, <2>2, Positions
  <2> QED BY <2>1, <2>2, <2>3
<1> QED BY <1>1, <1>3, <1>4, <1>5 DEF Take

LEMMA RecvRoleLog ==
  ASSUME TypeOK, NEW p \in Runs, RecvRole(p), got[p] = <<>>
  PROVE  \E k \in 0..Len(Log(p)) : Shrinks(p, k)
<1>0. net \in [Runs -> Seq(Line)] /\ got \in [Runs -> Seq(Line)]
  BY DEF TypeOK
<1>1. Log(p) = net[p]
  BY <1>0, ConcatEmptySeq DEF Log
<1>2. PICK k \in 0..Len(net[p]) :
        /\ net' = [net EXCEPT ![p] = SubSeq(net[p], k + 1, Len(net[p]))]
        /\ lost' = lost \cup {net[p][j] : j \in 1..k}
        /\ got' = got
  BY DEF RecvRole, known
<1>3. net'[p] \in Seq(Line)
  <2>1. net' \in [Runs -> Seq(Line)]
    BY RecvRoleFits
  <2> QED BY <2>1
<1>4. Log(p)' = net'[p]
  BY <1>2, <1>3, ConcatEmptySeq DEF Log
<1>5. Shrinks(p, k)
  BY <1>0, <1>1, <1>2, <1>4 DEF Shrinks, Log
<1> QED BY <1>1, <1>5

-----------------------------------------------------------------------------
(* Seats.  A run that is up sits in the slot of its role; it has a partner *)
(* if it offers; nothing is sent to a run that was not started.            *)

Seat(p) == IF role[p] = 2 THEN 0 ELSE 1

Unsent == {"out", "role", "start"}

SeatInv ==
  /\ \A p \in Runs :
       /\ pc[p] = "out" => role[p] = 0 /\ net[p] = <<>>
       /\ pc[p] \in {"out", "role"} => got[p] = <<>>
       /\ pc[p] \notin {"out", "done"} => role[p] \in {1, 2} /\ slots[Seat(p)] = p
       /\ pc[p] = "answer" => role[p] = 2
       /\ pc[p] \in Unsent => juice[p] = "quiet"
       /\ juice[p] # "quiet" => role[p] \in {1, 2}
       /\ role[p] = 1 => \E q \in Runs : q # p /\ pc[q] # "out"
  /\ \A i \in Slots : slots[i] # NoRun => role[slots[i]] = RoleForSlot(i)

\* q has handled the offer of r, who is p or has ended since.
Answers(q, r, p) ==
  /\ r \in Runs
  /\ Handled(q, "offer", r)
  /\ r = p \/ pc[r] = "done"

\* Every line of a log comes from another run that was started.  An offer is
\* of an offerer and for an answerer, an answer for an offerer.
LineOK(p, l) ==
  /\ l.from # p /\ pc[l.from] # "out"
  /\ l.kind = "offer" =>
       role[p] = 2 /\ role[l.from] = 1 /\ pc[l.from] \notin Unsent
  /\ l.kind = "answer" => role[p] = 1 /\ Answers(l.from, l.for, p)

LineInv == \A p \in Runs : \A k \in 1..Len(Log(p)) : LineOK(p, Log(p)[k])

\* Types of what SeatInv speaks about.
SeatType ==
  /\ pc \in [Runs -> {"out", "role", "start", "loop", "answer", "asleep",
                   "done"}]
  /\ role \in [Runs -> 0..2]
  /\ slots \in [Slots -> Runs \cup {NoRun}]
  /\ juice \in [Runs -> {"quiet", "gathering", "sending", "gathered"}]
  /\ net \in [Runs -> Seq(Line)] /\ got \in [Runs -> Seq(Line)]
  /\ NoRun \notin Runs

LEMMA SeatTyped == TypeOK => SeatType
BY DEF TypeOK, SeatType, NoRun, Runs

LEMMA SeatInit == Init => SeatInv
BY DEF Init, SeatInv, Unsent

\* The partner of a run that is up has the other role, so it is another run,
\* and was started.
LEMMA PartnerApart ==
  ASSUME SeatType, SeatInv, NEW p \in Runs, pc[p] \notin {"out", "done"},
         Partner(p) # NoRun
  PROVE  /\ Partner(p) \in Runs /\ Partner(p) # p
         /\ pc[Partner(p)] # "out"
         /\ role[Partner(p)] = 3 - role[p]
<1> USE DEF SeatType, SeatInv, Slots, RoleForSlot, Seat
<1>1. CASE role[p] = 2
  <2>1. slots[0] = p /\ Partner(p) = slots[1] /\ slots[1] \in Runs
    BY <1>1 DEF Partner
  <2>2. role[slots[1]] = 1
    BY <2>1
  <2> QED BY <1>1, <2>1, <2>2
<1>2. CASE role[p] = 1
  <2>1. slots[1] = p
    BY <1>2
  <2>2. slots[0] # p
    BY <1>2
  <2>3. Partner(p) = slots[0] /\ slots[0] \in Runs
    BY <2>2 DEF Partner
  <2>4. role[slots[0]] = 2
    BY <2>3
  <2> QED BY <1>2, <2>2, <2>3, <2>4
<1> QED BY <1>1, <1>2

\* A send leaves the lines of a run that was not started as they are.
LEMMA SendSkipsOut ==
  ASSUME SeatType, SeatInv, NEW p \in Runs, pc[p] \notin {"out", "done"},
         NEW kind, Send(p, kind)
  PROVE  /\ \A d \in Runs : pc[d] = "out" => net'[d] = net[d]
         /\ UNCHANGED slots
<1>1. CASE Partner(p) = NoRun
  BY <1>1 DEF Send
<1>2. CASE Partner(p) # NoRun
  <2>1. pc[Partner(p)] # "out"
    BY <1>2, PartnerApart
  <2> QED BY <2>1 DEF Send, SeatType
<1> QED BY <1>1, <1>2

LEMMA SeatStep == TypeOK /\ SeatInv /\ LineInv /\ [Next]_vars => SeatInv'
<1> SUFFICES ASSUME TypeOK, SeatInv, LineInv, [Next]_vars PROVE SeatInv'
  OBVIOUS
<1>0. SeatType
  BY SeatTyped
<1>1. ASSUME NEW p \in Runs, NEW i \in Slots, Join(p, i) PROVE SeatInv'
  <2>1. /\ pc[p] = "out" /\ pc' = [pc EXCEPT ![p] = "role"]
        /\ slots[i] = NoRun /\ slots' = [slots EXCEPT ![i] = p]
        /\ role' = [role EXCEPT ![p] = RoleForSlot(i)]
        /\ UNCHANGED <<net, got, juice>>
        /\ i = 1 => slots[0] # NoRun
    BY <1>1 DEF Join, Goto, agent, known
  <2>2. role[p] = 0 /\ got[p] = <<>> /\ juice[p] = "quiet"
    BY <2>1 DEF SeatInv, Unsent
  <2>3. \A j \in Slots : slots[j] # p
    <3>1. p # NoRun
      BY <1>0 DEF SeatType
    <3>2. \A j \in Slots : slots[j] # NoRun => role[slots[j]] \in {1, 2}
      BY DEF SeatInv, RoleForSlot
    <3> QED BY <2>2, <3>1, <3>2
  <2>4. i \in {0, 1}
    BY DEF Slots
  <2>5. ASSUME NEW d \in Runs, role'[d] = 1
        PROVE  \E q \in Runs : q # d /\ pc'[q] # "out"
    <3>1. CASE d = p
      <4>1. i = 1 /\ slots[0] \in Runs
        BY <1>0, <2>1, <2>4, <2>5, <3>1 DEF SeatType, RoleForSlot, Slots
      <4>2. role[slots[0]] = 2
        BY <1>0, <4>1 DEF SeatInv, SeatType, RoleForSlot, Slots
      <4>3. pc[slots[0]] # "out" /\ slots[0] # p
        BY <1>0, <2>2, <4>1, <4>2 DEF SeatInv
      <4> QED BY <1>0, <2>1, <3>1, <4>1, <4>3 DEF SeatType
    <3>2. CASE d # p
      <4>1. role[d] = 1
        BY <1>0, <2>1, <2>5, <3>2 DEF SeatType
      <4>2. PICK q \in Runs : q # d /\ pc[q] # "out"
        BY <4>1 DEF SeatInv
      <4> QED BY <1>0, <2>1, <4>2 DEF SeatType
    <3> QED BY <3>1, <3>2
  <2>6. \A j \in Slots : slots'[j] # NoRun => role'[slots'[j]] = RoleForSlot(j)
    BY <1>0, <2>1, <2>3 DEF SeatInv, SeatType
  <2>7. ASSUME NEW d \in Runs
        PROVE  /\ pc'[d] = "out" => role'[d] = 0 /\ net'[d] = <<>>
               /\ pc'[d] \in {"out", "role"} => got'[d] = <<>>
               /\ pc'[d] \notin {"out", "done"} =>
                    role'[d] \in {1, 2} /\ slots'[Seat(d)'] = d
               /\ pc'[d] = "answer" => role'[d] = 2
               /\ pc'[d] \in Unsent => juice'[d] = "quiet"
               /\ juice'[d] # "quiet" => role'[d] \in {1, 2}
    <3>1. CASE d = p
      <4>1. pc'[d] = "role" /\ role'[d] = RoleForSlot(i) /\ slots'[i] = d
        BY <1>0, <2>1, <3>1 DEF SeatType
      <4>2. role'[d] \in {1, 2} /\ Seat(d)' = i
        BY <2>4, <4>1 DEF RoleForSlot, Seat
      <4> QED BY <1>0, <2>1, <2>2, <3>1, <4>1, <4>2 DEF SeatType
    <3>2. CASE d # p
      <4>1. pc'[d] = pc[d] /\ role'[d] = role[d] /\ Seat(d)' = Seat(d)
            /\ Seat(d) \in Slots
        BY <1>0, <2>1, <3>2 DEF SeatType, Seat, Slots
      <4>2. pc[d] \notin {"out", "done"} => Seat(d) # i
        BY <1>0, <2>1 DEF SeatInv, SeatType
      <4> QED BY <1>0, <2>1, <3>2, <4>1, <4>2 DEF SeatInv, SeatType
    <3> QED BY <3>1, <3>2
  <2> QED BY <2>5, <2>6, <2>7 DEF SeatInv
<1>2. ASSUME NEW p \in Runs, JoinFails(p) \/ Exit(p) PROVE SeatInv'
  <2>1. /\ pc' = [pc EXCEPT ![p] = "done"]
        /\ UNCHANGED <<role, slots, net, got, juice>>
    BY <1>2 DEF JoinFails, Exit, Goto, server, agent, known
  <2> QED BY <1>0, <2>1 DEF SeatInv, SeatType, Seat, Unsent
<1>3. ASSUME NEW i \in Slots, RemovePeer(i) PROVE SeatInv'
  <2>1. /\ slots[i] # NoRun /\ pc[slots[i]] = "done"
        /\ slots' = [slots EXCEPT ![i] = NoRun]
        /\ UNCHANGED <<pc, role, net, got, juice>>
    BY <1>3 DEF RemovePeer, agent, known
  <2>2. ASSUME NEW d \in Runs, pc[d] \notin {"out", "done"}
        PROVE  slots'[Seat(d)'] = d
    <3>1. slots[Seat(d)] = d /\ Seat(d) # i /\ Seat(d)' = Seat(d) /\ Seat(d) \in Slots
      BY <1>0, <2>1, <2>2 DEF SeatInv, Seat, Slots
    <3> QED BY <1>0, <2>1, <3>1 DEF SeatType
  <2>3. \A j \in Slots : slots'[j] # NoRun => role'[slots'[j]] = RoleForSlot(j)
    BY <1>0, <2>1 DEF SeatInv, SeatType
  <2> QED BY <2>1, <2>2, <2>3 DEF SeatInv
<1>4. ASSUME NEW p \in Runs, RecvRole(p) PROVE SeatInv'
  <2>1. /\ pc[p] = "role" /\ pc' = [pc EXCEPT ![p] = "start"]
        /\ \A d \in Runs : d # p => net'[d] = net[d]
        /\ UNCHANGED <<role, slots, got, juice>>
    BY <1>0, <1>4 DEF RecvRole, Goto, agent, known, SeatType
  <2> QED BY <1>0, <2>1 DEF SeatInv, SeatType, Seat, Unsent
<1>5. ASSUME NEW p \in Runs,
             SendOffer(p) \/ SendAnswer(p) \/ SendCandidate(p) \/ SendGatheringDone(p)
      PROVE  SeatInv'
  <2>1. /\ pc[p] \notin {"out", "done"}
        /\ \E kind : Send(p, kind)
        /\ \/ pc[p] \in {"start", "answer"} /\ pc' = [pc EXCEPT ![p] = "loop"]
           \/ pc' = pc
        /\ \/ juice' = juice
           \/ /\ pc[p] \notin Unsent
              /\ juice' = [juice EXCEPT ![p] = juice'[p]]
              /\ juice'[p] # "quiet"
        /\ UNCHANGED <<role, got>>
    <3>1. CASE SendOffer(p)
      BY <3>1 DEF SendOffer, Goto, agent, known
    <3>2. CASE SendAnswer(p)
      BY <1>0, <3>2 DEF SendAnswer, Gather, Goto, known, SeatType, Unsent
    <3>3. CASE SendCandidate(p)
      BY <1>0, <3>3 DEF SendCandidate, known, SeatType, SeatInv, Unsent
    <3>4. CASE SendGatheringDone(p)
      BY <1>0, <3>4 DEF SendGatheringDone, known, SeatType, SeatInv, Unsent
    <3> QED BY <1>5, <3>1, <3>2, <3>3, <3>4
  <2>2. (\A d \in Runs : pc[d] = "out" => net'[d] = net[d]) /\ UNCHANGED slots
    BY <1>0, <2>1, SendSkipsOut
  <2> QED BY <1>0, <2>1, <2>2 DEF SeatInv, SeatType, Seat, Unsent
<1>6. ASSUME NEW p \in Runs, OnOffer(p) \/ OnAnswer(p) \/ OnCandidate(p)
      PROVE  SeatInv'
  <2>0. OnOffer(p) => role[p] = 2
    <3> SUFFICES ASSUME OnOffer(p) PROVE role[p] = 2
      OBVIOUS
    <3>1. Take(p, {"offer"})
      BY DEF OnOffer
    <3>2. \E k \in 1..Len(Log(p)) : Log(p)[k].kind = "offer"
      BY <3>1, TakeLog
    <3> QED BY <3>2 DEF LineInv, LineOK
  <2>1. /\ pc[p] = "loop"
        /\ \/ pc' = [pc EXCEPT ![p] = "answer"] /\ role[p] = 2
           \/ pc' = pc
        /\ \/ juice' = juice
           \/ juice' = [juice EXCEPT ![p] = juice'[p]]
        /\ \A d \in Runs : d # p => net'[d] = net[d] /\ got'[d] = got[d]
        /\ UNCHANGED <<role, slots>>
    <3>1. CASE OnOffer(p)
      BY <1>0, <2>0, <3>1 DEF OnOffer, Take, Goto, agent, SeatType
    <3>2. CASE OnAnswer(p)
      BY <1>0, <3>2 DEF OnAnswer, Take, Gather, SeatType
    <3>3. CASE OnCandidate(p)
      BY <1>0, <3>3 DEF OnCandidate, Take, agent, SeatType
    <3> QED BY <1>6, <3>1, <3>2, <3>3
  <2> QED BY <1>0, <2>1 DEF SeatInv, SeatType, Seat, Unsent
<1>7. ASSUME NEW p \in Runs, AwaitOffer(p) \/ SendBegins(p) \/ Sleep(p)
      PROVE  SeatInv'
  <2>1. /\ pc[p] # "out"
        /\ \/ pc[p] = "start" /\ pc' = [pc EXCEPT ![p] = "loop"]
           \/ pc[p] = "loop" /\ pc' = [pc EXCEPT ![p] = "asleep"]
           \/ pc' = pc
        /\ \/ juice' = juice
           \/ juice[p] # "quiet" /\ juice' = [juice EXCEPT ![p] = "sending"]
        /\ UNCHANGED <<role, slots, net, got>>
    BY <1>0, <1>7 DEF AwaitOffer, SendBegins, Sleep, Goto, server, agent,
                      known, SeatType, SeatInv, Unsent
  <2> QED BY <1>0, <2>1 DEF SeatInv, SeatType, Seat, Unsent
<1>8. CASE UNCHANGED vars
  BY <1>8 DEF vars, server, agent, known, SeatInv, Seat
<1> QED BY <1>1, <1>2, <1>3, <1>4, <1>5, <1>6, <1>7, <1>8
        DEF Next, Environment, MainThread, JuiceThread

-----------------------------------------------------------------------------
(* Lines.  What a step does to the logs, and what is never taken back.     *)

\* A thread of q sends a line.
Sends(q, kind) ==
  /\ pc[q] \notin {"out", "done"}
  /\ kind = "offer" => role[q] = 1 /\ pc[q] = "start" /\ pc'[q] = "loop"
  /\ kind = "answer" => pc[q] = "answer"
  /\ kind \in {"candidate", "gathering_done"} => juice[q] = "sending"
  /\ \/ /\ lost' = lost
        /\ \E to \in Runs : /\ to = Partner(q)
                            /\ Grows(to, LineOf(q, kind))
     \/ /\ lost' = lost \cup {LineOf(q, kind)}
        /\ SameLogs

Effects ==
  \/ SameLogs /\ lost' = lost
  \/ \E q \in Runs, kind \in Kinds : Sends(q, kind)
  \/ \E p \in Runs : \E k \in 0..Len(Log(p)) : Shrinks(p, k)

LEMMA NextEffects ==
  ASSUME TypeOK, SeatInv, [Next]_vars
  PROVE  Effects
<1>1. ASSUME NEW p \in Runs, NEW i \in Slots, Join(p, i) PROVE Effects
  BY <1>1 DEF Join, known, SameLogs, Log, Effects
<1>2. ASSUME NEW p \in Runs, JoinFails(p) \/ Exit(p) PROVE Effects
  BY <1>2 DEF JoinFails, Exit, server, known, SameLogs, Log, Effects
<1>3. ASSUME NEW i \in Slots, RemovePeer(i) PROVE Effects
  BY <1>3 DEF RemovePeer, known, SameLogs, Log, Effects
<1>4. ASSUME NEW p \in Runs, RecvRole(p) PROVE Effects
  <2>1. got[p] = <<>>
    BY <1>4 DEF RecvRole, Goto, SeatInv
  <2> QED BY <1>4, <2>1, RecvRoleLog DEF Effects
<1>5. ASSUME NEW p \in Runs, SendOffer(p) PROVE Effects
  <2>1. /\ Send(p, "offer") /\ got' = got /\ "offer" \in Kinds
        /\ role[p] = 1 /\ pc[p] = "start" /\ pc'[p] = "loop"
    BY <1>5, SeatTyped DEF SendOffer, Goto, known, Kinds, SeatType
  <2>2. Sends(p, "offer")
    BY <2>1, SendLog DEF Sends
  <2> QED BY <2>1, <2>2 DEF Effects
<1>6. ASSUME NEW p \in Runs, SendAnswer(p) PROVE Effects
  <2>1. /\ Send(p, "answer") /\ got' = got /\ "answer" \in Kinds
        /\ pc[p] = "answer"
    BY <1>6 DEF SendAnswer, Goto, known, Kinds
  <2>2. Sends(p, "answer")
    BY <2>1, SendLog DEF Sends
  <2> QED BY <2>1, <2>2 DEF Effects
<1>7. ASSUME NEW p \in Runs, SendCandidate(p) \/ SendGatheringDone(p)
      PROVE  Effects
  <2>1. PICK kind \in {"candidate", "gathering_done"} :
          Send(p, kind) /\ got' = got /\ juice[p] = "sending" /\ pc[p] # "done"
    BY <1>7 DEF SendCandidate, SendGatheringDone, known
  <2>2. kind \in Kinds /\ pc[p] # "out"
    BY <2>1 DEF Kinds, SeatInv, Unsent
  <2>3. Sends(p, kind)
    BY <2>1, <2>2, SendLog DEF Sends
  <2> QED BY <2>2, <2>3 DEF Effects
<1>8. ASSUME NEW p \in Runs, OnOffer(p) \/ OnAnswer(p) \/ OnCandidate(p)
      PROVE  Effects
  <2>1. PICK kinds : Take(p, kinds)
    BY <1>8 DEF OnOffer, OnAnswer, OnCandidate
  <2> QED BY <2>1, TakeLog DEF Effects
<1>9. ASSUME NEW p \in Runs, AwaitOffer(p) \/ SendBegins(p) \/ Sleep(p)
      PROVE  Effects
  BY <1>9 DEF AwaitOffer, SendBegins, Sleep, server, known, SameLogs, Log,
              Effects
<1>10. CASE UNCHANGED vars
  BY <1>10 DEF vars, server, known, SameLogs, Log, Effects
<1> QED BY <1>1, <1>2, <1>3, <1>4, <1>5, <1>6, <1>7, <1>8, <1>9, <1>10
        DEF Next, Environment, MainThread, JuiceThread

\* Lines that were handled, position by position.
LEMMA HandledAt ==
  ASSUME TypeOK, NEW p \in Runs, NEW kind, NEW q
  PROVE  Handled(p, kind, q) <=>
           \E k \in 1..Len(got[p]) :
             got[p][k].kind = kind /\ got[p][k].from = q
<1>1. Range(got[p]) = {got[p][k] : k \in 1..Len(got[p])}
  BY RangeEquality DEF TypeOK
<1> QED BY <1>1 DEF Handled

\* A step handles one more line, or none.
LEMMA NextHandles ==
  ASSUME TypeOK, [Next]_vars
  PROVE  \/ got' = got
         \/ \E p \in Runs :
              /\ OnOffer(p) \/ OnAnswer(p) \/ OnCandidate(p)
              /\ got' = [got EXCEPT ![p] = Append(@, Head(net[p]))]
              /\ Head(net[p]) \in Line
<1>1. ASSUME NEW p \in Runs, NEW kinds, Take(p, kinds)
      PROVE  /\ got' = [got EXCEPT ![p] = Append(@, Head(net[p]))]
             /\ Head(net[p]) \in Line
  BY <1>1, TakeFits DEF Take
<1> QED
  BY <1>1 DEF Next, Environment, MainThread, JuiceThread, Join, JoinFails, Exit,
              RemovePeer, RecvRole, SendOffer, AwaitOffer, OnOffer, SendAnswer,
              OnAnswer, OnCandidate, Sleep, SendBegins, SendCandidate,
              SendGatheringDone, known, vars

\* A run that was started stays started and keeps its role, one that sent its
\* offer has sent it, and what was handled was handled.
LEMMA Monotone ==
  ASSUME TypeOK, [Next]_vars, NEW p \in Runs
  PROVE  /\ pc[p] # "out" => pc'[p] # "out" /\ role'[p] = role[p]
         /\ pc[p] \notin Unsent => pc'[p] \notin Unsent
         /\ \A kind, q : Handled(p, kind, q) => Handled(p, kind, q)'
<1>1. /\ pc[p] # "out" => pc'[p] # "out" /\ role'[p] = role[p]
      /\ pc[p] \notin Unsent => pc'[p] \notin Unsent
  BY SeatTyped
     DEF SeatType, Next, Environment, MainThread, JuiceThread, Join, JoinFails,
         Exit, RemovePeer, RecvRole, SendOffer, AwaitOffer, OnOffer, SendAnswer,
         OnAnswer, OnCandidate, Sleep, SendBegins, SendCandidate,
         SendGatheringDone, vars, Goto, Unsent
<1>2. ASSUME NEW kind, NEW q, Handled(p, kind, q)
      PROVE  Handled(p, kind, q)'
  <2>0. TypeOK'
    BY TypeStep
  <2>1. got \in [Runs -> Seq(Line)]
    BY DEF TypeOK
  <2>2. PICK k \in 1..Len(got[p]) :
          got[p][k].kind = kind /\ got[p][k].from = q
    BY <1>2, HandledAt
  <2>3. k \in 1..Len(got'[p]) /\ got'[p][k] = got[p][k]
    <3>1. CASE got'[p] = got[p]
      BY <3>1
    <3>2. CASE \E l \in Line : got'[p] = Append(got[p], l)
      <4>1. PICK l \in Line : got'[p] = Append(got[p], l)
        BY <3>2
      <4>2. /\ Len(got'[p]) = Len(got[p]) + 1 /\ Len(got[p]) \in Nat
            /\ \A i \in 1..Len(got[p]) : got'[p][i] = got[p][i]
        BY <2>1, <4>1, AppendProperties
      <4> QED BY <4>2, Positions
    <3>3. got'[p] = got[p] \/ \E l \in Line : got'[p] = Append(got[p], l)
      BY <2>1, NextHandles
    <3> QED BY <3>1, <3>2, <3>3
  <2>4. Range(got'[p]) = {got'[p][i] : i \in 1..Len(got'[p])}
    BY <2>0, RangeEquality DEF TypeOK
  <2> QED BY <2>2, <2>3, <2>4 DEF Handled
<1> QED BY <1>1, <1>2

\* The log of one run across a step, position by position.
Extends(d, l) ==
  /\ Len(Log(d)') = Len(Log(d)) + 1
  /\ Log(d)'[Len(Log(d)) + 1] = l
  /\ \A j \in 1..Len(Log(d)) : Log(d)'[j] = Log(d)[j]

Drops(d, n) ==
  /\ Len(Log(d)') = Len(Log(d)) - n
  /\ \A j \in 1..Len(Log(d)') : j + n \in 1..Len(Log(d))
                                /\ Log(d)'[j] = Log(d)[j + n]
  /\ n # 0 => lost' # {}

LEMMA LogAcross ==
  ASSUME TypeOK, Effects, NEW d \in Runs
  PROVE  \/ Log(d)' = Log(d)
         \/ \E q \in Runs, kind \in Kinds :
              /\ Sends(q, kind) /\ d = Partner(q) /\ d # NoRun
              /\ lost' = lost
              /\ Extends(d, LineOf(q, kind))
         \/ \E n \in 0..Len(Log(d)) : Drops(d, n)
<1>0. Log(d) \in Seq(Line) /\ Len(Log(d)) \in Nat
  BY LogType
<1>1. ASSUME NEW l \in Line, Grows(d, l)
      PROVE  Extends(d, l)
  BY <1>0, <1>1, AppendProperties DEF Grows, Extends
<1>2. ASSUME NEW n \in 0..Len(Log(d)), Shrinks(d, n)
      PROVE  Drops(d, n)
  <2>1. Log(d)' = SubSeq(Log(d), n + 1, Len(Log(d)))
    BY <1>2 DEF Shrinks
  <2>2. \A i \in (n + 1)..Len(Log(d)) : Log(d)[i] \in Line
    BY <1>0
  <2>3. /\ Len(Log(d)') = IF n + 1 <= Len(Log(d)) THEN Len(Log(d)) - (n + 1) + 1
                          ELSE 0
        /\ \A i \in 1..(Len(Log(d)) - (n + 1) + 1) :
             Log(d)'[i] = Log(d)[(n + 1) + i - 1]
    <3>1. n + 1 \in Int /\ Len(Log(d)) \in Int
      BY <1>0
    <3> QED BY <2>1, <2>2, <3>1, SubSeqProperties
  <2>4. Len(Log(d)') = Len(Log(d)) - n
    BY <1>0, <2>3
  <2>5. ASSUME NEW j \in 1..Len(Log(d)')
        PROVE  j + n \in 1..Len(Log(d)) /\ Log(d)'[j] = Log(d)[j + n]
    <3>1. /\ j \in 1..(Len(Log(d)) - (n + 1) + 1)
          /\ (n + 1) + j - 1 = j + n
          /\ j + n \in 1..Len(Log(d))
      BY <1>0, <2>4, <2>5
    <3> QED BY <2>3, <3>1
  <2>6. ASSUME n # 0 PROVE lost' # {}
    <3>1. 1 \in 1..n
      BY <1>0, <2>6
    <3> QED BY <1>2, <3>1 DEF Shrinks
  <2> QED BY <2>4, <2>5, <2>6 DEF Drops
<1>3. ASSUME NEW q \in Runs, NEW kind \in Kinds, Sends(q, kind),
             Log(d)' # Log(d)
      PROVE  /\ d = Partner(q) /\ d # NoRun /\ lost' = lost
             /\ Extends(d, LineOf(q, kind))
  <2>1. /\ d = Partner(q) /\ lost' = lost
        /\ Grows(d, LineOf(q, kind))
    BY <1>3 DEF Sends, Grows, SameLogs
  <2>2. LineOf(q, kind) \in Line /\ d # NoRun
    BY SeatTyped, LineType DEF SeatType
  <2> QED BY <1>1, <2>1, <2>2
<1>4. ASSUME NEW p \in Runs, NEW n \in 0..Len(Log(p)), Shrinks(p, n),
             Log(d)' # Log(d)
      PROVE  d = p
  BY <1>4 DEF Shrinks
<1> QED BY <1>2, <1>3, <1>4 DEF Effects, SameLogs

\* A line of a log was there before the step, or was sent by it.
LEMMA WhereFrom ==
  ASSUME TypeOK, Effects, NEW d \in Runs, NEW k \in 1..Len(Log(d)')
  PROVE  \/ \E j \in 1..Len(Log(d)) : Log(d)'[k] = Log(d)[j]
         \/ \E q \in Runs, kind \in Kinds :
              /\ Sends(q, kind) /\ d = Partner(q) /\ d # NoRun
              /\ Log(d)'[k] = LineOf(q, kind)
<1>0. Len(Log(d)) \in Nat
  BY LogType
<1>1. ASSUME NEW l, Extends(d, l)
      PROVE  \/ \E j \in 1..Len(Log(d)) : Log(d)'[k] = Log(d)[j]
             \/ Log(d)'[k] = l
  <2>1. k \in 1..Len(Log(d)) \/ k = Len(Log(d)) + 1
    BY <1>0, <1>1 DEF Extends
  <2> QED BY <1>1, <2>1 DEF Extends
<1>2. ASSUME NEW n \in 0..Len(Log(d)), Drops(d, n)
      PROVE  \E j \in 1..Len(Log(d)) : Log(d)'[k] = Log(d)[j]
  BY <1>2 DEF Drops
<1> QED BY <1>1, <1>2, LogAcross

\* A run that is about to answer has handled the offer it answers, and one
\* whose agent gathers has handled an offer; the agent of one that is about to
\* answer gathers already only if it has handled the offer of another run than
\* the one it answers.
AnswerInv ==
  \A p \in Runs :
    /\ pc[p] = "answer" => remote[p] \in Runs /\ Handled(p, "offer", remote[p])
    /\ role[p] = 2 /\ juice[p] # "quiet" =>
         \E q \in Runs : /\ Handled(p, "offer", q)
                         /\ pc[p] = "answer" => remote[p] # q

\* An offer that was handled stays handled, and who has ended stays away.
LEMMA AnswersStay ==
  ASSUME TypeOK, [Next]_vars, NEW q \in Runs, NEW r, NEW p \in Runs,
         Answers(q, r, p)
  PROVE  Answers(q, r, p)'
<1>1. r \in Runs /\ Handled(q, "offer", r) /\ (r = p \/ pc[r] = "done")
  BY DEF Answers
<1>2. Handled(q, "offer", r)'
  BY <1>1, Monotone
<1>3. pc[r] = "done" => pc'[r] = "done"
  BY <1>1, SeatTyped
     DEF SeatType, Next, Environment, MainThread, JuiceThread, Join, JoinFails,
         Exit, RemovePeer, RecvRole, SendOffer, AwaitOffer, OnOffer, SendAnswer,
         OnAnswer, OnCandidate, Sleep, SendBegins, SendCandidate,
         SendGatheringDone, vars, Goto
<1> QED BY <1>1, <1>2, <1>3 DEF Answers

\* The offer that a run is about to answer is that of the run in the other
\* slot, or of one that has ended: an offerer keeps its slot for as long as it
\* is there.
LEMMA PartnerAnswered ==
  ASSUME TypeOK, SeatInv, LineInv, AnswerInv,
         NEW q \in Runs, pc[q] = "answer", NEW d \in Runs, d = Partner(q)
  PROVE  Answers(q, remote[q], d)
<1>1. PICK r \in Runs : r = remote[q] /\ Handled(q, "offer", r)
  BY DEF AnswerInv
<1>2. PICK k \in 1..Len(Log(q)) : Log(q)[k].kind = "offer" /\ Log(q)[k].from = r
  BY <1>1, HandledInLog
<1>3. role[r] = 1 /\ pc[r] # "out" /\ r # q
  BY <1>2 DEF LineInv, LineOK
<1>4. role[q] = 2 /\ slots[0] = q
  BY DEF SeatInv, Seat
<1>5. d = slots[1]
  BY <1>4 DEF Partner
<1>6. pc[r] = "done" \/ slots[1] = r
  BY <1>3 DEF SeatInv, Seat
<1> QED BY <1>1, <1>5, <1>6 DEF Answers

LEMMA LineStep ==
  TypeOK /\ SeatInv /\ LineInv /\ AnswerInv /\ [Next]_vars => LineInv'
<1> SUFFICES ASSUME TypeOK, SeatInv, LineInv, AnswerInv, [Next]_vars,
                    NEW d \in Runs, NEW k \in 1..Len(Log(d)'),
                    NEW l, l = Log(d)'[k]
             PROVE  LineOK(d, l)'
  BY DEF LineInv
<1>0. SeatType /\ Effects
  BY SeatTyped, NextEffects
<1>1. ASSUME NEW j \in 1..Len(Log(d)), l = Log(d)[j]
      PROVE  LineOK(d, l)'
  <2>1. l.from \in Runs /\ LineOK(d, l)
    BY <1>1, LogType DEF Line, LineInv
  <2>2. pc[d] # "out"
    <3> SUFFICES ASSUME pc[d] = "out" PROVE FALSE
      OBVIOUS
    <3>1. Len(got[d]) = 0 /\ Len(net[d]) = 0
      BY DEF SeatInv
    <3>2. Len(Log(d)) = Len(got[d]) + Len(net[d])
      BY LogElements
    <3>3. Len(Log(d)) = 0
      BY <3>1, <3>2
    <3> QED BY <1>1, <3>3
  <2>3. /\ role'[d] = role[d]
        /\ pc'[l.from] # "out"
        /\ pc[l.from] \notin Unsent => pc'[l.from] \notin Unsent
        /\ role'[l.from] = role[l.from]
    BY <2>1, <2>2, Monotone DEF LineOK
  <2>4. Answers(l.from, l.for, d) => Answers(l.from, l.for, d)'
    BY <2>1, AnswersStay
  <2> QED BY <2>1, <2>3, <2>4 DEF LineOK
<1>2. ASSUME NEW q \in Runs, NEW kind \in Kinds, Sends(q, kind),
             d = Partner(q), d # NoRun,
             l = LineOf(q, kind)
      PROVE  LineOK(d, l)'
  <2>1. /\ pc[q] \notin {"out", "done"} /\ d # q
        /\ pc[d] # "out" /\ role[d] = 3 - role[q]
    BY <1>0, <1>2, PartnerApart DEF Sends
  <2>2. role'[d] = role[d] /\ pc'[q] # "out"
    BY <2>1, Monotone
  <2>3. kind = "offer" =>
          role'[d] = 2 /\ role'[q] = 1 /\ pc'[q] \notin Unsent
    BY <1>2, <2>1, <2>2, Monotone DEF Sends, Unsent
  <2>4. ASSUME kind = "answer"
        PROVE  role'[d] = 1 /\ Answers(q, l.for, d)'
    <3>1. pc[q] = "answer" /\ role[q] = 2
      BY <1>2, <2>4 DEF Sends, SeatInv
    <3>2. Answers(q, l.for, d)
      BY <1>0, <1>2, <3>1, PartnerAnswered DEF LineOf
    <3>3. Answers(q, l.for, d)'
      BY <3>2, AnswersStay
    <3> QED BY <2>1, <2>2, <3>1, <3>3
  <2>5. l.kind = kind /\ l.from = q
    BY <1>2 DEF LineOf
  <2> QED BY <1>2, <2>1, <2>2, <2>3, <2>4, <2>5 DEF LineOK
<1> QED BY <1>0, <1>1, <1>2, WhereFrom

\* A log has one offer of a run at most: a run sends its offer before it enters
\* its loop, and never again.
SameOffer(l, m) == l.kind = "offer" /\ m.kind = "offer" /\ l.from = m.from

OnceInv ==
  \A p \in Runs : \A j, k \in 1..Len(Log(p)) :
    SameOffer(Log(p)[j], Log(p)[k]) => j = k

LEMMA OnceStep ==
  TypeOK /\ SeatInv /\ LineInv /\ OnceInv /\ [Next]_vars => OnceInv'
<1> SUFFICES ASSUME TypeOK, SeatInv, LineInv, OnceInv, [Next]_vars,
                    NEW d \in Runs,
                    NEW j \in 1..Len(Log(d)'), NEW k \in 1..Len(Log(d)'),
                    SameOffer(Log(d)'[j], Log(d)'[k])
             PROVE  j = k
  BY DEF OnceInv, SameOffer
<1>0. Effects /\ Len(Log(d)) \in Nat
  BY NextEffects, LogType
<1>1. CASE Log(d)' = Log(d)
  BY <1>1 DEF OnceInv
<1>2. ASSUME NEW q \in Runs, NEW kind \in Kinds, Sends(q, kind),
             Extends(d, LineOf(q, kind))
      PROVE  j = k
  <2> DEFINE n == Len(Log(d))
  <2>1. (j \in 1..n \/ j = n + 1) /\ (k \in 1..n \/ k = n + 1)
    BY <1>0, <1>2 DEF Extends
  <2>2. ASSUME NEW i \in 1..n,
               SameOffer(Log(d)[i], LineOf(q, kind))
                 \/ SameOffer(LineOf(q, kind), Log(d)[i])
        PROVE  FALSE
    <3>1. kind = "offer" /\ Log(d)[i].kind = "offer" /\ Log(d)[i].from = q
      BY <2>2 DEF SameOffer, LineOf
    <3>2. pc[q] \notin Unsent
      BY <3>1 DEF LineInv, LineOK
    <3> QED BY <1>2, <3>1, <3>2 DEF Sends, Unsent
  <2>3. CASE j \in 1..n /\ k \in 1..n
    BY <1>2, <2>3 DEF Extends, OnceInv
  <2>4. CASE j \in 1..n /\ k = n + 1
    BY <1>2, <2>2, <2>4 DEF Extends
  <2>5. CASE j = n + 1 /\ k \in 1..n
    BY <1>2, <2>2, <2>5 DEF Extends
  <2> QED BY <2>1, <2>3, <2>4, <2>5
<1>3. ASSUME NEW n \in 0..Len(Log(d)), Drops(d, n)
      PROVE  j = k
  <2>1. j + n \in 1..Len(Log(d)) /\ k + n \in 1..Len(Log(d))
        /\ SameOffer(Log(d)[j + n], Log(d)[k + n])
    BY <1>3 DEF Drops
  <2>2. j + n = k + n
    BY <2>1 DEF OnceInv
  <2>3. j \in Nat /\ k \in Nat /\ n \in Nat
    BY <1>0, <1>3 DEF Drops
  <2> QED BY <2>2, <2>3
<1> QED BY <1>0, <1>1, <1>2, <1>3, LogAcross

LEMMA AnswerStep ==
  TypeOK /\ SeatInv /\ LineInv /\ OnceInv /\ AnswerInv /\ [Next]_vars
    => AnswerInv'
<1> SUFFICES ASSUME TypeOK, SeatInv, LineInv, OnceInv, AnswerInv, [Next]_vars
             PROVE  AnswerInv'
  OBVIOUS
<1>0. SeatType /\ TypeOK'
  BY SeatTyped, TypeStep
<1>1. ASSUME NEW d \in Runs,
             role'[d] = role[d],
             pc'[d] = "answer" => pc[d] = "answer" /\ remote'[d] = remote[d],
             juice'[d] # "quiet" /\ role[d] = 2 =>
               juice[d] # "quiet" \/ (pc[d] = "answer" /\ pc'[d] # "answer")
      PROVE  /\ pc'[d] = "answer" =>
                  remote'[d] \in Runs /\ Handled(d, "offer", remote[d])'
             /\ role'[d] = 2 /\ juice'[d] # "quiet" =>
                  \E q \in Runs : /\ Handled(d, "offer", q)'
                                  /\ pc'[d] = "answer" => remote'[d] # q
  <2>1. \A q : Handled(d, "offer", q) => Handled(d, "offer", q)'
    BY Monotone
  <2>2. CASE pc'[d] = "answer"
    BY <1>1, <2>1, <2>2 DEF AnswerInv
  <2>3. CASE pc'[d] # "answer"
    BY <1>1, <2>1, <2>3 DEF AnswerInv
  <2> QED BY <2>2, <2>3
<1>2. ASSUME NEW p \in Runs, OnOffer(p) PROVE AnswerInv'
  <2>1. /\ Take(p, {"offer"})
        /\ pc' = [pc EXCEPT ![p] = "answer"]
        /\ remote' = [remote EXCEPT ![p] = Head(net[p]).from]
        /\ UNCHANGED <<role, juice>>
    BY <1>2 DEF OnOffer, Goto, SetRemote, agent
  <2> DEFINE n == Len(got[p])
  <2>0. PICK o \in Runs : o = Head(net[p]).from
    BY <2>1, TakeFits
  <2>2. /\ Head(net[p]).kind = "offer" /\ Head(net[p]).from = o
        /\ n + 1 \in 1..Len(Log(p)) /\ Log(p)[n + 1] = Head(net[p])
        /\ n \in Nat
        /\ got'[p] = Append(got[p], Head(net[p])) /\ Head(net[p]) \in Line
    <3>1. Head(net[p]) \in Line /\ Head(net[p]).kind \in {"offer"}
      BY <2>1, TakeFits
    <3>2. Head(net[p]).kind = "offer" /\ Head(net[p]).from = o
      BY <2>0, <3>1
    <3>3. /\ n + 1 \in 1..Len(Log(p)) /\ Log(p)[n + 1] = Head(net[p])
          /\ got' = [got EXCEPT ![p] = Append(@, Head(net[p]))]
      BY <2>1, TakeLog
    <3>4. n \in Nat
      BY LogElements
    <3> QED BY <3>1, <3>2, <3>3, <3>4 DEF TypeOK
  <2>3. remote'[p] = o
    BY <2>0, <2>1 DEF TypeOK
  <2>4. ASSUME NEW q \in Runs, Handled(p, "offer", q) PROVE q # o
    <3>1. PICK k \in 1..n : k \in 1..Len(Log(p))
                            /\ Log(p)[k].kind = "offer" /\ Log(p)[k].from = q
      BY <2>4, HandledInLog
    <3>2. k # n + 1
      BY <2>2
    <3>3. ~SameOffer(Log(p)[k], Log(p)[n + 1])
      BY <2>2, <3>1, <3>2 DEF OnceInv
    <3> QED BY <2>2, <3>1, <3>3 DEF SameOffer
  <2>5. Handled(p, "offer", o)'
    <3>1. Len(got'[p]) = n + 1 /\ got'[p][n + 1] = Head(net[p])
      BY <2>2, AppendProperties DEF TypeOK
    <3>2. Range(got'[p]) = {got'[p][i] : i \in 1..Len(got'[p])}
      <4>1. got' \in [Runs -> Seq(Line)]
        BY <1>0 DEF TypeOK
      <4> QED BY <4>1, RangeEquality
    <3>3. n + 1 \in 1..Len(got'[p])
      BY <2>2, <3>1
    <3>4. Head(net[p]) \in Range(got'[p])
      BY <3>1, <3>2, <3>3
    <3> QED BY <2>2, <3>4 DEF Handled
  <2>6. ASSUME NEW d \in Runs
        PROVE  /\ pc'[d] = "answer" =>
                  remote'[d] \in Runs /\ Handled(d, "offer", remote[d])'
               /\ role'[d] = 2 /\ juice'[d] # "quiet" =>
                    \E q \in Runs : /\ Handled(d, "offer", q)'
                                    /\ pc'[d] = "answer" => remote'[d] # q
    <3>1. CASE d # p
      <4>1. pc'[d] = pc[d] /\ remote'[d] = remote[d] /\ role'[d] = role[d]
            /\ juice'[d] = juice[d]
        BY <1>0, <2>1, <3>1 DEF TypeOK
      <4> QED BY <1>1, <4>1
    <3>2. CASE d = p
      <4>1. ASSUME role[p] = 2, juice[p] # "quiet"
            PROVE  \E q \in Runs : Handled(p, "offer", q)' /\ remote'[p] # q
        <5>1. PICK q \in Runs : Handled(p, "offer", q)
          BY <4>1 DEF AnswerInv
        <5>2. Handled(p, "offer", q)'
          BY <5>1, Monotone
        <5> QED BY <2>3, <2>4, <5>1, <5>2
      <4>2. remote'[p] \in Runs /\ Handled(p, "offer", remote[p])'
        BY <2>3, <2>5 DEF Handled
      <4> QED BY <2>1, <3>2, <4>1, <4>2
    <3> QED BY <3>1, <3>2
  <2> QED BY <2>6 DEF AnswerInv
<1>3. ASSUME NEW p \in Runs, NEW i \in Slots, Join(p, i) PROVE AnswerInv'
  <2>1. /\ pc[p] = "out" /\ pc' = [pc EXCEPT ![p] = "role"]
        /\ role' = [role EXCEPT ![p] = RoleForSlot(i)]
        /\ UNCHANGED <<juice, remote>>
    BY <1>3 DEF Join, Goto, agent, known
  <2>2. juice[p] = "quiet"
    BY <2>1 DEF SeatInv, Unsent
  <2>3. ASSUME NEW d \in Runs
        PROVE  /\ pc'[d] = "answer" =>
                  remote'[d] \in Runs /\ Handled(d, "offer", remote[d])'
               /\ role'[d] = 2 /\ juice'[d] # "quiet" =>
                    \E q \in Runs : /\ Handled(d, "offer", q)'
                                    /\ pc'[d] = "answer" => remote'[d] # q
    <3>1. CASE d # p
      <4>1. pc'[d] = pc[d] /\ remote'[d] = remote[d] /\ role'[d] = role[d]
            /\ juice'[d] = juice[d]
        BY <1>0, <2>1, <3>1 DEF SeatType
      <4> QED BY <1>1, <4>1
    <3>2. CASE d = p
      BY <1>0, <2>1, <2>2, <3>2 DEF SeatType
    <3> QED BY <3>1, <3>2
  <2> QED BY <2>3 DEF AnswerInv
<1>4. ASSUME NEW p \in Runs, OnAnswer(p) PROVE role[p] = 1
  <2>1. Take(p, {"answer"})
    BY <1>4 DEF OnAnswer
  <2>2. \E k \in 1..Len(Log(p)) : Log(p)[k].kind = "answer"
    BY <2>1, TakeLog
  <2> QED BY <2>2 DEF LineInv, LineOK
<1>5. ASSUME ~(\E p \in Runs : OnOffer(p)),
             ~(\E p \in Runs, i \in Slots : Join(p, i)),
             NEW d \in Runs
      PROVE  /\ role'[d] = role[d]
             /\ pc'[d] = "answer" => pc[d] = "answer" /\ remote'[d] = remote[d]
             /\ juice'[d] # "quiet" /\ role[d] = 2 =>
                  juice[d] # "quiet" \/ (pc[d] = "answer" /\ pc'[d] # "answer")
  <2>1. ASSUME NEW p \in Runs, OnAnswer(p)
        PROVE  /\ role' = role /\ pc' = pc /\ pc[p] = "loop" /\ role[p] = 1
               /\ \A e \in Runs : e # p => /\ juice'[e] = juice[e]
                                           /\ remote'[e] = remote[e]
    BY <1>0, <1>4, <2>1 DEF OnAnswer, Gather, SetRemote, SeatType, TypeOK
  <2>2. ASSUME NEW p \in Runs, SendAnswer(p)
        PROVE  /\ role' = role /\ remote' = remote
               /\ pc[p] = "answer" /\ pc' = [pc EXCEPT ![p] = "loop"]
               /\ \A e \in Runs : e # p => juice'[e] = juice[e]
    BY <1>0, <2>2 DEF SendAnswer, Gather, Goto, known, SeatType
  <2>3. ASSUME NEW p \in Runs, SendBegins(p) \/ SendCandidate(p)
                                             \/ SendGatheringDone(p)
        PROVE  /\ UNCHANGED <<pc, role, remote>>
               /\ juice[p] # "quiet"
               /\ \A e \in Runs : e # p => juice'[e] = juice[e]
    BY <1>0, <2>3 DEF SendBegins, SendCandidate, SendGatheringDone, known, SeatType
  <2>4. ASSUME NEW p \in Runs,
               \/ JoinFails(p) \/ Exit(p) \/ RecvRole(p) \/ SendOffer(p)
               \/ AwaitOffer(p) \/ OnCandidate(p) \/ Sleep(p)
        PROVE  /\ UNCHANGED <<role, juice, remote>>
               /\ \/ pc' = pc
                  \/ \E to \in {"done", "start", "loop", "asleep"} :
                       pc' = [pc EXCEPT ![p] = to]
    BY <2>4 DEF JoinFails, Exit, RecvRole, SendOffer, AwaitOffer, OnCandidate,
                Sleep, Goto, agent, known
  <2>5. ASSUME NEW i \in Slots, RemovePeer(i)
        PROVE  UNCHANGED <<pc, role, juice, remote>>
    BY <2>5 DEF RemovePeer, agent, known
  <2>6. CASE \E p \in Runs : OnAnswer(p)
    BY <1>0, <2>1, <2>6 DEF SeatType
  <2>7. CASE \E p \in Runs : SendAnswer(p)
    BY <1>0, <2>2, <2>7 DEF SeatType
  <2>8. CASE \E p \in Runs : SendBegins(p) \/ SendCandidate(p)
                                           \/ SendGatheringDone(p)
    BY <1>0, <2>3, <2>8 DEF SeatType
  <2>9. CASE \E p \in Runs :
               \/ JoinFails(p) \/ Exit(p) \/ RecvRole(p) \/ SendOffer(p)
               \/ AwaitOffer(p) \/ OnCandidate(p) \/ Sleep(p)
    BY <1>0, <2>4, <2>9 DEF SeatType
  <2>10. CASE UNCHANGED vars
    BY <2>10 DEF vars, agent, known
  <2> QED
    BY <1>5, <2>5, <2>6, <2>7, <2>8, <2>9, <2>10
       DEF Next, Environment, MainThread, JuiceThread
<1>6. CASE /\ ~(\E p \in Runs : OnOffer(p))
           /\ ~(\E p \in Runs, i \in Slots : Join(p, i))
  BY <1>1, <1>5, <1>6 DEF AnswerInv
<1> QED BY <1>2, <1>3, <1>6

-----------------------------------------------------------------------------
(* The ordinary call.                                                      *)

\* q has sent its description, or it could not gather: libjuice's thread has
\* something to do only after that.
Told(q) ==
  \/ juice[q] # "quiet"
  \/ role[q] = 1 /\ pc[q] \notin Unsent \cup {"done"}

Describes(l, q) == l.kind \in {"offer", "answer"} /\ l.from = q

Described(p, q) == \E j \in 1..Len(Log(p)) : Describes(Log(p)[j], q)

\* As long as the call is an ordinary one: whoever is there has, or will read,
\* the description of a run that has sent it, and reads it before what
\* belongs to it.
CallInv ==
  Undisturbed =>
    /\ \A p, q \in Runs :
         p # q /\ pc[p] # "out" /\ Told(q) => Described(p, q)
    /\ \A p \in Runs : \A k \in 1..Len(Log(p)) :
         Log(p)[k].kind \in {"candidate", "gathering_done"} =>
           \E j \in 1..(k - 1) : Describes(Log(p)[j], Log(p)[k].from)

LEMMA UndisturbedBefore ==
  ASSUME TypeOK, SeatInv, [Next]_vars, Undisturbed'
  PROVE  Undisturbed /\ lost' = {}
<1>1. lost' = {} /\ \A p, q, r \in Runs : p # q /\ q # r /\ p # r =>
        "out" \in {pc'[p], pc'[q], pc'[r]}
  BY DEF Undisturbed
<1>2. lost = {}
  BY <1>1, NextEffects DEF Effects, Sends, Shrinks
<1>3. \A p \in Runs : pc'[p] = "out" => pc[p] = "out"
  BY Monotone
<1> QED BY <1>1, <1>2, <1>3 DEF Undisturbed

\* In an ordinary call, what is in a log stays where it is.
LEMMA LogStays ==
  ASSUME TypeOK, Effects, lost' = {}, NEW p \in Runs,
         NEW j \in 1..Len(Log(p))
  PROVE  j \in 1..Len(Log(p)') /\ Log(p)'[j] = Log(p)[j]
<1>0. Len(Log(p)) \in Nat
  BY LogType
<1>1. ASSUME NEW l, Extends(p, l)
      PROVE  j \in 1..Len(Log(p)') /\ Log(p)'[j] = Log(p)[j]
  BY <1>0, <1>1 DEF Extends
<1>2. ASSUME NEW n \in 0..Len(Log(p)), Drops(p, n)
      PROVE  j \in 1..Len(Log(p)') /\ Log(p)'[j] = Log(p)[j]
  <2>1. n = 0
    BY <1>2 DEF Drops
  <2>2. j \in 1..Len(Log(p)') /\ j + n = j
    BY <1>0, <1>2, <2>1 DEF Drops
  <2> QED BY <1>2, <2>2 DEF Drops
<1> QED BY <1>1, <1>2, LogAcross

LEMMA ToldChange ==
  ASSUME TypeOK, SeatInv, LineInv, [Next]_vars, NEW q \in Runs, Told(q)'
  PROVE  Told(q) \/ SendOffer(q) \/ SendAnswer(q)
<1> SUFFICES ASSUME ~Told(q), ~SendOffer(q), ~SendAnswer(q) PROVE FALSE
  OBVIOUS
<1>0. SeatType
  BY SeatTyped
<1>1. juice[q] = "quiet" /\ (role[q] = 1 => pc[q] \in Unsent \cup {"done"})
  BY DEF Told
<1>2. ASSUME NEW p \in Runs, NEW i \in Slots, Join(p, i) PROVE FALSE
  <2>1. /\ pc' = [pc EXCEPT ![p] = "role"]
        /\ role' = [role EXCEPT ![p] = RoleForSlot(i)]
        /\ juice' = juice
    BY <1>2 DEF Join, Goto, agent
  <2> QED BY <1>0, <1>1, <2>1 DEF Told, SeatType, Unsent
<1>3. ASSUME NEW p \in Runs, OnAnswer(p) PROVE FALSE
  <2>1. Take(p, {"answer"}) /\ pc[p] = "loop"
    BY <1>3 DEF OnAnswer
  <2>2. \E k \in 1..Len(Log(p)) : Log(p)[k].kind = "answer"
    BY <2>1, TakeLog
  <2>3. role[p] = 1
    BY <2>2 DEF LineInv, LineOK
  <2>4. p # q
    BY <1>1, <2>1, <2>3 DEF Unsent
  <2>5. juice'[q] = juice[q] /\ pc' = pc /\ role' = role
    BY <1>0, <1>3, <2>4 DEF OnAnswer, Gather, SeatType
  <2> QED BY <1>1, <2>5 DEF Told
<1>4. ASSUME NEW p \in Runs, SendOffer(p) \/ SendAnswer(p) PROVE FALSE
  <2>1. p # q
    BY <1>4
  <2>2. juice'[q] = juice[q] /\ pc'[q] = pc[q] /\ role' = role
    BY <1>0, <1>4, <2>1 DEF SendOffer, SendAnswer, Gather, Goto, agent, SeatType
  <2> QED BY <1>1, <2>2 DEF Told
<1>5. ASSUME NEW p \in Runs, SendBegins(p) \/ SendCandidate(p)
                                           \/ SendGatheringDone(p)
      PROVE  FALSE
  <2>1. p # q
    BY <1>1, <1>5 DEF SendBegins, SendCandidate, SendGatheringDone
  <2>2. juice'[q] = juice[q] /\ pc' = pc /\ role' = role
    BY <1>0, <1>5, <2>1
       DEF SendBegins, SendCandidate, SendGatheringDone, SeatType
  <2> QED BY <1>1, <2>2 DEF Told
<1>6. ASSUME NEW p \in Runs,
             \/ JoinFails(p) \/ Exit(p) \/ RecvRole(p)
             \/ AwaitOffer(p) \/ OnOffer(p) \/ OnCandidate(p) \/ Sleep(p)
      PROVE  FALSE
  <2>1. /\ UNCHANGED <<role, juice>>
        /\ \/ pc' = pc
           \/ \E to \in {"done", "start"} : pc' = [pc EXCEPT ![p] = to]
           \/ role[p] = 2 /\ pc' = [pc EXCEPT ![p] = "loop"]
           \/ \E to \in {"answer", "asleep"} :
                pc[p] = "loop" /\ pc' = [pc EXCEPT ![p] = to]
    BY <1>6 DEF JoinFails, Exit, RecvRole, AwaitOffer, OnOffer, OnCandidate,
                Sleep, Goto, agent
  <2> QED BY <1>0, <1>1, <2>1 DEF Told, SeatType, Unsent
<1>7. ASSUME \/ \E i \in Slots : RemovePeer(i)
             \/ UNCHANGED vars
      PROVE  FALSE
  BY <1>1, <1>7 DEF RemovePeer, agent, vars, Told
<1> QED
  BY <1>2, <1>3, <1>4, <1>5, <1>6, <1>7
     DEF Next, Environment, MainThread, JuiceThread

\* Whoever was told has met somebody.
LEMMA ToldMet ==
  ASSUME TypeOK, SeatInv, LineInv, AnswerInv, NEW q \in Runs, Told(q)
  PROVE  pc[q] # "out" /\ \E x \in Runs : x # q /\ pc[x] # "out"
<1>1. pc[q] # "out"
  BY DEF Told, SeatInv, Unsent
<1>2. CASE role[q] = 1
  BY <1>1, <1>2 DEF SeatInv
<1>3. CASE role[q] = 2 /\ juice[q] # "quiet"
  <2>1. PICK x \in Runs : Handled(q, "offer", x)
    BY <1>3 DEF AnswerInv
  <2>2. PICK k \in 1..Len(Log(q)) : Log(q)[k].kind = "offer" /\ Log(q)[k].from = x
    BY <2>1, HandledInLog
  <2>3. LineOK(q, Log(q)[k]) /\ Log(q)[k].from = x
    BY <2>2 DEF LineInv
  <2> QED BY <1>1, <2>3 DEF LineOK
<1> QED BY <1>2, <1>3 DEF Told, SeatInv

LEMMA CallStep ==
  TypeOK /\ SeatInv /\ LineInv /\ AnswerInv /\ CallInv /\ [Next]_vars
    => CallInv'
<1> SUFFICES ASSUME TypeOK, SeatInv, LineInv, AnswerInv, CallInv, [Next]_vars,
                    Undisturbed'
             PROVE  /\ \A p, q \in Runs :
                         p # q /\ pc'[p] # "out" /\ Told(q)' => Described(p, q)'
                    /\ \A p \in Runs : \A k \in 1..Len(Log(p)') :
                         Log(p)'[k].kind \in {"candidate", "gathering_done"} =>
                           \E j \in 1..(k - 1) :
                             Describes(Log(p)'[j], Log(p)'[k].from)
  BY DEF CallInv, Describes
<1>0. Undisturbed /\ lost' = {} /\ Effects /\ SeatType
  BY UndisturbedBefore, NextEffects, SeatTyped
<1>1. ASSUME NEW p \in Runs, NEW q \in Runs, Described(p, q)
      PROVE  Described(p, q)'
  BY <1>0, <1>1, LogStays DEF Described, Describes
<1>2. ASSUME NEW x \in Runs, NEW y \in Runs, NEW z \in Runs,
             x # y, y # z, x # z,
             pc'[x] # "out", pc'[y] # "out", pc'[z] # "out"
      PROVE  FALSE
  BY <1>2 DEF Undisturbed
<1>3. ASSUME NEW p \in Runs, NEW q \in Runs,
             p # q, pc'[p] # "out", Told(q)'
      PROVE  Described(p, q)'
  <2>1. CASE pc[p] = "out"
    <3>1. Told(q)
      <4>1. ~SendOffer(q) /\ ~SendAnswer(q)
        <5> SUFFICES ASSUME SendOffer(q) \/ SendAnswer(q) PROVE FALSE
          OBVIOUS
        <5>1. pc'[p] = pc[p]
          BY <1>0, <1>3 DEF SendOffer, SendAnswer, Goto, SeatType
        <5> QED BY <1>3, <2>1, <5>1
      <4> QED BY <1>3, <4>1, ToldChange
    <3>2. PICK x \in Runs : pc[q] # "out" /\ x # q /\ pc[x] # "out"
      BY <3>1, ToldMet
    <3>3. pc'[q] # "out" /\ pc'[x] # "out" /\ x # p
      BY <2>1, <3>2, Monotone
    <3> QED BY <1>2, <1>3, <3>2, <3>3
  <2>2. CASE pc[p] # "out" /\ Told(q)
    BY <1>0, <1>1, <1>3, <2>2 DEF CallInv
  <2>3. CASE pc[p] # "out" /\ (SendOffer(q) \/ SendAnswer(q))
    <3>1. PICK kind \in {"offer", "answer"} :
            /\ Send(q, kind) /\ got' = got
            /\ pc[q] \notin {"out", "done"}
      BY <2>3 DEF SendOffer, SendAnswer, Goto, known
    <3>2. kind \in Kinds
      BY DEF Kinds
    <3>3. PICK to \in Runs : /\ to = Partner(q)
                             /\ Grows(to, LineOf(q, kind))
      BY <1>0, <3>1, <3>2, SendLog
    <3>4. to # q /\ pc[to] # "out"
      BY <1>0, <3>1, <3>3, PartnerApart DEF SeatType
    <3>5. p = to
      <4>1. pc'[q] # "out" /\ pc'[to] # "out"
        BY <3>1, <3>4, Monotone
      <4> QED BY <1>2, <1>3, <3>4, <4>1
    <3>6. /\ Len(Log(p)) + 1 \in 1..Len(Log(p)')
          /\ Log(p)'[Len(Log(p)) + 1] = LineOf(q, kind)
      <4>1. LineOf(q, kind) \in Line
        BY <3>2, LineType
      <4>2. Log(p) \in Seq(Line) /\ Len(Log(p)) \in Nat
        BY LogType
      <4>3. Log(p)' = Append(Log(p), LineOf(q, kind))
        BY <3>3, <3>5 DEF Grows
      <4> QED BY <4>1, <4>2, <4>3, AppendProperties
    <3> QED BY <3>1, <3>6 DEF Described, Describes, LineOf
  <2> QED BY <1>3, <2>1, <2>2, <2>3, ToldChange
<1>4. ASSUME NEW p \in Runs, NEW k \in 1..Len(Log(p)'),
             Log(p)'[k].kind \in {"candidate", "gathering_done"}
      PROVE  \E j \in 1..(k - 1) : Describes(Log(p)'[j], Log(p)'[k].from)
  <2>0. Len(Log(p)) \in Nat
    BY LogType
  <2>1. ASSUME k \in 1..Len(Log(p)), Log(p)'[k] = Log(p)[k]
        PROVE  \E j \in 1..(k - 1) : Describes(Log(p)'[j], Log(p)'[k].from)
    <3>1. PICK j \in 1..(k - 1) : Describes(Log(p)[j], Log(p)[k].from)
      BY <1>0, <1>4, <2>1 DEF CallInv
    <3>2. j \in 1..Len(Log(p))
      BY <2>0, <2>1
    <3>3. Log(p)'[j] = Log(p)[j]
      BY <1>0, <3>2, LogStays
    <3> QED BY <2>1, <3>1, <3>3
  <2>2. ASSUME NEW q \in Runs, NEW kind \in Kinds, Sends(q, kind),
               p = Partner(q), p # NoRun,
               Extends(p, LineOf(q, kind))
        PROVE  \E j \in 1..(k - 1) : Describes(Log(p)'[j], Log(p)'[k].from)
    <3>1. CASE k \in 1..Len(Log(p))
      BY <2>1, <2>2, <3>1 DEF Extends
    <3>2. CASE k = Len(Log(p)) + 1
      <4>1. Log(p)'[k].kind = kind /\ Log(p)'[k].from = q
        BY <2>2, <3>2 DEF Extends, LineOf
      <4>2. juice[q] = "sending" /\ pc[q] \notin {"out", "done"}
        BY <1>4, <2>2, <4>1 DEF Sends
      <4>3. p # q /\ pc[p] # "out"
        BY <1>0, <2>2, <4>2, PartnerApart
      <4>4. PICK j \in 1..Len(Log(p)) : Describes(Log(p)[j], q)
        BY <1>0, <4>2, <4>3 DEF CallInv, Told, Described
      <4>5. j \in 1..(k - 1) /\ Log(p)'[j] = Log(p)[j]
        BY <2>0, <2>2, <3>2 DEF Extends
      <4> QED BY <4>1, <4>4, <4>5
    <3> QED BY <2>0, <2>2, <3>1, <3>2 DEF Extends
  <2>3. ASSUME NEW n \in 0..Len(Log(p)), Drops(p, n)
        PROVE  \E j \in 1..(k - 1) : Describes(Log(p)'[j], Log(p)'[k].from)
    <3>1. n = 0
      BY <1>0, <2>3 DEF Drops
    <3>2. k \in 1..Len(Log(p)) /\ k + n = k
      BY <2>0, <2>3, <3>1 DEF Drops
    <3>3. Log(p)'[k] = Log(p)[k]
      BY <2>3, <3>2 DEF Drops
    <3> QED BY <2>1, <3>2, <3>3
  <2>4. CASE Log(p)' = Log(p)
    BY <2>1, <2>4
  <2> QED BY <1>0, <2>2, <2>3, <2>4, LogAcross
<1> QED BY <1>3, <1>4

-----------------------------------------------------------------------------
(* The theorems.                                                           *)

SessionInv ==
  /\ TypeOK
  /\ SeatInv
  /\ LineInv
  /\ OnceInv
  /\ AnswerInv
  /\ CallInv

LEMMA SessionInit == Init => SessionInv
<1> SUFFICES ASSUME Init PROVE SessionInv
  OBVIOUS
<1>1. TypeOK /\ SeatInv
  BY TypeInit, SeatInit
<1>2. ASSUME NEW p \in Runs PROVE Len(Log(p)) = 0
  <2>1. Len(got[p]) = 0 /\ Len(net[p]) = 0
    BY DEF Init
  <2>2. Len(Log(p)) = Len(got[p]) + Len(net[p])
    BY <1>1, LogElements
  <2> QED BY <2>1, <2>2
<1>3. LineInv /\ OnceInv
  BY <1>2 DEF LineInv, OnceInv
<1>4. AnswerInv
  BY DEF Init, AnswerInv
<1>5. CallInv
  BY <1>2 DEF Init, CallInv, Told
<1> QED BY <1>1, <1>3, <1>4, <1>5 DEF SessionInv

LEMMA SessionHolds == Spec => []SessionInv
<1>1. SessionInv /\ [Next]_vars => SessionInv'
  BY TypeStep, SeatStep, LineStep, OnceStep, AnswerStep, CallStep DEF SessionInv
<1> QED BY <1>1, SessionInit, PTL DEF Spec

\* The two threads of a run are in p2p_signal_send at once only after a
\* second offer: before it, the main thread has sent its only line when
\* gathering begins.
THEOREM SendsAreApart == Spec => []UnlockedSendsApart
<1>1. SessionInv => UnlockedSendsApart
  <2> SUFFICES ASSUME SessionInv, NEW p \in Runs, juice[p] = "sending",
                      pc[p] \in {"start", "answer"}
               PROVE  \E q \in Runs : Handled(p, "offer", q) /\ remote[p] # q
    BY DEF UnlockedSendsApart
  <2>1. pc[p] = "answer" /\ role[p] = 2
    BY DEF SessionInv, SeatInv, Unsent
  <2> QED BY <2>1 DEF SessionInv, AnswerInv
<1> QED BY <1>1, SessionHolds, PTL

\* Whoever takes an answer takes that to its own offer, which the answerer
\* handled, or that to the offer of a run it stands in for, which has ended.
THEOREM AnswersFollowOffers == Spec => []AnswerIsForMe
<1>1. SessionInv => AnswerIsForMe
  <2> SUFFICES ASSUME SessionInv, NEW p \in Runs, NEW line \in Range(got[p]),
                      line.kind = "answer"
               PROVE  /\ Handled(line.from, "offer", line.for)
                      /\ line.for = p \/ pc[line.for] = "done"
    BY DEF AnswerIsForMe
  <2>1. Range(got[p]) = {got[p][k] : k \in 1..Len(got[p])}
    BY RangeEquality DEF SessionInv, TypeOK
  <2>2. PICK k \in 1..Len(got[p]) : line = got[p][k]
    BY <2>1
  <2>3. /\ Len(Log(p)) = Len(got[p]) + Len(net[p])
        /\ Len(got[p]) \in Nat /\ Len(net[p]) \in Nat
        /\ Log(p)[k] = got[p][k]
    BY <2>2, LogElements DEF SessionInv
  <2>4. k \in 1..Len(Log(p))
    BY <2>3, Positions
  <2>5. LineOK(p, line)
    BY <2>2, <2>3, <2>4 DEF SessionInv, LineInv
  <2> QED BY <2>5 DEF LineOK, Answers
<1> QED BY <1>1, SessionHolds, PTL

\* In an ordinary call no candidate and no end of gathering is handled before
\* the description it belongs to.
THEOREM DescriptionsComeFirst == Spec => []CandidatesAfterDescription
<1>1. SessionInv => CandidatesAfterDescription
  <2> SUFFICES ASSUME SessionInv, Undisturbed, NEW p \in Runs,
                      NEW k \in 1..Len(got[p]),
                      got[p][k].kind \in {"candidate", "gathering_done"}
               PROVE  \E j \in 1..(k - 1) :
                        /\ got[p][j].kind \in {"offer", "answer"}
                        /\ got[p][j].from = got[p][k].from
    BY DEF CandidatesAfterDescription
  <2>1. /\ Len(Log(p)) = Len(got[p]) + Len(net[p])
        /\ Len(got[p]) \in Nat /\ Len(net[p]) \in Nat
        /\ \A j \in 1..Len(got[p]) : Log(p)[j] = got[p][j]
    BY LogElements DEF SessionInv
  <2>2. k \in 1..Len(Log(p))
    BY <2>1, Positions
  <2>3. PICK j \in 1..(k - 1) : Describes(Log(p)[j], Log(p)[k].from)
    BY <2>1, <2>2 DEF SessionInv, CallInv
  <2>4. j \in 1..Len(got[p])
    BY <2>1
  <2> QED BY <2>1, <2>3, <2>4 DEF Describes
<1> QED BY <1>1, SessionHolds, PTL
=============================================================================
