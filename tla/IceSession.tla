----------------------------- MODULE IceSession -----------------------------
(***************************************************************************)
(* A room as its clients see it: runs of the two programs (main() of       *)
(* src/src/client/main.c and src/src/peer/main.c, which join alike) that   *)
(* take their roles and then exchange offer, answer, candidates and the    *)
(* end of gathering (p2p_run_peer in src/src/common/run.c).  A program     *)
(* that is started again is another run.                                   *)
(*                                                                         *)
(* A run has two threads: the main thread sends the offer or the answer,   *)
(* libjuice's thread the candidates.  A line is [kind, from, for]; "for",  *)
(* which the text does not hold, is the run whose description the sender   *)
(* had been given.  The server is what Signaling shows it to be: lines of  *)
(* one sender stay in order and go to the partner, or are dropped.         *)
(* SignalCodec is about what a line is, and shows that a line cut by the   *)
(* role's recv() is lost or intact.                                        *)
(*                                                                         *)
(* Once ICE has connected, the main thread of client and peer may sleep in *)
(* xquic_ice_clear_wakeup for good (XquicIce); then it reads no more       *)
(* lines.  Sleep is that step.  It is never obliged to happen: the pipe of *)
(* another caller need not block, and the sample program has none.         *)
(***************************************************************************)
EXTENDS Naturals, Sequences, SequencesExt

CONSTANTS
  MaxRuns,        \* bound: runs of the two programs with one room identifier
  Capacity,       \* lines that fit between the relay and a run that is slow
  MaxCandidates   \* bound: candidates a run gathers

ASSUME IceSessionAssumption ==
  /\ MaxRuns \in Nat
  /\ Capacity \in Nat \ {0}
  /\ MaxCandidates \in Nat

VARIABLES
  pc,       \* main thread: "out", "role", "start", "loop", "answer",
            \* "asleep", "done"
  role,     \* cfg.role: 1 is "peer1" (offers), 2 is "peer2" (answers)
  slots,    \* Room.Peers
  net,      \* the lines on their way from the relay to each run
  juice,    \* libjuice's thread: "quiet", "gathering", "sending", "gathered"
  todo,     \* candidates it still has to report
  remote,   \* whose description the agent was given last
  got,      \* history: the lines each run handled
  lost      \* history: the lines that no run handles

server == <<slots, net, lost>>
agent == <<juice, todo>>
known == <<remote, got>>
vars == <<pc, role, server, agent, known>>

\* Runs are numbered in the order in which they are started.
Runs == 1..MaxRuns
NoRun == 0      \* an empty slot; no description

Kinds == {"offer", "answer", "candidate", "gathering_done"}
Line == [kind : Kinds, from : Runs, for : Runs \cup {NoRun}]
Slots == {0, 1}
RoleForSlot(i) == IF i = 0 THEN 2 ELSE 1

Init ==
  /\ pc = [p \in Runs |-> "out"]
  /\ role = [p \in Runs |-> 0]
  /\ slots = [i \in Slots |-> NoRun]
  /\ net = [p \in Runs |-> <<>>]
  /\ juice = [p \in Runs |-> "quiet"]
  /\ todo \in [Runs -> 0..MaxCandidates]
  /\ remote = [p \in Runs |-> NoRun]
  /\ got = [p \in Runs |-> <<>>]
  /\ lost = {}

Goto(p, from, to) ==
  /\ pc[p] = from
  /\ pc' = [pc EXCEPT ![p] = to]

-----------------------------------------------------------------------------
(* The signalling server.                                                  *)

\* What p sends.
LineOf(p, kind) == [kind |-> kind, from |-> p, for |-> remote[p]]

Partner(p) == IF slots[0] = p THEN slots[1] ELSE slots[0]

\* Mutant: the relay hands out the newest line first.
SendInFront(p, kind) ==
  LET line == LineOf(p, kind)
      to == Partner(p)
  IN  /\ IF to # NoRun /\ Len(net[to]) < Capacity
         THEN net' = [net EXCEPT ![to] = <<line>> \o @] /\ lost' = lost
         ELSE net' = net /\ lost' = lost \cup {line}
      /\ UNCHANGED slots

\* Mutant: the relay queues whatever comes.
SendUnbounded(p, kind) ==
  LET line == LineOf(p, kind)
      to == Partner(p)
  IN  /\ IF to # NoRun
         THEN net' = [net EXCEPT ![to] = Append(@, line)] /\ lost' = lost
         ELSE net' = net /\ lost' = lost \cup {line}
      /\ UNCHANGED slots

\* p2p_signal_send and what the relay does with the line: dropped if there
\* is no partner, or no room on the way to it.  Nobody looks at the result.
Send(p, kind) ==
  LET line == LineOf(p, kind)
      to == Partner(p)
  IN  /\ IF to # NoRun /\ Len(net[to]) < Capacity
         THEN net' = [net EXCEPT ![to] = Append(@, line)] /\ lost' = lost
         ELSE net' = net /\ lost' = lost \cup {line}
      /\ UNCHANGED slots

\* The handler of a run that is gone gives its slot back, sooner or later.
RemovePeer(i) ==
  /\ slots[i] # NoRun
  /\ pc[slots[i]] = "done"
  /\ slots' = [slots EXCEPT ![i] = NoRun]
  /\ UNCHANGED <<pc, role, net, lost, agent, known>>

-----------------------------------------------------------------------------
(* main(): from the arguments to p2p_run_peer.                             *)

\* Every earlier run has been started.
IsNext(p) == \A q \in 1..(p - 1) : pc[q] # "out"

\* Connected, the join line is sent, and the server seats the run and
\* writes the role.
Join(p, i) ==
  /\ IsNext(p)
  /\ Goto(p, "out", "role")
  /\ slots[i] = NoRun
  /\ i = 1 => slots[0] # NoRun
  /\ slots' = [slots EXCEPT ![i] = p]
  /\ role' = [role EXCEPT ![p] = RoleForSlot(i)]
  /\ UNCHANGED <<net, lost, agent, known>>

\* No --turn-host or no connection, or the room is full: the server closes
\* the connection and no role arrives.
JoinFails(p) ==
  /\ IsNext(p)
  /\ Goto(p, "out", "done")
  /\ UNCHANGED <<role, server, agent, known>>

\* Mutant: the line behind the role is always discarded, unnoticed.
RecvRoleSkipsFirst(p) ==
  /\ Goto(p, "role", "start")
  /\ net' = [net EXCEPT ![p] = IF @ = <<>> THEN @ ELSE Tail(@)]
  /\ UNCHANGED <<role, slots, lost, agent, known>>

\* The recv() that completes the role line returns k more lines: they are
\* in buf, which main() leaves behind when it calls p2p_run_peer.
RecvRole(p) ==
  /\ Goto(p, "role", "start")
  /\ \E k \in 0..Len(net[p]) :
       /\ net' = [net EXCEPT ![p] = SubSeq(@, k + 1, Len(@))]
       /\ lost' = lost \cup {net[p][j] : j \in 1..k}
  /\ UNCHANGED <<role, slots, agent, known>>

\* The run ends: killed, select() or recv() fails, no agent or no local
\* description.  Nothing tells its partner.
Exit(p) ==
  /\ pc[p] \notin {"out", "done"}
  /\ pc' = [pc EXCEPT ![p] = "done"]
  /\ UNCHANGED <<role, server, agent, known>>

-----------------------------------------------------------------------------
(* p2p_run_peer, main thread.                                              *)

SendOffer(p) ==
  /\ role[p] = 1
  /\ Goto(p, "start", "loop")
  /\ Send(p, "offer")
  /\ UNCHANGED <<role, agent, known>>

\* Mutant: the answer does not wait for the offer.
AwaitNothing(p) ==
  /\ role[p] = 2
  /\ Goto(p, "start", "loop")
  /\ Send(p, "answer")
  /\ UNCHANGED <<role, agent, known>>

AwaitOffer(p) ==
  /\ role[p] = 2
  /\ Goto(p, "start", "loop")
  /\ UNCHANGED <<role, server, agent, known>>

\* Gathering starts once; a later call changes nothing.
Gather(p) ==
  /\ juice' = [juice EXCEPT ![p] = IF @ = "quiet" THEN "gathering" ELSE @]
  /\ UNCHANGED todo

\* process_signal_input takes the next line.
Take(p, kinds) ==
  /\ net[p] # <<>>
  /\ Head(net[p]).kind \in kinds
  /\ net' = [net EXCEPT ![p] = Tail(@)]
  /\ got' = [got EXCEPT ![p] = Append(@, Head(net[p]))]
  /\ UNCHANGED <<slots, lost>>

SetRemote(p) == remote' = [remote EXCEPT ![p] = Head(net[p]).from]

\* Mutant: gathering starts before the answer is sent.
OnOfferGathersFirst(p) ==
  /\ Goto(p, "loop", "answer")
  /\ Take(p, {"offer"})
  /\ SetRemote(p)
  /\ Gather(p)
  /\ UNCHANGED role

OnOffer(p) ==
  /\ Goto(p, "loop", "answer")
  /\ Take(p, {"offer"})
  /\ SetRemote(p)
  /\ UNCHANGED <<role, agent>>

\* Mutant: a second offer, after gathering began, gets no answer.
SendAnswerOnce(p) ==
  /\ Goto(p, "answer", "loop")
  /\ IF juice[p] = "quiet" THEN Send(p, "answer") ELSE UNCHANGED server
  /\ Gather(p)
  /\ UNCHANGED <<role, known>>

SendAnswer(p) ==
  /\ Goto(p, "answer", "loop")
  /\ Send(p, "answer")
  /\ Gather(p)
  /\ UNCHANGED <<role, known>>

OnAnswer(p) ==
  /\ pc[p] = "loop"
  /\ Take(p, {"answer"})
  /\ SetRemote(p)
  /\ Gather(p)
  /\ UNCHANGED <<pc, role>>

\* Run p was given a line of this kind of run q.
Handled(p, kind, q) ==
  \E line \in Range(got[p]) : line.kind = kind /\ line.from = q

\* ICE can connect p to q: both agents gather, and one of them was told of a
\* candidate of the other, whom its checks reach.
CanConnect(p, q) ==
  /\ q # NoRun
  /\ "quiet" \notin {juice[p], juice[q]}
  /\ Handled(p, "candidate", q) \/ Handled(q, "candidate", p)

\* The loop has an engine to serve and enters xquic_ice_clear_wakeup, whose
\* last read() does not come back.
Sleep(p) ==
  /\ Goto(p, "loop", "asleep")
  /\ CanConnect(p, remote[p])
  /\ UNCHANGED <<role, server, agent, known>>

\* juice_add_remote_candidate, juice_set_remote_gathering_done.
OnCandidate(p) ==
  /\ pc[p] = "loop"
  /\ Take(p, {"candidate", "gathering_done"})
  /\ UNCHANGED <<pc, role, agent, remote>>

-----------------------------------------------------------------------------
(* libjuice's thread: on_candidate for each candidate, then                *)
(* on_gathering_done.  Each is a send of its own.                          *)

SendBegins(p) ==
  /\ pc[p] # "done"
  /\ juice[p] = "gathering"
  /\ juice' = [juice EXCEPT ![p] = "sending"]
  /\ UNCHANGED <<pc, role, server, todo, known>>

SendCandidate(p) ==
  /\ pc[p] # "done"
  /\ juice[p] = "sending"
  /\ todo[p] > 0
  /\ Send(p, "candidate")
  /\ todo' = [todo EXCEPT ![p] = @ - 1]
  /\ juice' = [juice EXCEPT ![p] = "gathering"]
  /\ UNCHANGED <<pc, role, known>>

SendGatheringDone(p) ==
  /\ pc[p] # "done"
  /\ juice[p] = "sending"
  /\ todo[p] = 0
  /\ Send(p, "gathering_done")
  /\ juice' = [juice EXCEPT ![p] = "gathered"]
  /\ UNCHANGED <<pc, role, todo, known>>

MainThread(p) ==
  \/ RecvRole(p)
  \/ SendOffer(p)
  \/ AwaitOffer(p)
  \/ OnOffer(p)
  \/ SendAnswer(p)
  \/ OnAnswer(p)
  \/ OnCandidate(p)

JuiceThread(p) == SendBegins(p) \/ SendCandidate(p) \/ SendGatheringDone(p)

\* What users do, and what the server does about it.
Environment ==
  \/ \E p \in Runs, i \in Slots : Join(p, i)
  \/ \E p \in Runs : JoinFails(p)
  \/ \E p \in Runs : Exit(p)
  \/ \E i \in Slots : RemovePeer(i)

Next ==
  Environment \/ \E p \in Runs : MainThread(p) \/ Sleep(p) \/ JuiceThread(p)

Spec == Init /\ [][Next]_vars

\* Both threads of a run are scheduled, the main thread until it falls asleep;
\* nobody has to join, to stay, or to sleep.
FairSpec ==
  Spec /\ \A p \in Runs : WF_vars(MainThread(p)) /\ WF_vars(JuiceThread(p))

-----------------------------------------------------------------------------
TypeOK ==
  /\ pc \in [Runs -> {"out", "role", "start", "loop", "answer", "asleep",
                   "done"}]
  /\ role \in [Runs -> 0..2]
  /\ slots \in [Slots -> Runs \cup {NoRun}]
  /\ net \in [Runs -> Seq(Line)]
  /\ \A p \in Runs : Len(net[p]) <= Capacity
  /\ juice \in [Runs -> {"quiet", "gathering", "sending", "gathered"}]
  /\ todo \in [Runs -> 0..MaxCandidates]
  /\ remote \in [Runs -> Runs \cup {NoRun}]
  /\ got \in [Runs -> Seq(Line)]
  /\ lost \subseteq Line

\* The two threads of a run are inside p2p_signal_send at once, without the
\* lock that ctx->mutex would be, only after a second offer: with one partner
\* the order of answer and gathering keeps them apart.
UnlockedSendsApart ==
  \A p \in Runs : pc[p] \in {"start", "answer"} /\ juice[p] = "sending" =>
    \E q \in Runs : Handled(p, "offer", q) /\ remote[p] # q

\* Nobody else came and no line is lost: an ordinary call.
Undisturbed ==
  /\ lost = {}
  /\ \A p, q, r \in Runs : p # q /\ q # r /\ p # r =>
       "out" \in {pc[p], pc[q], pc[r]}

\* In an ordinary call a run is told of a candidate, or of the end of
\* gathering, only after it was given the description they belong to:
\* libjuice is never asked to add a candidate to an unknown peer.
CandidatesAfterDescription ==
  Undisturbed => \A p \in Runs : \A k \in 1..Len(got[p]) :
    got[p][k].kind \in {"candidate", "gathering_done"} =>
      \E j \in 1..(k - 1) : /\ got[p][j].kind \in {"offer", "answer"}
                            /\ got[p][j].from = got[p][k].from

\* An answer is the answer to an offer that its sender handled, and a run
\* that takes one takes the answer to its own offer, unless it stands in for
\* an offerer that ended while its answer was under way: as long as nobody
\* was replaced, the description belongs to this call.
AnswerIsForMe ==
  \A p \in Runs : \A line \in Range(got[p]) : line.kind = "answer" =>
    /\ Handled(line.from, "offer", line.for)
    /\ line.for = p \/ pc[line.for] = "done"

\* An offer that reaches an answerer's loop gets its own answer, the offer of
\* a client that was started again included, whatever became of the offer
\* and the answer of its predecessor, unless one of the two ends or has
\* fallen asleep, or this very answer is dropped.
OfferAnswered ==
  \A p \in Runs : \A q \in Runs \ {p} :
    LET answer == [kind |-> "answer", from |-> p, for |-> q]
    IN  (/\ pc[p] = "loop"
         /\ \E line \in Range(net[p]) : line.kind = "offer" /\ line.from = q) ~>
          \/ answer \in Range(got[q])
          \/ {pc[p], pc[q]} \cap {"done", "asleep"} # {}
          \/ answer \in lost

\* Two runs meet, and stay.
Calls(p, q) == slots[0] = p /\ slots[1] = q /\ "done" \notin {pc[p], pc[q]}

\* An ordinary call is set up: each agent has the description of the other,
\* and is told that the other has no more candidates, unless ICE connected
\* before that and its main thread has fallen asleep.
SessionCompletes ==
  \A p \in Runs : \A q \in Runs \ {p} :
    <>[](Undisturbed /\ Calls(p, q)) =>
      <>(/\ Handled(p, "offer", q) /\ Handled(q, "answer", p)
         /\ Handled(p, "gathering_done", q) \/ pc[p] = "asleep"
         /\ Handled(q, "gathering_done", p) \/ pc[q] = "asleep")
=============================================================================
