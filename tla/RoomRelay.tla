----------------------------- MODULE RoomRelay -----------------------------
(***************************************************************************)
(* What the signalling server promises to its clients, whatever transport  *)
(* they come over and however rooms come and go in its map.  A client that *)
(* is let in gets a seat of a room and is told the seat's role before it   *)
(* reads anything else.  A line goes to whoever has the other seat of that *)
(* room when it is sent, behind the lines that wait there already; it is   *)
(* dropped only if the other seat is free or too many lines wait.          *)
(***************************************************************************)
EXTENDS Naturals, Sequences

CONSTANTS
  Clients,
  Nobody,     \* in a free seat
  Server,     \* the sender of role lines
  Capacity    \* the most lines that wait for a client

VARIABLES
  status,     \* of each client: "new", "in", "out"
  seats,      \* of each room; a room is named by the client that opened it
  said,       \* number of lines each client has sent
  queue,      \* the lines that wait for each client
  log         \* the lines each client was sent

vars == <<status, seats, said, queue, log>>

Role(i) == IF i = 0 THEN 2 ELSE 1

Init ==
  /\ status = [c \in Clients |-> "new"]
  /\ seats = [r \in Clients |-> [i \in {0, 1} |-> Nobody]]
  /\ said = [c \in Clients |-> 0]
  /\ queue = [c \in Clients |-> <<>>]
  /\ log = [c \in Clients |-> <<>>]

Becomes(c, from, to) ==
  /\ status[c] = from
  /\ status' = [status EXCEPT ![c] = to]

SitsIn(c, r) == \E i \in {0, 1} : seats[r][i] = c

Enter(c) ==
  /\ Becomes(c, "new", "in")
  /\ \E r \in Clients, i \in {0, 1} :
       /\ seats[r][i] = Nobody
       /\ seats' = [seats EXCEPT ![r][i] = c]
  /\ UNCHANGED <<said, queue, log>>

Refuse(c) ==
  /\ Becomes(c, "new", "out")
  /\ UNCHANGED <<seats, said, queue, log>>

TellRole(c) ==
  /\ status[c] = "in"
  /\ log[c] = <<>>
  /\ \E r \in Clients, i \in {0, 1} :
       /\ seats[r][i] = c
       /\ log' = [log EXCEPT ![c] = <<[from |-> Server, n |-> Role(i)]>>]
  /\ UNCHANGED <<status, seats, said, queue>>

\* Those whom a line of c that is sent to room r can reach.
Open(c, r) == {d \in Clients \ {c} : SitsIn(d, r) /\ Len(queue[d]) < Capacity}

Speak(c) ==
  /\ status[c] = "in"
  /\ said' = [said EXCEPT ![c] = @ + 1]
  /\ \E r \in Clients :
       /\ SitsIn(c, r)
       /\ \/ \E d \in Open(c, r) :
               queue' = [queue EXCEPT ![d] = Append(@, [from |-> c, n |-> said[c] + 1])]
          \/ Open(c, r) = {} /\ queue' = queue
  /\ UNCHANGED <<status, seats, log>>

\* Only a client that knows its role reads lines.
Deliver(c) ==
  /\ log[c] # <<>>
  /\ queue[c] # <<>>
  /\ log' = [log EXCEPT ![c] = Append(@, Head(queue[c]))]
  /\ queue' = [queue EXCEPT ![c] = Tail(@)]
  /\ UNCHANGED <<status, seats, said>>

\* The connection turns out to be broken.
Lose(c) ==
  /\ queue[c] # <<>>
  /\ queue' = [queue EXCEPT ![c] = Tail(@)]
  /\ UNCHANGED <<status, seats, said, log>>

\* The seat is free again, or stays taken in a room that can no longer be found.
Leave(c) ==
  /\ Becomes(c, "in", "out")
  /\ \/ UNCHANGED seats
     \/ \E r \in Clients :
          seats' = [seats EXCEPT ![r] =
                      [i \in {0, 1} |-> IF @[i] = c THEN Nobody ELSE @[i]]]
  /\ UNCHANGED <<said, queue, log>>

Close(c) ==
  /\ status[c] = "out"
  /\ said' = [said EXCEPT ![c] = 0]
  /\ log' = [log EXCEPT ![c] = <<>>]
  /\ UNCHANGED <<status, seats, queue>>

Next ==
  \E c \in Clients :
    \/ Enter(c) \/ Refuse(c) \/ TellRole(c) \/ Speak(c)
    \/ Deliver(c) \/ Lose(c) \/ Leave(c) \/ Close(c)

Spec == Init /\ [][Next]_vars
=============================================================================
