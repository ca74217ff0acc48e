--------------------------- MODULE PacketChannel ---------------------------
(***************************************************************************)
(* What the packet path from the ICE agent's thread to the QUIC engine     *)
(* promises (xquic_ice.h, the comments on xquic_ice_on_recv and            *)
(* xquic_ice_drain_and_feed): a bounded FIFO channel.  A packet offered    *)
(* to the channel is refused, appended, or appended in place of the oldest *)
(* packet when the channel is full; packets are delivered in the order in  *)
(* which they were offered, each at most once.  Packets are numbered in    *)
(* the order in which they are offered.                                    *)
(***************************************************************************)
EXTENDS Naturals, Sequences

CONSTANT Capacity        \* the most packets the channel holds

VARIABLES
  offered,               \* number of packets offered so far
  chan,                  \* the packets that wait, oldest first
  delivered              \* history: every packet handed to the engine

vars == <<offered, chan, delivered>>

Init ==
  /\ offered = 0
  /\ chan = <<>>
  /\ delivered = <<>>

\* The packet is lost: it is empty, too long, or there is no memory for it.
Refuse ==
  /\ offered' = offered + 1
  /\ UNCHANGED <<chan, delivered>>

Accept ==
  /\ Len(chan) < Capacity
  /\ offered' = offered + 1
  /\ chan' = Append(chan, offered')
  /\ UNCHANGED delivered

\* A full channel gives up its oldest packet, and no other.
Displace ==
  /\ Len(chan) = Capacity
  /\ offered' = offered + 1
  /\ chan' = Append(Tail(chan), offered')
  /\ UNCHANGED delivered

Deliver ==
  /\ chan # <<>>
  /\ delivered' = Append(delivered, Head(chan))
  /\ chan' = Tail(chan)
  /\ UNCHANGED offered

Next == Refuse \/ Accept \/ Displace \/ Deliver

Spec == Init /\ [][Next]_vars
=============================================================================
