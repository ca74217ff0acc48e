--------------------------- MODULE MC_IceSession ---------------------------
(* Three runs in one room: a call, and somebody who comes afterwards or is  *)
(* in the way; capacities at which lines are dropped.                       *)
EXTENDS IceSession
=============================================================================
