--------------------------- MODULE MC_MoqPublisher ---------------------------
(* A client, and one that comes later; each may be given a second catalog.   *)
EXTENDS MoqPublisher
=============================================================================
