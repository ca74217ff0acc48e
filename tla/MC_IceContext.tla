--------------------------- MODULE MC_IceContext ---------------------------
(* A client whose ICE agent reports CONNECTED and COMPLETED.                *)
EXTENDS IceContext
=============================================================================
