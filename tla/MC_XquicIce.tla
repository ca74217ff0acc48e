---------------------------- MODULE MC_XquicIce ----------------------------
(* A small adapter: a list of two packets, a pipe of two bytes, so that     *)
(* both fill up, and enough packets to displace several.                    *)
EXTENDS XquicIce
=============================================================================
