--------------------------- MODULE MCWakeChannel ---------------------------
(* Instances of WakeChannel for TLC. *)
EXTENDS WakeChannel
=============================================================================
