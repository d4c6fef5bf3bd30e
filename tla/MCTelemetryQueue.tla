-------------------------- MODULE MCTelemetryQueue --------------------------
(* Instances of TelemetryQueue for TLC: orders, refusals and latency rows. *)
EXTENDS TelemetryQueue

CONSTANTS f1, f2, r1, r2, s1
=============================================================================
