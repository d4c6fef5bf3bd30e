---------------------------- MODULE MCRetention ----------------------------
(* An instance of Retention for TLC: the table that is kept for ever, one  *)
(* with the long period and one with the short one.                        *)
EXTENDS Retention

CONSTANTS c1, w1

MCTables == {"orders_fired", "latency_events", "market_snapshots"}
MCPruned == <<"latency_events", "market_snapshots">>
MCDays == [t \in MCTables |-> IF t = "market_snapshots" THEN 0 ELSE 1]
=============================================================================
