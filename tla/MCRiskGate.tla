----------------------------- MODULE MCRiskGate -----------------------------
(* Small instances of RiskGate: two strikes of one event in one group.     *)
EXTENDS RiskGate

CONSTANTS t1, t2, e1, g1

MCTickers == {t1, t2}
MCEventOf == [t \in MCTickers |-> e1]

Wake(t, d, c, g) ==
  [ticker |-> t, direction |-> d, shard |-> 0, count |-> c, price |-> 1, group |-> g]

\* Both strikes, the second one dearer and without a group, and a wake for an
\* unknown shard.
AttemptWakes ==
  { Wake(t1, "yes", 2, g1), [Wake(t2, "yes", 2, NoGroup) EXCEPT !.price = 2],
    [Wake(t1, "yes", 2, g1) EXCEPT !.shard = -1] }

\* Both sides of one strike: their fills net out at the exchange.
PositionWakes == { Wake(t1, "yes", 1, g1), Wake(t1, "no", 2, g1) }
=============================================================================
