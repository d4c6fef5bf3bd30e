------------------------------- MODULE Sizing -------------------------------
(***************************************************************************)
(* How many contracts a fire asks for, and at which price: size_position() *)
(* of execution/position_sizing.py, and the snapping and the clamping of   *)
(* ExecutorServer._handle_fire.  Definitions only, no state.               *)
(*                                                                         *)
(* Costs and edges are in cents, fractions in percent, balances in         *)
(* dollars, wire prices and grids in hundredths of a cent.  Results are    *)
(* sets where the error of binary fractions decides.                       *)
(***************************************************************************)
EXTENDS Integers, Sequences, FiniteSetsExt

AtLeast0(n) == IF n < 0 THEN 0 ELSE n
Larger(m, n) == IF m < n THEN n ELSE m
Smaller(m, n) == IF m < n THEN m ELSE n

\* int(n / d): an exact quotient may come out just below itself.
Truncated(n, d) == { n \div d } \cup (IF n % d = 0 THEN { n \div d - 1 } ELSE {})

\* f.edge / (1 - f.cost) x kelly_fraction x balance / cost, as a fraction.
KellyNumerator(f) == AtLeast0(f.edge) * AtLeast0(f.kelly_fraction) * f.balance
KellyDenominator(f) == (100 - f.cost) * f.cost

\* The ceiling forgotten.
KellyUncapped(f) == Truncated(KellyNumerator(f), KellyDenominator(f))

\* The smaller of the Kelly stake and the ceiling, in contracts.
KellyCount(f) ==
  IF KellyNumerator(f) <= f.max_position_pct * f.balance * (100 - f.cost)
  THEN Truncated(KellyNumerator(f), KellyDenominator(f))
  ELSE Truncated(f.max_position_pct * f.balance, f.cost)

size_position(f) ==
  IF f.cost \notin 1..99 \/ f.balance <= 0 THEN {f.min_contract_count}
  ELSE { Larger(n, f.min_contract_count) : n \in KellyCount(f) }

\* What is asked for, f.available being the resting size in tenths, 0 if unknown.
\* A count below one is a refusal.
FireCount(f) ==
  { IF f.available > 0 THEN Smaller(n, f.available \div 10) ELSE n : n \in size_position(f) }

-----------------------------------------------------------------------------
(* The price grid: a sequence of ranges [start, end, step].                *)

\* round(price / step) * step: half way, either neighbour.
RoundTo(price, step) ==
  { g \in { (price \div step) * step, (price \div step + 1) * step } :
      2 * (price - g) <= step /\ 2 * (g - price) <= step }

Covering(price, ranges) ==
  { k \in DOMAIN ranges :
      ranges[k].step > 0 /\ ranges[k].start <= price /\ price <= ranges[k].end }

\* The first range's step for every price.
snapToFirst(price, ranges) ==
  RoundTo(price, IF ranges = <<>> THEN 100 ELSE ranges[1].step)

\* The step of the first range that holds the price; one cent if none does.
_snap_to_grid(price, ranges) ==
  RoundTo(price, IF Covering(price, ranges) = {} THEN 100
                 ELSE ranges[Min(Covering(price, ranges))].step)

-----------------------------------------------------------------------------
(* The reference: the prices that a market accepts.                        *)

OnGrid(price, ranges) ==
  IF ranges = <<>> THEN price % 100 = 0
  ELSE \A k \in Covering(price, ranges) : (price - ranges[k].start) % ranges[k].step = 0
=============================================================================
