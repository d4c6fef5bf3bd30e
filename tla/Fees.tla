-------------------------------- MODULE Fees --------------------------------
(***************************************************************************)
(* What a fill costs: crossvenue/fees.py.  Definitions only, no state.     *)
(*                                                                         *)
(* Prices are in cents, rates in hundredths of a percent, so that the fee  *)
(* before rounding is a whole number of 10^-8 dollars.  The code computes  *)
(* with binary fractions: where the exact product lies on a rounding       *)
(* boundary, its error decides the side, and the result is a set.          *)
(***************************************************************************)
EXTENDS Integers, Sequences, Functions

CENT == 1000000       \* in units of 10^-8 dollars
DECIMALS == 1000      \* _POLYMARKET_FEE_DECIMALS, in the same units

\* KALSHI_QUADRATIC_MAKER_MULTIPLIERS.
Quadratic == {"quadratic", "quadratic_with_maker_fees", "quadratic_with_combo_maker_fees"}
MakerMultiplier(fee_type) ==
  CASE fee_type = "quadratic" -> 0
    [] fee_type = "quadratic_with_maker_fees" -> 1
    [] fee_type = "quadratic_with_combo_maker_fees" -> 2

-----------------------------------------------------------------------------
(* A fee model is [rate, maker_rate, round_up_to_cent].  Each constructor   *)
(* answers the set of models it can build: none where the code raises       *)
(* UnsupportedFeeModelError.  m.readable: float() accepts the number.       *)

kalshi_fee_model(m) ==
  { [rate |-> 7 * m.fee_multiplier, maker_rate |-> 175 * MakerMultiplier(t),
     round_up_to_cent |-> TRUE] :
      t \in Quadratic \cap (IF m.readable THEN {m.fee_type} ELSE {}) }

Polymarket(rate) == [rate |-> rate, maker_rate |-> 0, round_up_to_cent |-> FALSE]

polymarket_fee_model(m) ==
  IF ~m.feesEnabled \/ ~m.feeSchedule THEN {Polymarket(0)}
  ELSE { Polymarket(r) : r \in IF m.exponent = 1 /\ m.readable THEN {m.rate} ELSE {} }

polymarket_us_fee_model(m) ==
  { Polymarket(r) : r \in IF m.readable /\ m.rate >= 0 THEN {m.rate} ELSE {} }

fee_model(m) ==
  CASE m.venue = "kalshi" -> kalshi_fee_model(m)
    [] m.venue = "intl" -> polymarket_fee_model(m)
    [] m.venue = "us" -> polymarket_us_fee_model(m)

-----------------------------------------------------------------------------
(* Rounding.                                                               *)

Ceiling(n, unit) == -((-n) \div unit) * unit

\* math.ceil(raw * 100): an exact cent may come out as the next one, never lower.
RoundUp(raw) ==
  { Ceiling(raw, CENT) } \cup (IF raw % CENT = 0 THEN {raw + CENT} ELSE {})

\* round(raw, 5): half way, either neighbour.
Nearest(raw) ==
  LET below == (raw \div DECIMALS) * DECIMALS
  IN  (IF 2 * (raw - below) <= DECIMALS THEN {below} ELSE {})
      \cup (IF 2 * (raw - below) >= DECIMALS THEN {below + DECIMALS} ELSE {})

\* fee_dollars_from_basis and maker_fee_dollars_from_basis, of either rate.
fee_dollars_from_basis(rate, round_up_to_cent, basis) ==
  IF basis <= 0 \/ rate = 0 THEN {0}
  ELSE IF round_up_to_cent THEN RoundUp(rate * basis) ELSE Nearest(rate * basis)

\* C x P x (1 - P) of one level of a fill.
LevelBasis(level) == level.contracts * level.price * (100 - level.price)

\* Each level rounded on its own.
FillFeePerLevel(rate, round_up_to_cent, levels) ==
  LET one(k) == fee_dollars_from_basis(rate, round_up_to_cent, LevelBasis(levels[k]))
  IN  { SumFunction(f) :
          f \in { g \in [DOMAIN levels -> UNION { one(k) : k \in DOMAIN levels }] :
                    \A k \in DOMAIN levels : g[k] \in one(k) } }

\* The basis accumulated over the levels, and rounded once.
FillFee(rate, round_up_to_cent, levels) ==
  fee_dollars_from_basis(rate, round_up_to_cent,
                         SumFunction([k \in DOMAIN levels |-> LevelBasis(levels[k])]))

-----------------------------------------------------------------------------
(* The reference: what the venue's schedule charges before it rounds.      *)

Owed(rate, levels) ==
  rate * SumFunction([k \in DOMAIN levels |->
                        levels[k].contracts * (100 * levels[k].price - levels[k].price * levels[k].price)])
=============================================================================
