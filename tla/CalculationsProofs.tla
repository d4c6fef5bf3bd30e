------------------------- MODULE CalculationsProofs -------------------------
(***************************************************************************)
(* Machine-checked proofs about the pure calculations, for every input     *)
(* that the assumptions of Calculations admit.                             *)
(***************************************************************************)
EXTENDS Calculations, FiniteSetTheorems, WellFoundedInduction, TLAPS

-----------------------------------------------------------------------------
(* The inductive invariant: the input is one of those assumed, and the      *)
(* answer, once there is one, is an answer to it.                          *)

Environments_ == [what: {"env"}, env: Environs]

Asked ==
  \/ input \in Pairs
  \/ input \in Fills
  \/ input \in Stakes
  \/ input \in Quotes
  \/ input \in Corpora
  \/ input \in Environments_

Charged ==
  \/ fee_model(input.market) = {} /\ answer = {}
  \/ /\ fee_model(input.market) # {}
     /\ \E m \in fee_model(input.market) :
          \E f \in FillFee(Rate(m), m.round_up_to_cent, input.levels) :
             answer = { [rate |-> Rate(m), fee |-> f] }

Computed ==
  \/ answer = NONE
  \/ input \in Pairs /\ answer = _evaluate(input)
  \/ input \in Fills /\ Charged
  \/ input \in Stakes /\ answer \in FireCount(input)
  \/ input \in Quotes /\ answer \in _snap_to_grid(input.price, input.ranges)
  \/ input \in Corpora /\ answer = match_all(input.kalshi, input.others)
  \/ input \in Environments_ /\ answer = load_config(input.env)

\* The kinds of input are told apart by their names.
LEMMA Kinds ==
  /\ input \in Pairs => input.what = "pair"
  /\ input \in Fills => input.what = "fill"
  /\ input \in Stakes => input.what = "stake"
  /\ input \in Quotes => input.what = "quote"
  /\ input \in Corpora => input.what = "corpus"
  /\ input \in Environments_ => input.what = "env"
<1>1. input \in Pairs => input.what = "pair"
  BY PairInputs
<1>2. input \in Fills => input.what = "fill"
  BY DEF Fills
<1>3. input \in Stakes => input.what = "stake"
  BY StakeInputs
<1>4. input \in Quotes => input.what = "quote"
  BY DEF Quotes
<1>5. input \in Corpora => input.what = "corpus"
  BY CorpusInputs
<1>6. input \in Environments_ => input.what = "env"
  BY DEF Environments_
<1> QED BY <1>1, <1>2, <1>3, <1>4, <1>5, <1>6

LEMMA StepComputes == Asked /\ Computed /\ [Next]_vars => Asked' /\ Computed'
<1> SUFFICES ASSUME Asked, Computed, [Next]_vars PROVE Asked' /\ Computed'
  OBVIOUS
<1>1. CASE UNCHANGED vars
  BY <1>1 DEF vars, Asked, Computed, Charged, Rate
<1>2. CASE Next
  <2>0. answer = NONE /\ input' = input
    BY <1>2 DEF Next, Evaluate, Charge, SizeFire, Snap, MatchAll, Load, Ask
  <2>1. Asked'
    BY <2>0 DEF Asked
  <2>2. CASE Evaluate
    <3>1. input \in Pairs
      BY <2>2, Kinds DEF Asked, Evaluate, Ask
    <3> QED BY <2>0, <2>1, <2>2, <3>1 DEF Computed, Evaluate
  <2>3. CASE Charge
    <3>1. input \in Fills
      BY <2>3, Kinds DEF Asked, Charge, Ask
    <3>2. Charged'
      BY <2>0, <2>3 DEF Charge, Charged, Rate
    <3> QED BY <2>0, <2>1, <3>1, <3>2 DEF Computed
  <2>4. CASE SizeFire
    <3>1. input \in Stakes
      BY <2>4, Kinds DEF Asked, SizeFire, Ask
    <3> QED BY <2>0, <2>1, <2>4, <3>1 DEF Computed, SizeFire
  <2>5. CASE Snap
    <3>1. input \in Quotes
      BY <2>5, Kinds DEF Asked, Snap, Ask
    <3> QED BY <2>0, <2>1, <2>5, <3>1 DEF Computed, Snap
  <2>6. CASE MatchAll
    <3>1. input \in Corpora
      BY <2>6, Kinds DEF Asked, MatchAll, Ask
    <3> QED BY <2>0, <2>1, <2>6, <3>1 DEF Computed, MatchAll
  <2>7. CASE Load
    <3>1. input \in Environments_
      BY <2>7, Kinds DEF Asked, Load, Ask
    <3> QED BY <2>0, <2>1, <2>7, <3>1 DEF Computed, Load
  <2> QED BY <1>2, <2>2, <2>3, <2>4, <2>5, <2>6, <2>7 DEF Next
<1> QED BY <1>1, <1>2

\* Every answer of the calculations is one that the code computes from an input
\* it can be given.
LEMMA AnswersAreComputed == Spec => [](Asked /\ Computed)
<1>1. Init => Asked /\ Computed
  BY DEF Init, Asked, Computed, Environments_
<1> QED BY <1>1, StepComputes, PTL DEF Spec

-----------------------------------------------------------------------------
(* Arithmetic.                                                             *)

\* Division with remainder.
LEMMA Divides ==
  ASSUME NEW n \in Int, NEW d \in Int, d > 0
  PROVE  /\ n \div d \in Int /\ n % d \in 0..(d - 1)
         /\ n = d * (n \div d) + (n % d)
OBVIOUS

LEMMA TimesMonotonic ==
  ASSUME NEW a \in Int, NEW b \in Int, NEW c \in Int, a <= b, 0 <= c
  PROVE  a * c <= b * c
OBVIOUS

LEMMA TruncatedIsBelow ==
  ASSUME NEW n \in Int, NEW d \in Int, d > 0, NEW k \in Truncated(n, d)
  PROVE  k \in Int /\ k * d <= n
<1> DEFINE q == n \div d
<1>1. q \in Int /\ d * q <= n
  BY Divides
<1>2. k = q \/ k = q - 1
  BY DEF Truncated
<1> HIDE DEF q
<1>3. k \in Int /\ k <= q
  BY <1>1, <1>2
<1>4. k * d <= q * d
  BY <1>1, <1>3, TimesMonotonic
<1> QED BY <1>1, <1>3, <1>4

-----------------------------------------------------------------------------
(* Sizing.                                                                 *)

\* A count of fractional Kelly obeys both ceilings: the smaller is the one it is
\* cut to, and it lies below the larger as well.
LEMMA KellyWithinCeilings ==
  ASSUME NEW f \in Stakes, f.cost \in 1..99, f.balance > 0, NEW k \in KellyCount(f), k > 0
  PROVE  /\ k \in Int
         /\ k * f.cost <= f.max_position_pct * f.balance
         /\ k * f.cost * (100 - f.cost) <= f.edge * f.kelly_fraction * f.balance
<1>0. /\ f.cost \in Int /\ f.balance \in Int /\ f.edge \in Int /\ f.kelly_fraction \in Int
      /\ f.max_position_pct \in Nat
  BY StakeInputs
<1> DEFINE c == f.cost
           s == 100 - c
           N == KellyNumerator(f)
           D == KellyDenominator(f)
           P == f.max_position_pct * f.balance
           E == f.edge * f.kelly_fraction
<1>1. c \in 1..99 /\ s \in 1..99 /\ P \in Int /\ E \in Int /\ D = s * c
  BY <1>0 DEF KellyDenominator
<1>2. N = AtLeast0(f.edge) * AtLeast0(f.kelly_fraction) * f.balance
  BY DEF KellyNumerator
<1>3. N \in Int
  BY <1>0, <1>2 DEF AtLeast0
<1>4. N > 0 => N <= E * f.balance
  <2>1. CASE f.edge > 0 /\ f.kelly_fraction > 0
    BY <1>0, <1>2, <2>1 DEF AtLeast0
  <2>2. CASE ~(f.edge > 0 /\ f.kelly_fraction > 0)
    <3>1. AtLeast0(f.edge) = 0 \/ AtLeast0(f.kelly_fraction) = 0
      BY <1>0, <2>2 DEF AtLeast0
    <3>2. AtLeast0(f.edge) \in Int /\ AtLeast0(f.kelly_fraction) \in Int
      BY <1>0 DEF AtLeast0
    <3>3. N = 0
      BY <1>0, <1>2, <3>1, <3>2
    <3> QED BY <3>3
  <2> QED BY <2>1, <2>2
<1> HIDE DEF s, P, E
<1>5. D \in Int /\ D > 0
  BY <1>1
<1>6. CASE N <= P * s
  <2>1. k \in Truncated(N, D)
    BY <1>6 DEF KellyCount, P, s
  <2> HIDE DEF N, D
  <2>2. k \in Int /\ k * D <= N
    BY <1>3, <1>5, <2>1, TruncatedIsBelow
  <2>3. k * (s * c) <= N /\ k * (s * c) <= P * s
    BY <1>1, <1>3, <1>6, <2>2
  <2>4. k * c <= P
    BY <1>1, <2>2, <2>3
  <2>5. N > 0
    <3>1. 1 * D <= k * D
      BY <1>5, <2>2, TimesMonotonic
    <3> QED BY <1>3, <1>5, <2>2, <3>1
  <2>6. k * c * s <= E * f.balance
    BY <1>0, <1>1, <1>3, <1>4, <2>2, <2>3, <2>5
  <2> QED BY <2>2, <2>4, <2>6 DEF P, E, s
<1>7. CASE ~(N <= P * s)
  <2>1. k \in Truncated(P, c)
    BY <1>7 DEF KellyCount, P, s
  <2> HIDE DEF N, D
  <2>2. k \in Int /\ k * c <= P
    <3>1. c \in Int /\ c > 0 /\ P \in Int
      BY <1>1
    <3> HIDE DEF c
    <3> QED BY <2>1, <3>1, TruncatedIsBelow
  <2>3. k * c * s <= P * s
    <3>1. k * c \in Int /\ s \in Int /\ 0 <= s
      BY <1>1, <2>2
    <3> HIDE DEF c
    <3> QED BY <1>1, <2>2, <3>1, TimesMonotonic
  <2>4. P > 0
    BY <1>1, <2>2
  <2>5. N > 0
    BY <1>1, <1>3, <1>7, <2>4
  <2>6. k * c * s <= E * f.balance
    BY <1>0, <1>1, <1>3, <1>4, <1>7, <2>2, <2>3, <2>5
  <2> QED BY <2>2, <2>6 DEF P, E, s
<1> QED BY <1>6, <1>7

LEMMA CountsWithinCeilings ==
  ASSUME NEW f \in Stakes, NEW a \in FireCount(f)
  PROVE  /\ a > f.min_contract_count =>
              /\ f.cost \in 1..99
              /\ a * f.cost <= f.max_position_pct * f.balance
              /\ a * f.cost * (100 - f.cost) <= f.edge * f.kelly_fraction * f.balance
         /\ f.available > 0 => 10 * a <= f.available
<1>0. /\ f.cost \in Int /\ f.balance \in Int /\ f.edge \in Int /\ f.kelly_fraction \in Int
      /\ f.max_position_pct \in Nat /\ f.min_contract_count \in Nat /\ f.available \in Nat
  BY StakeInputs
<1>1. PICK n \in size_position(f) : a = IF f.available > 0 THEN Smaller(n, f.available \div 10) ELSE n
  BY DEF FireCount
<1>2. n \in Int
  <2>1. CASE f.cost \notin 1..99 \/ f.balance <= 0
    BY <1>0, <2>1 DEF size_position
  <2>2. CASE ~(f.cost \notin 1..99 \/ f.balance <= 0)
    <3>1. PICK k \in KellyCount(f) : n = Larger(k, f.min_contract_count)
      BY <2>2 DEF size_position
    <3>2. k \in Int
      <4>1. KellyNumerator(f) \in Int /\ KellyDenominator(f) \in Int
        BY <1>0 DEF KellyNumerator, KellyDenominator, AtLeast0
      <4>2. f.max_position_pct * f.balance \in Int /\ f.cost > 0 /\ KellyDenominator(f) > 0
        BY <1>0, <2>2 DEF KellyDenominator
      <4> QED BY <1>0, <3>1, <4>1, <4>2, TruncatedIsBelow DEF KellyCount
    <3> QED BY <1>0, <3>1, <3>2 DEF Larger
  <2> QED BY <2>1, <2>2
<1>3. a \in Int /\ a <= n /\ (f.available > 0 => 10 * a <= f.available)
  BY <1>0, <1>1, <1>2 DEF Smaller
<1>4. ASSUME a > f.min_contract_count
      PROVE  /\ f.cost \in 1..99
             /\ a * f.cost <= f.max_position_pct * f.balance
             /\ a * f.cost * (100 - f.cost) <= f.edge * f.kelly_fraction * f.balance
  <2>1. f.cost \in 1..99 /\ f.balance > 0
    BY <1>0, <1>2, <1>3, <1>4 DEF size_position
  <2>2. PICK k \in KellyCount(f) : n = Larger(k, f.min_contract_count)
    BY <1>0, <2>1 DEF size_position
  <2>3. n = k
    BY <1>0, <1>2, <1>3, <1>4, <2>2 DEF Larger
  <2>4. k > 0
    BY <1>0, <1>2, <1>3, <1>4, <2>3
  <2>5. /\ k * f.cost <= f.max_position_pct * f.balance
        /\ k * f.cost * (100 - f.cost) <= f.edge * f.kelly_fraction * f.balance
    BY <2>1, <2>2, <2>4, KellyWithinCeilings
  <2> DEFINE c == f.cost
             s == 100 - c
  <2>6. c \in Int /\ 0 <= c /\ s \in Int /\ 0 <= s
    BY <2>1
  <2> HIDE DEF c, s
  <2>7. a * c <= k * c
    BY <1>2, <1>3, <2>3, <2>6, TimesMonotonic
  <2>8. a * c \in Int /\ k * c \in Int
    BY <1>2, <1>3, <2>3, <2>6
  <2>9. (a * c) * s <= (k * c) * s
    BY <2>6, <2>7, <2>8, TimesMonotonic
  <2>10. a * c <= f.max_position_pct * f.balance
    BY <1>0, <2>5, <2>7, <2>8 DEF c
  <2>11. (a * c) * s <= f.edge * f.kelly_fraction * f.balance
    <3>1. (k * c) * s <= f.edge * f.kelly_fraction * f.balance
      BY <2>5 DEF c, s
    <3>2. f.edge * f.kelly_fraction * f.balance \in Int /\ (k * c) * s \in Int /\ (a * c) * s \in Int
      BY <1>0, <2>6, <2>8
    <3> QED BY <2>9, <3>1, <3>2
  <2> QED BY <2>1, <2>10, <2>11 DEF c, s
<1> QED BY <1>3, <1>4

\* StakeCapped: for all fires, balances and settings, an order above the floor costs
\* neither more than the ceiling on a position nor more than fractional Kelly, and
\* none asks for more than rests at the level.
THEOREM StakesAreCapped == Spec => []StakeCapped
<1>1. Asked /\ Computed => StakeCapped
  <2> SUFFICES ASSUME Asked, Computed, input.what = "stake", answer # NONE PROVE StakeCapped
    BY DEF StakeCapped, Answered
  <2>1. input \in Stakes /\ answer \in FireCount(input)
    BY Kinds DEF Computed
  <2> QED BY <2>1, CountsWithinCeilings DEF StakeCapped
<1> QED BY <1>1, AnswersAreComputed, PTL

-----------------------------------------------------------------------------
(* The price grid.                                                         *)

LEMMA SmallestIsMin ==
  ASSUME NEW S \in SUBSET Nat, S # {}
  PROVE  Min(S) \in S /\ \A y \in S : Min(S) <= y
<1>1. PICK n \in S : \A m \in S : ~ (<<m, n>> \in OpToRel(<, Nat))
  BY WFMin, NatLessThanWellFounded
<1>2. \A m \in S : n <= m
  <2> SUFFICES ASSUME NEW m \in S PROVE n <= m
    OBVIOUS
  <2>1. ~ (m < n)
    BY <1>1 DEF OpToRel
  <2> QED BY <2>1
<1> QED BY <1>2 DEF Min

\* What leaves no remainder is a multiple.
LEMMA Multiples ==
  ASSUME NEW n \in Int, NEW d \in Int, d > 0
  PROVE  n % d = 0 <=> \E q \in Int : n = q * d
<1>1. ASSUME n % d = 0 PROVE \E q \in Int : n = q * d
  <2>1. n = (n \div d) * d /\ n \div d \in Int
    BY <1>1, Divides
  <2> QED BY <2>1
<1>2. ASSUME NEW q \in Int, n = q * d PROVE n % d = 0
  <2> DEFINE t == n \div d
             r == n % d
             e == q - t
  <2>1. t \in Int /\ r \in 0..(d - 1) /\ n = d * t + r
    BY Divides
  <2> HIDE DEF t, r
  <2>2. e \in Int /\ r = d * e
    BY <1>2, <2>1
  <2> HIDE DEF e
  <2>3. CASE e >= 1
    <3>1. 1 * d <= e * d
      BY <2>2, <2>3, TimesMonotonic
    <3> QED BY <2>1, <2>2, <3>1
  <2>4. CASE e <= -1
    <3>1. e * d <= -1 * d
      BY <2>2, <2>4, TimesMonotonic
    <3> QED BY <2>1, <2>2, <3>1
  <2>5. CASE e = 0
    BY <2>1, <2>2, <2>5 DEF r
  <2> QED BY <2>2, <2>3, <2>4, <2>5
<1> QED BY <1>1, <1>2

LEMMA MultiplesDiffer ==
  ASSUME NEW m \in Int, NEW n \in Int, NEW d \in Int, d > 0, m % d = 0, n % d = 0
  PROVE  /\ (m - n) % d = 0
         /\ m < n => m + d <= n
<1>1. PICK p \in Int, q \in Int : m = p * d /\ n = q * d
  BY Multiples
<1>2. m - n = (p - q) * d /\ p - q \in Int /\ m - n \in Int
  BY <1>1
<1>3. (m - n) % d = 0
  BY <1>2, Multiples
<1>4. ASSUME m < n PROVE m + d <= n
  <2>1. CASE p + 1 <= q
    <3>1. (p + 1) * d <= q * d
      BY <2>1, TimesMonotonic
    <3> QED BY <1>1, <3>1
  <2>2. CASE q <= p
    <3>1. q * d <= p * d
      BY <2>2, TimesMonotonic
    <3> QED BY <1>1, <1>4, <3>1
  <2> QED BY <2>1, <2>2
<1> QED BY <1>3, <1>4

LEMMA RoundsToMultiple ==
  ASSUME NEW p \in Int, NEW d \in Int, d > 0, NEW g \in RoundTo(p, d)
  PROVE  /\ g \in Int /\ g % d = 0
         /\ 2 * (p - g) <= d /\ 2 * (g - p) <= d
<1>1. p \div d \in Int
  BY Divides
<1> DEFINE q == p \div d
<1>2. /\ g = q * d \/ g = (q + 1) * d
      /\ 2 * (p - g) <= d /\ 2 * (g - p) <= d
  BY DEF RoundTo
<1> HIDE DEF q
<1>3. g \in Int /\ \E k \in Int : g = k * d
  <2>1. q \in Int /\ q + 1 \in Int
    BY <1>1 DEF q
  <2>2. q * d \in Int /\ (q + 1) * d \in Int
    BY <2>1
  <2> QED BY <1>2, <2>1, <2>2
<1> QED BY <1>2, <1>3, Multiples

\* Rounding stays in the range that holds the price, whose ends are on its grid.
LEMMA RoundsWithinRange ==
  ASSUME NEW p \in Int, NEW d \in Int, d > 0, NEW g \in RoundTo(p, d),
         NEW s \in Int, NEW e \in Int, s % d = 0, e % d = 0, s <= p, p <= e
  PROVE  s <= g /\ g <= e
<1>1. g \in Int /\ g % d = 0 /\ 2 * (p - g) <= d /\ 2 * (g - p) <= d
  BY RoundsToMultiple
<1>2. ASSUME g < s PROVE FALSE
  <2>1. g + d <= s
    BY <1>1, <1>2, MultiplesDiffer
  <2> QED BY <1>1, <2>1
<1>3. ASSUME e < g PROVE FALSE
  <2>1. e + d <= g
    BY <1>1, <1>3, MultiplesDiffer
  <2> QED BY <1>1, <2>1
<1> QED BY <1>1, <1>2, <1>3

LEMMA SnapsOnGrid ==
  ASSUME NEW p \in Prices, NEW ranges \in Grids, NEW g \in _snap_to_grid(p, ranges)
  PROVE  /\ OnGrid(g, ranges)
         /\ \E step \in IF Covering(p, ranges) = {} THEN {100}
                        ELSE { ranges[k].step : k \in Covering(p, ranges) } :
              2 * Apart(g, p) <= step
<1> DEFINE held == Covering(p, ranges)
<1>0. p \in Int /\ PriceGrid(ranges) /\ ranges \in Seq([start: Int, end: Int, step: Int])
  BY QuoteInputs
<1>1. /\ held \subseteq DOMAIN ranges
      /\ \A k \in DOMAIN ranges : /\ ranges[k].start \in Int /\ ranges[k].end \in Int
                                  /\ ranges[k].step \in Int /\ k \in Nat
  <2>1. \A k \in DOMAIN ranges : k \in Nat /\ ranges[k] \in [start: Int, end: Int, step: Int]
    <3> DEFINE R == [start: Int, end: Int, step: Int]
    <3>1. ranges \in Seq(R)
      BY <1>0
    <3> HIDE DEF R
    <3>2. \A k \in DOMAIN ranges : k \in Nat /\ ranges[k] \in R
      BY <3>1
    <3> QED BY <3>2 DEF R
  <2> QED BY <2>1 DEF Covering
<1>2. CASE held = {}
  <2>1. ranges = <<>>
    BY <1>0, <1>2 DEF PriceGrid
  <2>2. g \in RoundTo(p, 100)
    BY <1>2 DEF _snap_to_grid
  <2>3. g \in Int /\ g % 100 = 0 /\ 2 * (p - g) <= 100 /\ 2 * (g - p) <= 100
    BY <1>0, <2>2, RoundsToMultiple
  <2>4. 2 * Apart(g, p) <= 100
    BY <1>0, <2>3 DEF Apart
  <2> QED BY <1>2, <2>1, <2>3, <2>4 DEF OnGrid
<1>3. CASE held # {}
  <2> DEFINE m == Min(held)
             d == ranges[m].step
  <2>1. m \in held
    BY <1>1, <1>3, SmallestIsMin
  <2>2. g \in RoundTo(p, d)
    BY <1>3 DEF _snap_to_grid
  <2> HIDE DEF m
  <2>3. /\ m \in DOMAIN ranges /\ d \in Int /\ d > 0
        /\ ranges[m].start <= p /\ p <= ranges[m].end
    BY <1>1, <2>1 DEF Covering
  <2>4. /\ ranges[m].start % d = 0 /\ ranges[m].end % d = 0
        /\ ranges[m].start \in Int /\ ranges[m].end \in Int
    BY <1>0, <1>1, <2>3 DEF PriceGrid
  <2> HIDE DEF d
  <2>5. g \in Int /\ g % d = 0 /\ 2 * (p - g) <= d /\ 2 * (g - p) <= d
    BY <1>0, <2>2, <2>3, RoundsToMultiple
  <2>6. ranges[m].start <= g /\ g <= ranges[m].end
    <3>1. PICK s \in Int, e \in Int : s = ranges[m].start /\ e = ranges[m].end
      BY <2>4
    <3>2. s % d = 0 /\ e % d = 0 /\ s <= p /\ p <= e
      BY <2>3, <2>4, <3>1
    <3>3. s <= g /\ g <= e
      BY <1>0, <2>2, <2>3, <3>2, RoundsWithinRange
    <3> QED BY <3>1, <3>3
  <2>7. ASSUME NEW k \in Covering(g, ranges)
        PROVE  (g - ranges[k].start) % ranges[k].step = 0
    <3>1. /\ k \in DOMAIN ranges /\ ranges[k].start <= g /\ g <= ranges[k].end
          /\ ranges[k].start \in Int /\ ranges[k].end \in Int
          /\ ranges[k].step \in Int /\ ranges[k].step > 0
      BY <1>1 DEF Covering
    <3>2. ranges[k].start % ranges[k].step = 0 /\ ranges[k].end % ranges[k].step = 0
      BY <1>0, <3>1 DEF PriceGrid
    <3>3. k = m \/ ranges[m].end <= ranges[k].start \/ ranges[k].end <= ranges[m].start
      BY <1>0, <2>3, <3>1 DEF PriceGrid
    \* At the end that two ranges share, the price is on both their grids.
    <3>4. g % ranges[k].step = 0
      <4>1. CASE k = m
        BY <2>5, <4>1 DEF d
      <4>2. CASE ranges[m].end <= ranges[k].start
        <5>1. g = ranges[k].start
          BY <2>4, <2>5, <2>6, <3>1, <4>2
        <5> QED BY <3>2, <5>1
      <4>3. CASE ranges[k].end <= ranges[m].start
        <5>1. g = ranges[k].end
          BY <2>4, <2>5, <2>6, <3>1, <4>3
        <5> QED BY <3>2, <5>1
      <4> QED BY <3>3, <4>1, <4>2, <4>3
    <3> QED BY <2>5, <3>1, <3>2, <3>4, MultiplesDiffer
  <2>8. OnGrid(g, ranges)
    <3>1. ranges # <<>>
      BY <2>3
    <3> QED BY <2>7, <3>1 DEF OnGrid
  <2>9. 2 * Apart(g, p) <= d
    BY <1>0, <2>5 DEF Apart
  <2> QED BY <1>3, <2>1, <2>8, <2>9 DEF d
<1> QED BY <1>2, <1>3

\* SnapOnGrid: for every grid whose ranges begin and end on their own steps, the
\* price that leaves is accepted by every range that holds it, the one beyond a
\* shared end included, and lies within half a step of the quoted one.
THEOREM SnapsAreOnGrid == Spec => []SnapOnGrid
<1>1. Asked /\ Computed => SnapOnGrid
  <2> SUFFICES ASSUME Asked, Computed, input.what = "quote", answer # NONE PROVE SnapOnGrid
    BY DEF SnapOnGrid, Answered
  <2>1. input \in Quotes /\ answer \in _snap_to_grid(input.price, input.ranges)
    BY Kinds DEF Computed
  <2>2. input.price \in Prices /\ input.ranges \in Grids
    BY <2>1 DEF Quotes
  <2> QED BY <2>1, <2>2, SnapsOnGrid DEF SnapOnGrid
<1> QED BY <1>1, AnswersAreComputed, PTL

-----------------------------------------------------------------------------
(* Configuration.                                                          *)

\* The spellings that are taken for yes, none of them the empty one.
LEMMA TruthySaysYes ==
  ASSUME NEW text
  PROVE  Truthy(text) <=> text \in SaysYes
BY DEF Truthy, StripLower, SaysYes

\* What load_config keeps of an environment.
LEMMA LoadedFields ==
  ASSUME NEW env \in Environs, NEW c \in load_config(env)
  PROVE  /\ c.environment = EnvGet(env, "ENVIRONMENT", "demo")
         /\ c.environment \in {"demo", "prod"}
         /\ c.allow_production_orders = Truthy(EnvGet(env, "ALLOW_PRODUCTION_ORDERS", ""))
         /\ c.risk_gate_enabled = Truthy(EnvGet(env, "RISK_GATE_ENABLED", "true"))
         /\ c.key = EnvGet(env, "API_KEY_ID", "")
         /\ c.path = PathOf(EnvGet(env, "PRIVATE_KEY_PATH", ""))
         /\ c.demo_key = EnvGet(env, "DEMO_API_KEY_ID", "")
         /\ c.demo_path = PathOf(EnvGet(env, "DEMO_PRIVATE_KEY_PATH", ""))
         /\ c.prod_key = EnvGet(env, "PROD_API_KEY_ID", "")
         /\ c.prod_path = PathOf(EnvGet(env, "PROD_PRIVATE_KEY_PATH", ""))
         /\ c.demo_url = EnvGet(env, "DEMO_BASE_URL", "")
         /\ c.prod_url = EnvGet(env, "PROD_BASE_URL", "")
<1>1. ~Refused(env)
  BY DEF load_config
<1>2. EnvGet(env, "ENVIRONMENT", "demo") \in {"demo", "prod"}
  BY <1>1 DEF Refused, Environments
<1> DEFINE allow == Truthy(EnvGet(env, "ALLOW_PRODUCTION_ORDERS", ""))
           gate == Truthy(EnvGet(env, "RISK_GATE_ENABLED", "true"))
<1>4. allow \in BOOLEAN /\ gate \in BOOLEAN
  BY DEF Truthy
<1> DEFINE r == [environment |-> EnvGet(env, "ENVIRONMENT", "demo"),
                 time_in_force |-> EnvGet(env, "ORDER_TIME_IN_FORCE", "fill_or_kill"),
                 allowed |-> Indexes(EnvGet(env, "ALLOWED_EXCHANGE_INDEXES", "")),
                 allow_production_orders |-> allow,
                 risk_gate_enabled |-> gate,
                 max_attempts_per_hour |-> EnvGet(env, "RISK_MAX_ATTEMPTS_PER_HOUR", "10"),
                 key |-> EnvGet(env, "API_KEY_ID", ""),
                 path |-> PathOf(EnvGet(env, "PRIVATE_KEY_PATH", "")),
                 demo_key |-> EnvGet(env, "DEMO_API_KEY_ID", ""),
                 demo_path |-> PathOf(EnvGet(env, "DEMO_PRIVATE_KEY_PATH", "")),
                 prod_key |-> EnvGet(env, "PROD_API_KEY_ID", ""),
                 prod_path |-> PathOf(EnvGet(env, "PROD_PRIVATE_KEY_PATH", "")),
                 demo_url |-> EnvGet(env, "DEMO_BASE_URL", ""),
                 prod_url |-> EnvGet(env, "PROD_BASE_URL", "")]
<1>5. c = r
  <2>1. load_config(env) = {r}
    BY <1>1, Zenon DEF load_config
  <2> QED BY <2>1, Zenon
<1> HIDE DEF allow, gate
<1>6. /\ r.environment = EnvGet(env, "ENVIRONMENT", "demo")
      /\ r.allow_production_orders = allow /\ r.risk_gate_enabled = gate
      /\ r.key = EnvGet(env, "API_KEY_ID", "")
      /\ r.path = PathOf(EnvGet(env, "PRIVATE_KEY_PATH", ""))
      /\ r.demo_key = EnvGet(env, "DEMO_API_KEY_ID", "")
      /\ r.demo_path = PathOf(EnvGet(env, "DEMO_PRIVATE_KEY_PATH", ""))
      /\ r.prod_key = EnvGet(env, "PROD_API_KEY_ID", "")
      /\ r.prod_path = PathOf(EnvGet(env, "PROD_PRIVATE_KEY_PATH", ""))
      /\ r.demo_url = EnvGet(env, "DEMO_BASE_URL", "")
      /\ r.prod_url = EnvGet(env, "PROD_BASE_URL", "")
  OBVIOUS
<1> HIDE DEF r
<1> QED BY <1>2, <1>5, <1>6, Zenon DEF allow, gate

\* Every credential comes from the variables of the chosen environment or from the
\* shared ones; the id and the path fall back together when both, or none, are given.
LEMMA CredentialsPair ==
  ASSUME input.env \in Environs, NEW c \in load_config(input.env)
  PROVE  /\ resolved_api_key_id(c) =
              EnvGet(input.env, IF GivesKey(Own(c)) THEN Own(c).id ELSE Shared.id, "")
         /\ resolved_private_key_path(c) =
              PathOf(EnvGet(input.env, IF GivesPath(Own(c)) THEN Own(c).path ELSE Shared.path, ""))
<1> DEFINE Get(name) == EnvGet(input.env, name, "")
<1>1. /\ c.environment \in {"demo", "prod"}
      /\ c.key = Get("API_KEY_ID") /\ c.path = PathOf(Get("PRIVATE_KEY_PATH"))
      /\ c.demo_key = Get("DEMO_API_KEY_ID") /\ c.demo_path = PathOf(Get("DEMO_PRIVATE_KEY_PATH"))
      /\ c.prod_key = Get("PROD_API_KEY_ID") /\ c.prod_path = PathOf(Get("PROD_PRIVATE_KEY_PATH"))
  BY LoadedFields
<1>2. /\ GivesKey(Own(c)) <=> Get(Own(c).id) # ""
      /\ GivesPath(Own(c)) <=> Get(Own(c).path) \notin {"", "."}
  BY DEF GivesKey, GivesPath
<1>3. Shared.id = "API_KEY_ID" /\ Shared.path = "PRIVATE_KEY_PATH"
  BY DEF Shared
<1>4. \A text : PathOf(text) \in {"", "."} <=> text \in {"", "."}
  BY DEF PathOf
<1> HIDE DEF Get
<1>5. /\ resolved_api_key_id(c) = IF Get(Own(c).id) = "" THEN Get(Shared.id) ELSE Get(Own(c).id)
      /\ resolved_private_key_path(c) =
           IF Get(Own(c).path) \in {"", "."} THEN PathOf(Get(Shared.path)) ELSE PathOf(Get(Own(c).path))
  <2>1. CASE c.environment = "prod"
    <3>1. Own(c).id = "PROD_API_KEY_ID" /\ Own(c).path = "PROD_PRIVATE_KEY_PATH"
      BY <2>1 DEF Own
    <3> QED BY <1>1, <1>3, <1>4, <2>1, <3>1 DEF resolved_api_key_id, resolved_private_key_path
  <2>2. CASE c.environment = "demo"
    <3>1. Own(c).id = "DEMO_API_KEY_ID" /\ Own(c).path = "DEMO_PRIVATE_KEY_PATH"
      BY <2>2 DEF Own
    <3> QED BY <1>1, <1>3, <1>4, <2>2, <3>1 DEF resolved_api_key_id, resolved_private_key_path
  <2> QED BY <1>1, <2>1, <2>2
<1>6. /\ resolved_api_key_id(c) = Get(IF GivesKey(Own(c)) THEN Own(c).id ELSE Shared.id)
      /\ resolved_private_key_path(c) =
           PathOf(Get(IF GivesPath(Own(c)) THEN Own(c).path ELSE Shared.path))
  BY <1>2, <1>5
<1> QED BY <1>6 DEF Get

\* What runs in the demo environment stays with the demo variables' host, and with
\* credentials that are not production's alone.
LEMMA DemoStaysOnDemo ==
  ASSUME input.env \in Environs, NEW c \in load_config(input.env), c.environment = "demo"
  PROVE  OnDemo(c)
<1>1. /\ Own(c).id = "DEMO_API_KEY_ID" /\ Own(c).path = "DEMO_PRIVATE_KEY_PATH"
      /\ Shared.id = "API_KEY_ID" /\ Shared.path = "PRIVATE_KEY_PATH"
  BY DEF Own, Shared
<1>2. base_url(c) = EnvGet(input.env, "DEMO_BASE_URL", "")
  BY LoadedFields DEF base_url
<1>3. resolved_api_key_id(c) \in
        { EnvGet(input.env, n, "") : n \in {"DEMO_API_KEY_ID", "API_KEY_ID"} }
  BY <1>1, CredentialsPair
<1>4. resolved_private_key_path(c) \in
        { PathOf(EnvGet(input.env, n, "")) : n \in {"DEMO_PRIVATE_KEY_PATH", "PRIVATE_KEY_PATH"} }
  BY <1>1, CredentialsPair
<1> QED BY <1>2, <1>3, <1>4 DEF OnDemo

\* ProductionIsDeliberate: whatever an environment sets its variables to, orders leave
\* the demo variable's host only if two others say so, demo processes stay on it, an
\* unset variable leaves the gate on, and a complete pair of credentials is used as one.
THEOREM ProductionTakesTwoSwitches == Spec => []ProductionIsDeliberate
<1>1. Asked /\ Computed => ProductionIsDeliberate
  <2> SUFFICES ASSUME Asked, Computed, input.what = "env", answer # NONE PROVE ProductionIsDeliberate
    BY DEF ProductionIsDeliberate, Answered
  <2> SUFFICES ASSUME NEW c \in answer
               PROVE  /\ orders_permitted(c) =>
                           \/ /\ Said("ENVIRONMENT") = "prod"
                              /\ Said("ALLOW_PRODUCTION_ORDERS") \in SaysYes
                           \/ OnDemo(c)
                      /\ demo_trading_process(c) => OnDemo(c)
                      /\ ~c.risk_gate_enabled => /\ "RISK_GATE_ENABLED" \in DOMAIN input.env
                                                 /\ Said("RISK_GATE_ENABLED") \notin SaysYes
                      /\ (GivesKey(Own(c)) <=> GivesPath(Own(c))) =>
                           SignsWith(c, IF GivesKey(Own(c)) THEN Own(c) ELSE Shared)
    BY DEF ProductionIsDeliberate
  <2>1. input.env \in Environs /\ c \in load_config(input.env)
    BY Kinds DEF Computed, Environments_
  <2>2. /\ c.environment = EnvGet(input.env, "ENVIRONMENT", "demo")
        /\ c.environment \in {"demo", "prod"}
        /\ c.allow_production_orders = Truthy(EnvGet(input.env, "ALLOW_PRODUCTION_ORDERS", ""))
        /\ c.risk_gate_enabled = Truthy(EnvGet(input.env, "RISK_GATE_ENABLED", "true"))
    BY <2>1, LoadedFields
  <2>3. ASSUME orders_permitted(c), c.environment = "prod"
        PROVE  Said("ENVIRONMENT") = "prod" /\ Said("ALLOW_PRODUCTION_ORDERS") \in SaysYes
    <3>1. c.allow_production_orders
      BY <2>2, <2>3 DEF orders_permitted
    <3>2. EnvGet(input.env, "ALLOW_PRODUCTION_ORDERS", "") \in SaysYes
      BY <2>2, <3>1, TruthySaysYes
    <3>3. "" \notin SaysYes
      BY DEF SaysYes
    <3> QED BY <2>2, <2>3, <3>2, <3>3 DEF Said, EnvGet
  <2>4. c.environment = "demo" => OnDemo(c)
    BY <2>1, DemoStaysOnDemo
  <2>5. demo_trading_process(c) => OnDemo(c)
    BY <2>4 DEF demo_trading_process
  <2>6. ASSUME ~c.risk_gate_enabled
        PROVE  "RISK_GATE_ENABLED" \in DOMAIN input.env /\ Said("RISK_GATE_ENABLED") \notin SaysYes
    <3>1. EnvGet(input.env, "RISK_GATE_ENABLED", "true") \notin SaysYes
      BY <2>2, <2>6, TruthySaysYes
    <3>2. "true" \in SaysYes
      BY DEF SaysYes
    <3> QED BY <3>1, <3>2 DEF Said, EnvGet
  <2>7. ASSUME GivesKey(Own(c)) <=> GivesPath(Own(c))
        PROVE  SignsWith(c, IF GivesKey(Own(c)) THEN Own(c) ELSE Shared)
    <3>1. CASE GivesKey(Own(c))
      BY <2>1, <2>7, <3>1, CredentialsPair DEF SignsWith
    <3>2. CASE ~GivesKey(Own(c))
      BY <2>1, <2>7, <3>2, CredentialsPair DEF SignsWith
    <3> QED BY <3>1, <3>2
  <2> QED BY <2>2, <2>3, <2>4, <2>5, <2>6, <2>7
<1> QED BY <1>1, AnswersAreComputed, PTL

-----------------------------------------------------------------------------
(* Matching.                                                               *)

\* What an identical pair has passed.
LEMMA IdenticalPasses ==
  ASSUME NEW p, _evaluate(p).confidence = "identical"
  PROVE  /\ _resolve_alignment(p.k, p.o).to # "unknown"
         /\ _evaluate(p).aligned = _resolve_alignment(p.k, p.o).to
         /\ ~_qualifier_conflict(p.k, p.o)
         /\ ~_settlement_blockers(p.k, p.o)
<1> DEFINE to == _resolve_alignment(p.k, p.o).to
           low == Score(p) < MIN_SCORE
           weak == Score(p) < STRONG_SCORE
<1>1. _evaluate(p) =
        [aligned |-> IF to = "unknown" THEN "first" ELSE to,
         confidence |-> CASE low -> "discarded"
                          [] _qualifier_conflict(p.k, p.o) \/ to = "unknown" -> "rejected"
                          [] weak -> "weak"
                          [] _settlement_blockers(p.k, p.o) -> "strong"
                          [] OTHER -> "identical"]
  BY Zenon DEF _evaluate
<1> HIDE DEF to, low, weak
<1> QED BY <1>1 DEF to

\* Starts that agree within the tolerance belong to one occurrence, since no two
\* occurrences lie so close.
LEMMA SameGame ==
  ASSUME NEW k, NEW o, Truthful(k), Truthful(o), BothStarts(k, o), ~_timing_blockers(k, o)
  PROVE  k.about.game = o.about.game
<1> DEFINE g == k.about.game
           h == o.about.game
<1>1. /\ g \in DOMAIN StartOf /\ h \in DOMAIN StartOf
      /\ k.start \in Int /\ o.start \in Int
      /\ Apart(k.start, StartOf[g]) <= SLACK /\ Apart(o.start, StartOf[h]) <= SLACK
      /\ ~(Apart(k.start, o.start) > TIME_TOLERANCE)
  BY DEF Truthful, BothStarts, _timing_blockers
<1>2. /\ SLACK \in Nat /\ TIME_TOLERANCE \in Nat
      /\ StartOf[g] \in Int /\ StartOf[h] \in Int
      /\ g # h => Apart(StartOf[g], StartOf[h]) > TIME_TOLERANCE + 2 * SLACK
  BY <1>1, PairInputs, MatchingConstants
<1> HIDE DEF g, h
<1>3. Apart(StartOf[g], StartOf[h]) <= TIME_TOLERANCE + 2 * SLACK
  BY <1>1, <1>2 DEF Apart
<1>4. Apart(StartOf[g], StartOf[h]) \in Int
  BY <1>2 DEF Apart
<1>5. g = h
  BY <1>2, <1>3, <1>4
<1> QED BY <1>5 DEF g, h

LEMMA SameAbout ==
  ASSUME NEW k, NEW o, Truthful(k), Truthful(o), BothStarts(k, o),
         ~_qualifier_conflict(k, o), ~_settlement_blockers(k, o),
         SourcesIdentify(k, o), k.about.quantity = o.about.quantity
  PROVE  k.about = o.about
<1>1. k.about.game = o.about.game
  BY SameGame DEF _settlement_blockers
<1>2. k.about.authority = o.about.authority
  BY DEF _settlement_blockers, _source_blockers, SourcesIdentify
<1>3. k.about.qualifiers = o.about.qualifiers
  BY DEF _qualifier_conflict, Truthful
<1>4. /\ k.about = [quantity |-> k.about.quantity, game |-> k.about.game,
                    authority |-> k.about.authority, qualifiers |-> k.about.qualifiers]
      /\ o.about = [quantity |-> o.about.quantity, game |-> o.about.game,
                    authority |-> o.about.authority, qualifiers |-> o.about.qualifiers]
  BY DEF Truthful
<1> QED BY <1>1, <1>2, <1>3, <1>4

\* With outcomes that answer the question, the aligned one is the affirmation: by
\* the labels, or by the title that replaced them, which can stand for no other.
LEMMA GenericAligned ==
  ASSUME NEW k, NEW o, Generic(o), TitleOnYes(o), _resolve_alignment(k, o).to # "unknown"
  PROVE  \/ /\ _resolve_alignment(k, o).to = "first"
            /\ o.first.kind \in Affirmative /\ o.second.kind \in Negative
         \/ /\ _resolve_alignment(k, o).to # "first"
            /\ o.first.kind \in Negative /\ o.second.kind \in Affirmative
<1>0. Affirmative = {"yes", "over"} /\ Negative = {"no", "under"}
  BY DEF Affirmative, Negative
<1>1. CASE o.venue = "us" /\ o.first.kind \in {"yes", "no"} /\ o.title # NONE
  <2>1. o.first.kind \in Affirmative /\ o.second.kind \in Negative
    BY <1>0, <1>1 DEF Generic, TitleOnYes
  <2>2. labels(o) = <<[kind |-> "team", team |-> o.title], [kind |-> "not", team |-> o.title]>>
    BY <1>1 DEF labels
  <2> DEFINE first == teams_match(k, labels(o)[1])
             second == teams_match(k, labels(o)[2])
  <2>3. second => first
    BY <2>2 DEF teams_match
  <2>4. first \in BOOLEAN /\ second \in BOOLEAN
    BY DEF teams_match
  <2>5. labels(o)[1].kind = "team" /\ labels(o)[2].kind = "not"
    BY <2>2
  <2>6. _resolve_alignment(k, o).to = IF first = second THEN "unknown"
                                      ELSE IF first THEN "first" ELSE "second"
    BY <1>0, <2>5 DEF _resolve_alignment
  <2> HIDE DEF first, second
  <2>7. _resolve_alignment(k, o).to = "first"
    BY <2>3, <2>4, <2>6
  <2> QED BY <2>1, <2>7
<1>2. CASE ~(o.venue = "us" /\ o.first.kind \in {"yes", "no"} /\ o.title # NONE)
  <2>1. labels(o)[1] = o.first /\ labels(o)[2] = o.second
    BY <1>2 DEF labels
  <2>2. CASE o.first.kind \in Affirmative /\ o.second.kind \in Negative
    <3>1. _resolve_alignment(k, o).to = "first"
      BY <1>0, <2>1, <2>2 DEF _resolve_alignment
    <3> QED BY <2>2, <3>1
  <2>3. CASE o.first.kind \in Negative /\ o.second.kind \in Affirmative
    <3>1. _resolve_alignment(k, o).to = "second"
      BY <1>0, <2>1, <2>3 DEF _resolve_alignment
    <3> QED BY <2>3, <3>1
  <2> QED BY <2>2, <2>3 DEF Generic
<1> QED BY <1>1, <1>2

\* It is enough that the two questions make one claim.
LEMMA GenericPaysAlike ==
  ASSUME NEW k, NEW o, Generic(o), TitleOnYes(o), _resolve_alignment(k, o).to # "unknown",
         k.about = o.about,
         \A v \in Facts(k) : KalshiPays(k, v) \in BOOLEAN /\ KalshiPays(k, v) = Claim(o, v)
  PROVE  PaysAlike(k, o, _resolve_alignment(k, o).to)
<1> DEFINE to == _resolve_alignment(k, o).to
           same == IF to = "first" THEN o.first ELSE o.second
           opposite == IF to = "first" THEN o.second ELSE o.first
<1>1. same.kind \in Affirmative /\ opposite.kind \in Negative
  BY GenericAligned
<1>2. \A l : l \in Affirmative => l \notin Negative
  BY DEF Affirmative, Negative
<1> HIDE DEF to
<1>3. \A v \in Facts(k) :
        /\ OutcomePays(o, same, v) = Claim(o, v)
        /\ OutcomePays(o, opposite, v) = ~Claim(o, v)
  BY <1>1, <1>2 DEF OutcomePays
<1>4. \A v \in Facts(k) : /\ KalshiPays(k, v) = OutcomePays(o, same, v)
                             /\ KalshiPays(k, v) # OutcomePays(o, opposite, v)
  BY <1>3
<1> QED BY <1>4 DEF PaysAlike, to

\* Two levels that the gate lets through are one level, whatever the comparators.
LEMMA LevelsPayAlike ==
  ASSUME NEW k, NEW o, TrueKalshi(k), TrueOther(o), IsLevel(k), IsLevel(o), Stated(k, o),
         ~_threshold_blockers(k, o)
  PROVE  /\ k.about.quantity = o.about.quantity
         /\ \A v \in Ticks : KalshiPays(k, v) \in BOOLEAN /\ KalshiPays(k, v) = Claim(o, v)
<1> DEFINE l == kalshi_terms(k)
           r == polymarket_terms(o)
<1>1. /\ l.threshold # NONE /\ r.threshold # NONE /\ k.units # NONE /\ r.units # NONE
      /\ l.units = k.units
  BY DEF Stated, kalshi_terms
<1>2. /\ l.units = r.units
      /\ l.comparator # "between" /\ r.comparator # "between"
      /\ thresholds_equivalent(l.comparator, l.threshold, r.comparator, r.threshold)
  BY <1>1 DEF _threshold_blockers
<1>3. k.about.quantity = o.about.quantity
  BY <1>1, <1>2 DEF TrueKalshi, TrueOther
\* Kalshi's side, from the strike type.
<1>4. /\ l.comparator \in Up \cup Down /\ l.threshold \in Int
      /\ \A v \in Int :
           /\ KalshiPays(k, v) \in BOOLEAN
           /\ l.comparator = "greater" => (KalshiPays(k, v) <=> v > l.threshold)
           /\ l.comparator = "greater_equal" => (KalshiPays(k, v) <=> v >= l.threshold)
           /\ l.comparator = "less" => (KalshiPays(k, v) <=> v < l.threshold)
           /\ l.comparator = "less_equal" => (KalshiPays(k, v) <=> v <= l.threshold)
  <2>1. /\ k.strike_type \in {"greater", "greater_or_equal", "less", "less_or_equal", "between"}
        /\ k.floor \in Int \cup {NONE} /\ k.cap \in Int \cup {NONE}
    BY DEF TrueKalshi, Number
  <2>2. CASE k.strike_type = "greater"
    <3>1. l.comparator = "greater" /\ l.threshold = k.floor
      BY <2>2 DEF kalshi_terms, KalshiComparator, Up, Down
    <3> QED BY <1>1, <2>1, <2>2, <3>1 DEF KalshiPays, Up
  <2>3. CASE k.strike_type = "greater_or_equal"
    <3>1. l.comparator = "greater_equal" /\ l.threshold = k.floor
      BY <2>3 DEF kalshi_terms, KalshiComparator, Up, Down
    <3> QED BY <1>1, <2>1, <2>3, <3>1 DEF KalshiPays, Up
  <2>4. CASE k.strike_type = "less"
    <3>1. l.comparator = "less" /\ l.threshold = k.cap
      BY <2>4 DEF kalshi_terms, KalshiComparator, Up, Down
    <3> QED BY <1>1, <2>1, <2>4, <3>1 DEF KalshiPays, Down
  <2>5. CASE k.strike_type = "less_or_equal"
    <3>1. l.comparator = "less_equal" /\ l.threshold = k.cap
      BY <2>5 DEF kalshi_terms, KalshiComparator, Up, Down
    <3> QED BY <1>1, <2>1, <2>5, <3>1 DEF KalshiPays, Down
  <2>6. CASE k.strike_type = "between"
    <3>1. l.comparator = "between"
      BY <2>6 DEF kalshi_terms, KalshiComparator
    <3> QED BY <1>2, <3>1
  <2> QED BY <2>1, <2>2, <2>3, <2>4, <2>5, <2>6
\* The other venue's, from a line or from the wording.
<1>5. /\ r.comparator \in Up \cup Down /\ r.threshold \in Int
      /\ \A v \in Int :
           /\ Claim(o, v) \in BOOLEAN
           /\ r.comparator = "greater" => (Claim(o, v) <=> v > r.threshold)
           /\ r.comparator = "greater_equal" => (Claim(o, v) <=> v >= r.threshold)
           /\ r.comparator = "less" => (Claim(o, v) <=> v < r.threshold)
           /\ r.comparator = "less_equal" => (Claim(o, v) <=> v <= r.threshold)
  <2>1. (IsLine(o) \/ o.wording \in Up \cup Down) /\ o.number \in Int \cup {NONE}
    BY DEF TrueOther, Number
  <2>2. CASE IsLine(o)
    <3>1. r.comparator = "greater" /\ r.threshold = o.number
      BY <2>2 DEF polymarket_terms
    <3> QED BY <1>1, <2>1, <2>2, <3>1 DEF Claim, Up
  <2>3. CASE ~IsLine(o)
    <3>1. r.comparator = o.wording /\ r.threshold = o.number
      BY <2>1, <2>3 DEF polymarket_terms, Up, Down
    <3>2. o.wording \in {"greater", "greater_equal", "less", "less_equal"} /\ o.number \in Int
      BY <1>1, <2>1, <2>3, <3>1 DEF Up, Down
    <3>3. \A v \in Int :
            /\ o.wording = "greater" => Claim(o, v) = (v > o.number)
            /\ o.wording = "greater_equal" => Claim(o, v) = (v >= o.number)
            /\ o.wording = "less" => Claim(o, v) = (v < o.number)
            /\ o.wording = "less_equal" => Claim(o, v) = (v <= o.number)
      BY <2>3 DEF Claim
    <3>4. \A v \in Int : Claim(o, v) \in BOOLEAN
      <4> SUFFICES ASSUME NEW v \in Int PROVE Claim(o, v) \in BOOLEAN
        OBVIOUS
      <4>1. CASE o.wording = "greater"
        BY <2>3, <4>1 DEF Claim
      <4>2. CASE o.wording = "greater_equal"
        BY <2>3, <4>2 DEF Claim
      <4>3. CASE o.wording = "less"
        BY <2>3, <4>3 DEF Claim
      <4>4. CASE o.wording = "less_equal"
        BY <2>3, <4>4 DEF Claim
      <4> QED BY <3>2, <4>1, <4>2, <4>3, <4>4
    <3> HIDE DEF r
    <3>5. r.comparator \in Up \cup Down /\ r.threshold \in Int
      BY <3>1, <3>2 DEF Up, Down
    <3> QED BY <3>1, <3>3, <3>4, <3>5
  <2> QED BY <2>2, <2>3
<1> HIDE DEF l, r
\* A strict and an inclusive comparison agree on whole ticks when one tick lies
\* between their numbers.
<1>6. \A v \in Int : KalshiPays(k, v) \in BOOLEAN /\ KalshiPays(k, v) = Claim(o, v)
  <2> SUFFICES ASSUME NEW v \in Int
               PROVE  KalshiPays(k, v) \in BOOLEAN /\ KalshiPays(k, v) = Claim(o, v)
    OBVIOUS
  <2> DEFINE a == l.comparator
             b == r.comparator
             s == l.threshold
             t == r.threshold
  <2>1. a \in {"greater", "greater_equal", "less", "less_equal"}
        /\ b \in {"greater", "greater_equal", "less", "less_equal"}
        /\ s \in Int /\ t \in Int
    BY <1>4, <1>5 DEF Up, Down
  <2>2. /\ KalshiPays(k, v) \in BOOLEAN
        /\ a = "greater" => (KalshiPays(k, v) <=> v > s)
        /\ a = "greater_equal" => (KalshiPays(k, v) <=> v >= s)
        /\ a = "less" => (KalshiPays(k, v) <=> v < s)
        /\ a = "less_equal" => (KalshiPays(k, v) <=> v <= s)
    BY <1>4
  <2>3. /\ Claim(o, v) \in BOOLEAN
        /\ b = "greater" => (Claim(o, v) <=> v > t)
        /\ b = "greater_equal" => (Claim(o, v) <=> v >= t)
        /\ b = "less" => (Claim(o, v) <=> v < t)
        /\ b = "less_equal" => (Claim(o, v) <=> v <= t)
    BY <1>5
  <2>4. thresholds_equivalent(a, s, b, t)
    BY <1>2
  <2> HIDE DEF a, b, s, t
  <2>5. \/ a = b /\ s = t
        \/ a = "greater" /\ b = "greater_equal" /\ t = s + 1
        \/ a = "greater_equal" /\ b = "greater" /\ t = s - 1
        \/ a = "less" /\ b = "less_equal" /\ t = s - 1
        \/ a = "less_equal" /\ b = "less" /\ t = s + 1
    BY <2>1, <2>4 DEF thresholds_equivalent, Direction, Up, Down
  <2>6. KalshiPays(k, v) <=> Claim(o, v)
    BY <2>1, <2>2, <2>3, <2>5
  <2> QED BY <2>2, <2>3, <2>6
<1> QED BY <1>3, <1>6, MatchingConstants

\* Two contestants, one of whom Kalshi's label names: the aligned outcome is that
\* contestant's, and a draw that somebody's wording tells of blocks the pair.
LEMMA HeadToHeadPaysAlike ==
  ASSUME NEW k, NEW o, TrueKalshi(k), ~IsLevel(k), HeadToHead(o), DrawsWorded(k, o),
         k.about = o.about, _resolve_alignment(k, o).to # "unknown",
         ~_draw_blockers(k, o)
  PROVE  PaysAlike(k, o, _resolve_alignment(k, o).to)
<1> DEFINE first == teams_match(k, o.first)
           second == teams_match(k, o.second)
           to == _resolve_alignment(k, o).to
<1>0. /\ o.first.kind = "team" /\ o.second.kind = "team"
      /\ {o.first.team, o.second.team} = {"A", "B"}
  BY DEF HeadToHead
<1>1. labels(o)[1] = o.first /\ labels(o)[2] = o.second
  BY <1>0 DEF labels
<1>2. /\ first \in BOOLEAN /\ second \in BOOLEAN
      /\ first <=> o.first.team \in k.names
      /\ second <=> o.second.team \in k.names
  BY <1>0 DEF teams_match
<1>3. to = IF first = second THEN "unknown" ELSE IF first THEN "first" ELSE "second"
  BY <1>0, <1>1 DEF _resolve_alignment, Affirmative, Negative
<1>4. k.about.game \notin Drawable
  BY <1>0, <1>1 DEF _draw_blockers, Affirmative, DrawsWorded
<1>5. k.strike_type = "structured" /\ k.names \subseteq {"A", "B"} /\ (k.names # {} => k.team \in k.names)
      /\ k.team \in {"A", "B"}
  BY DEF TrueKalshi
<1>6. Facts(k) = {"A", "B"}
  BY <1>4 DEF Facts
<1> HIDE DEF first, second, to
<1>7. \/ to = "first" /\ o.first.team = k.team /\ o.second.team # k.team
      \/ to = "second" /\ o.second.team = k.team /\ o.first.team # k.team
  <2>1. /\ first # second
        /\ to = "first" \/ to = "second"
        /\ to = "first" => first
        /\ to = "second" => second
    BY <1>2, <1>3 DEF to
  <2>2. CASE o.first.team = "A" /\ o.second.team = "B"
    BY <1>2, <1>3, <1>5, <2>1, <2>2
  <2>3. CASE o.first.team = "B" /\ o.second.team = "A"
    BY <1>2, <1>3, <1>5, <2>1, <2>3
  <2> QED BY <1>0, <2>2, <2>3
<1>8. \A v : KalshiPays(k, v) = (v = k.team)
  BY <1>5 DEF KalshiPays
<1>9. \A v : /\ OutcomePays(o, o.first, v) = (v = o.first.team)
             /\ OutcomePays(o, o.second, v) = (v = o.second.team)
  BY <1>0 DEF OutcomePays, Affirmative, Negative
<1>10. o.first.team \in {"A", "B"} /\ o.second.team \in {"A", "B"}
  BY <1>0
<1>11. PaysAlike(k, o, to)
  <2>1. CASE to = "first" /\ o.first.team = k.team /\ o.second.team # k.team
    BY <1>5, <1>6, <1>8, <1>9, <1>10, <2>1 DEF PaysAlike
  <2>2. CASE to = "second" /\ o.second.team = k.team /\ o.first.team # k.team
    BY <1>5, <1>6, <1>8, <1>9, <1>10, <2>2 DEF PaysAlike
  <2> QED BY <1>7, <2>1, <2>2
<1> QED BY <1>11 DEF to

\* IdenticalPaysAlike: for all markets that state the truth, and of which what the
\* matcher takes for granted is so, a pair called IDENTICAL is one claim about one
\* fact, and the aligned outcome pays exactly as Kalshi's YES.
THEOREM IdenticalIsOneClaim == Spec => []IdenticalPaysAlike
<1>1. Asked /\ Computed => IdenticalPaysAlike
  <2> SUFFICES ASSUME Asked, Computed, Identical, Stated(input.k, input.o),
                      TakenForGranted(input.k, input.o)
               PROVE  PaysAlike(input.k, input.o, answer.aligned)
    BY DEF IdenticalPaysAlike
  <2>0. input \in Pairs /\ answer = _evaluate(input)
    BY Kinds DEF Computed, Identical, Answered
  <2> DEFINE k == input.k
             o == input.o
             to == _resolve_alignment(k, o).to
  <2>1. /\ to # "unknown" /\ answer.aligned = to
        /\ ~_qualifier_conflict(k, o) /\ ~_settlement_blockers(k, o)
    BY <2>0, IdenticalPasses DEF Identical
  <2>2. /\ TrueKalshi(k) /\ TrueOther(o)
        /\ SameSubject(k, o) /\ DrawsWorded(k, o) /\ SourcesIdentify(k, o) /\ TitleOnYes(o)
    BY <2>0, PairInputs DEF TakenForGranted
  <2>3. Truthful(k) /\ Truthful(o) /\ BothStarts(k, o)
    BY <2>2 DEF TrueKalshi, TrueOther, Stated
  <2>4. Stated(k, o) /\ ~_threshold_blockers(k, o) /\ ~_draw_blockers(k, o)
    BY <2>1 DEF _settlement_blockers
  <2> HIDE DEF k, o, to
  <2>5. CASE IsLevel(k) /\ IsLevel(o)
    <3>1. /\ k.about.quantity = o.about.quantity
          /\ \A v \in Ticks : KalshiPays(k, v) \in BOOLEAN /\ KalshiPays(k, v) = Claim(o, v)
      BY <2>2, <2>4, <2>5, LevelsPayAlike
    <3>2. k.about = o.about
      BY <2>1, <2>2, <2>3, <3>1, SameAbout
    <3>3. Generic(o) /\ Facts(k) = Ticks
      BY <2>2, <2>5 DEF TrueOther, Facts
    <3> QED BY <2>1, <2>2, <3>1, <3>2, <3>3, GenericPaysAlike DEF k, o, to
  <2>6. CASE IsLevel(k) /\ ~IsLevel(o)
    <3>1. kalshi_terms(k).threshold # NONE
      BY <2>4, <2>6 DEF Stated
    <3>2. polymarket_terms(o).threshold = NONE
      BY <2>2, <2>6 DEF TrueOther, polymarket_terms
    <3> QED BY <2>4, <3>1, <3>2 DEF _threshold_blockers
  <2>7. CASE ~IsLevel(k) /\ IsLevel(o)
    <3>1. polymarket_terms(o).threshold # NONE
      BY <2>4, <2>7 DEF Stated
    <3>2. k.strike_type = "structured"
      BY <2>2, <2>7 DEF TrueKalshi
    <3>3. kalshi_terms(k).threshold = NONE
      BY <3>2 DEF kalshi_terms, KalshiComparator, Up, Down
    <3> QED BY <2>4, <3>1, <3>3 DEF _threshold_blockers
  <2>8. CASE ~IsLevel(k) /\ ~IsLevel(o)
    <3>1. k.about.quantity = o.about.quantity
      BY <2>8 DEF IsLevel
    <3>2. k.about = o.about
      BY <2>1, <2>2, <2>3, <3>1, SameAbout
    <3>3. CASE HeadToHead(o)
      BY <2>1, <2>2, <2>4, <2>8, <3>2, <3>3, HeadToHeadPaysAlike DEF k, o, to
    <3>4. CASE Generic(o)
      <4>1. k.strike_type = "structured" /\ o.team = k.team /\ ~IsLine(o) /\ o.wording = "none"
        BY <2>2, <2>8, <3>4 DEF TrueKalshi, TrueOther, SameSubject
      <4>2. \A v : KalshiPays(k, v) = (v = k.team) /\ Claim(o, v) = (v = o.team)
        BY <4>1 DEF KalshiPays, Claim
      <4>3. \A v \in Facts(k) : KalshiPays(k, v) \in BOOLEAN /\ KalshiPays(k, v) = Claim(o, v)
        BY <4>1, <4>2
      <4> QED BY <2>1, <2>2, <3>2, <3>4, <4>3, GenericPaysAlike DEF k, o, to
    <3> QED BY <2>2, <2>8, <3>3, <3>4 DEF TrueOther
  <2> QED BY <2>5, <2>6, <2>7, <2>8
<1> QED BY <1>1, AnswersAreComputed, PTL

-----------------------------------------------------------------------------
(* Sums over finite sets, as RiskGateProofs has them: SumFunctionOnSet is   *)
(* defined by a recursion over the subsets of a set, which is shown to have *)
(* a solution by taking a smallest subset on which it had none.             *)

\* The element the sum takes next, and the value of the sum from those of h.
Pick(s) == CHOOSE x \in s : TRUE
Unfolded(h, g, s) == IF s = {} THEN 0 ELSE g[Pick(s)] + h[s \ {Pick(s)}]

\* h gives the sum of g over every subset of S.
Sums(h, g, S) == h = [s \in SUBSET S |-> Unfolded(h, g, s)]

LEMMA SumIsRecursive ==
  ASSUME NEW g, NEW S
  PROVE  SumFunctionOnSet(g, S) = (CHOOSE h : Sums(h, g, S))[S]
BY DEF SumFunctionOnSet, FoldFunctionOnSet, MapThenFoldSet, Sums, Unfolded, Pick

\* A family of finite sets has a member none of whose proper subsets belongs to it.
LEMMA SmallestMember ==
  ASSUME NEW S, IsFiniteSet(S), NEW F \in SUBSET (SUBSET S), F # {}
  PROVE  \E s \in F : \A t \in F : t \subseteq s => t = s
<1>1. IsWellFoundedOn(StrictSubsetOrdering(S), SUBSET S)
  BY FS_StrictSubsetOrderingWellFounded, FS_FiniteSubsetsOfFinite
<1>2. PICK s \in F : \A t \in F : <<t, s>> \notin StrictSubsetOrdering(S)
  BY <1>1, WFMin
<1>3. ASSUME NEW t \in F, t \subseteq s, t # s PROVE FALSE
  <2>1. <<t, s>> \in StrictSubsetOrdering(S)
    BY <1>3 DEF StrictSubsetOrdering
  <2> QED BY <1>2, <2>1
<1> QED BY <1>2, <1>3

\* Two solutions, each on the subsets of its own set, agree where both are defined.
LEMMA SumsAgree ==
  ASSUME NEW g, NEW S, NEW T, IsFiniteSet(S), T \subseteq S, NEW h, NEW k,
         Sums(h, g, S), Sums(k, g, T)
  PROVE  \A s \in SUBSET T : h[s] = k[s]
<1> DEFINE F == { s \in SUBSET T : h[s] # k[s] }
<1> SUFFICES ASSUME F # {} PROVE FALSE
  OBVIOUS
<1>0. IsFiniteSet(T)
  BY FS_Subset
<1>1. PICK s \in F : \A t \in F : t \subseteq s => t = s
  <2>1. F \in SUBSET (SUBSET T) /\ F # {}
    OBVIOUS
  <2> HIDE DEF F
  <2> QED BY <1>0, <2>1, SmallestMember
<1>2. s \in SUBSET T /\ s \in SUBSET S
  BY <1>1
<1>3. h[s] = Unfolded(h, g, s) /\ k[s] = Unfolded(k, g, s)
  BY <1>2 DEF Sums
<1>4. CASE s = {}
  BY <1>1, <1>3, <1>4 DEF Unfolded
<1>5. CASE s # {}
  <2> DEFINE r == s \ {Pick(s)}
  <2>1. Pick(s) \in s
    BY <1>5 DEF Pick
  <2>2. r \in SUBSET T /\ r \subseteq s /\ r # s
    BY <1>2, <2>1
  <2>3. h[r] = k[r]
    BY <1>1, <2>2
  <2> QED BY <1>1, <1>3, <1>5, <2>3 DEF Unfolded
<1> QED BY <1>4, <1>5

\* There is a solution on the subsets of every finite set.
LEMMA SumsExist ==
  ASSUME NEW g, NEW S, IsFiniteSet(S)
  PROVE  \E h : Sums(h, g, S)
<1> DEFINE F == { s \in SUBSET S : ~ \E h : Sums(h, g, s) }
<1> SUFFICES ASSUME F # {} PROVE FALSE
  OBVIOUS
<1>1. PICK s \in F : \A t \in F : t \subseteq s => t = s
  <2>1. F \in SUBSET (SUBSET S) /\ F # {}
    OBVIOUS
  <2> HIDE DEF F
  <2> QED BY <2>1, SmallestMember
<1>2. s \in SUBSET S /\ IsFiniteSet(s)
  <2>1. s \in SUBSET S
    BY <1>1
  <2> QED BY <2>1, FS_Subset
<1>3. \A x \in s : \E h : Sums(h, g, s \ {x})
  <2> TAKE x \in s
  <2>1. s \ {x} \in SUBSET S /\ s \ {x} \subseteq s /\ s \ {x} # s
    BY <1>2
  <2> QED BY <1>1, <2>1
\* A proper subset of s has its sum from a solution on s without some x.
<1> DEFINE Part(t) == CHOOSE h : Sums(h, g, t)
           H == [t \in SUBSET s |-> IF t = s THEN Unfolded(Part(s \ {Pick(s)}), g, s)
                                    ELSE Part(t)[t]]
<1>4. ASSUME NEW t \in SUBSET s, t # s PROVE Sums(Part(t), g, t)
  <2>1. \E h : Sums(h, g, t)
    BY <1>1, <1>2, <1>4
  <2> QED BY <2>1
<1>5. ASSUME NEW t \in SUBSET s, t # s, NEW u \in SUBSET t PROVE Part(t)[u] = H[u]
  <2>1. u \in SUBSET s /\ u # s
    BY <1>5
  <2>2. Sums(Part(t), g, t) /\ Sums(Part(u), g, u)
    BY <1>4, <1>5, <2>1
  <2>3. IsFiniteSet(t)
    BY <1>2, <1>5, FS_Subset
  <2> HIDE DEF Part
  <2>4. Part(t)[u] = Part(u)[u]
    BY <1>5, <2>2, <2>3, SumsAgree
  <2> QED BY <2>1, <2>4
<1>6. ASSUME NEW t \in SUBSET s PROVE H[t] = Unfolded(H, g, t)
  <2>1. CASE t = {}
    <3>1. CASE t = s
      BY <2>1, <3>1 DEF Unfolded
    <3>2. CASE t # s
      <4>1. Sums(Part(t), g, t)
        BY <1>4, <1>6, <3>2
      <4> HIDE DEF Part
      <4>2. Part(t)[t] = Unfolded(Part(t), g, t)
        BY <4>1 DEF Sums
      <4> QED BY <2>1, <3>2, <4>2 DEF Unfolded
    <3> QED BY <3>1, <3>2
  <2>2. CASE t # {}
    <3> DEFINE r == t \ {Pick(t)}
    <3>1. Pick(t) \in t
      BY <2>2 DEF Pick
    <3>2. r \in SUBSET t /\ r \in SUBSET s /\ r # s
      BY <1>6, <3>1
    <3>3. CASE t = s
      <4>1. Part(r)[r] = H[r]
        BY <1>5, <3>2
      <4>2. H[t] = g[Pick(t)] + Part(r)[r]
        BY <1>6, <2>2, <3>3 DEF Unfolded
      <4> HIDE DEF Part, H
      <4> QED BY <2>2, <4>1, <4>2 DEF Unfolded
    <3>4. CASE t # s
      <4>1. Sums(Part(t), g, t) /\ Part(t)[r] = H[r] /\ H[t] = Part(t)[t]
        BY <1>4, <1>5, <1>6, <3>2, <3>4
      <4> HIDE DEF Part, H
      <4>2. Part(t)[t] = Unfolded(Part(t), g, t)
        BY <4>1 DEF Sums
      <4> QED BY <2>2, <4>1, <4>2 DEF Unfolded
    <3> QED BY <3>3, <3>4
  <2> QED BY <2>1, <2>2
<1>7. Sums(H, g, s)
  <2>1. H = [t \in SUBSET s |-> H[t]]
    OBVIOUS
  <2> HIDE DEF H
  <2>2. [t \in SUBSET s |-> H[t]] = [t \in SUBSET s |-> Unfolded(H, g, t)]
    BY <1>6
  <2> QED BY <2>1, <2>2 DEF Sums
<1> QED BY <1>1, <1>7

-----------------------------------------------------------------------------
(* Sums.                                                                   *)

\* The sum over a finite set is the value there of any solution on a larger one.
LEMMA SumOfSolution ==
  ASSUME NEW g, NEW S, IsFiniteSet(S), NEW h, Sums(h, g, S), NEW T \in SUBSET S
  PROVE  SumFunctionOnSet(g, T) = h[T]
<1> DEFINE k == CHOOSE k : Sums(k, g, T)
<1>1. IsFiniteSet(T)
  BY FS_Subset
<1>2. Sums(k, g, T)
  BY <1>1, SumsExist
<1>3. SumFunctionOnSet(g, T) = k[T]
  BY SumIsRecursive
<1> HIDE DEF k
<1>4. h[T] = k[T]
  BY <1>2, SumsAgree
<1> QED BY <1>3, <1>4

\* The recursion that SumFunctionOnSet stands for.
LEMMA SumUnfolds ==
  ASSUME NEW g, NEW S, IsFiniteSet(S)
  PROVE  /\ SumFunctionOnSet(g, {}) = 0
         /\ S # {} => /\ Pick(S) \in S
                      /\ SumFunctionOnSet(g, S) = g[Pick(S)] + SumFunctionOnSet(g, S \ {Pick(S)})
<1>1. PICK h : Sums(h, g, S)
  BY SumsExist
<1>2. SumFunctionOnSet(g, {}) = h[{}] /\ SumFunctionOnSet(g, S) = h[S]
  BY <1>1, SumOfSolution
<1>3. \A T \in SUBSET S : h[T] = Unfolded(h, g, T)
  BY <1>1 DEF Sums
<1>4. h[{}] = 0
  BY <1>3 DEF Unfolded
<1>5. ASSUME S # {} PROVE /\ Pick(S) \in S
                          /\ SumFunctionOnSet(g, S) = g[Pick(S)] + SumFunctionOnSet(g, S \ {Pick(S)})
  <2>1. Pick(S) \in S
    BY <1>5 DEF Pick
  <2>2. S \ {Pick(S)} \in SUBSET S /\ S \in SUBSET S
    OBVIOUS
  <2>3. SumFunctionOnSet(g, S \ {Pick(S)}) = h[S \ {Pick(S)}]
    BY <1>1, <2>2, SumOfSolution
  <2>4. h[S] = g[Pick(S)] + h[S \ {Pick(S)}]
    BY <1>3, <1>5, <2>2 DEF Unfolded
  <2> QED BY <1>2, <2>1, <2>3, <2>4
<1> QED BY <1>2, <1>4, <1>5

\* A sum of integers is one, and does not depend on the order of its terms.
LEMMA SumOfIntegers ==
  ASSUME NEW g, NEW S, IsFiniteSet(S), \A x \in S : g[x] \in Int
  PROVE  /\ SumFunctionOnSet(g, S) \in Int
         /\ \A x \in S : SumFunctionOnSet(g, S) = g[x] + SumFunctionOnSet(g, S \ {x})
<1> DEFINE Sum(T) == SumFunctionOnSet(g, T)
           Good(T) == /\ Sum(T) \in Int
                      /\ \A x \in T : Sum(T \ {x}) \in Int /\ Sum(T) = g[x] + Sum(T \ {x})
           F == { T \in SUBSET S : ~Good(T) }
<1> SUFFICES ASSUME F # {} PROVE FALSE
  OBVIOUS
<1>1. PICK s \in F : \A t \in F : t \subseteq s => t = s
  <2>1. F \in SUBSET (SUBSET S) /\ F # {}
    OBVIOUS
  <2> HIDE DEF F
  <2> QED BY <2>1, SmallestMember
<1>2. s \in SUBSET S /\ IsFiniteSet(s) /\ ~Good(s)
  BY <1>1, FS_Subset
<1>3. ASSUME NEW t \in SUBSET s, t # s PROVE Good(t)
  <2>1. t \in SUBSET S /\ t \notin F
    BY <1>1, <1>2, <1>3
  <2> QED BY <2>1
<1>4. s # {}
  <2> SUFFICES ASSUME s = {} PROVE FALSE
    OBVIOUS
  <2>1. Sum({}) = 0
    BY FS_EmptySet, SumUnfolds
  <2> QED BY <1>2, <2>1
<1> DEFINE y == Pick(s)
<1>5. y \in s /\ Sum(s) = g[y] + Sum(s \ {y})
  BY <1>2, <1>4, SumUnfolds
<1> HIDE DEF y
<1>6. Good(s \ {y}) /\ g[y] \in Int
  BY <1>2, <1>3, <1>5
<1>7. ASSUME NEW x \in s PROVE Sum(s \ {x}) \in Int /\ Sum(s) = g[x] + Sum(s \ {x})
  <2>0. g[x] \in Int /\ Good(s \ {x})
    BY <1>2, <1>3
  <2>1. CASE x = y
    BY <1>5, <2>0, <2>1
  <2>2. CASE x # y
    <3>1. x \in s \ {y} /\ y \in s \ {x}
      BY <1>5, <2>2
    <3>2. (s \ {y}) \ {x} = (s \ {x}) \ {y}
      OBVIOUS
    <3>3. Sum(s \ {y}) = g[x] + Sum((s \ {y}) \ {x}) /\ Sum((s \ {y}) \ {x}) \in Int
      BY <1>6, <3>1
    <3>4. Sum(s \ {x}) = g[y] + Sum((s \ {x}) \ {y}) /\ Sum(s \ {x}) \in Int
      BY <2>0, <3>1
    <3>5. PICK a \in Int : a = Sum((s \ {y}) \ {x})
      BY <3>3
    <3>6. Sum(s \ {x}) = g[y] + a /\ Sum(s) = g[y] + (g[x] + a)
      BY <1>5, <3>2, <3>3, <3>4, <3>5
    <3> HIDE DEF Sum
    <3> QED BY <1>6, <2>0, <3>4, <3>5, <3>6
  <2> QED BY <2>1, <2>2
<1>8. Sum(s) \in Int
  BY <1>5, <1>6, <1>7
<1> QED BY <1>2, <1>7, <1>8

LEMMA SumEmpty ==
  ASSUME NEW g
  PROVE  SumFunctionOnSet(g, {}) = 0
BY FS_EmptySet, SumUnfolds
\* A part of a sum of naturals is no more than the whole.
LEMMA SumOfPart ==
  ASSUME NEW g, NEW S, IsFiniteSet(S), \A x \in S : g[x] \in Nat, NEW T \in SUBSET S
  PROVE  /\ SumFunctionOnSet(g, S) \in Nat /\ SumFunctionOnSet(g, T) \in Nat
         /\ SumFunctionOnSet(g, T) <= SumFunctionOnSet(g, S)
<1> DEFINE Sum(U) == SumFunctionOnSet(g, U)
           F == { U \in SUBSET S : ~(Sum(U) \in Nat /\ Sum(U \cap T) <= Sum(U)) }
<1>1. F = {}
  <2> SUFFICES ASSUME F # {} PROVE FALSE
    OBVIOUS
  <2>1. PICK s \in F : \A t \in F : t \subseteq s => t = s
    <3>1. F \in SUBSET (SUBSET S) /\ F # {}
      OBVIOUS
    <3> HIDE DEF F
    <3> QED BY <3>1, SmallestMember
  <2>2. s \in SUBSET S /\ IsFiniteSet(s) /\ ~(Sum(s) \in Nat /\ Sum(s \cap T) <= Sum(s))
    BY <2>1, FS_Subset
  <2>3. Sum({}) = 0 /\ {} \cap T = {}
    BY SumEmpty
  <2>4. s # {}
    BY <2>2, <2>3
  <2>5. PICK x \in s : TRUE
    BY <2>4
  <2> DEFINE r == s \ {x}
  <2>6. r \in SUBSET S /\ r \notin F /\ g[x] \in Nat
    BY <2>1, <2>2, <2>5
  <2>7. Sum(r) \in Nat /\ Sum(r \cap T) <= Sum(r)
    BY <2>6
  <2>8. Sum(s) = g[x] + Sum(r)
    BY <2>2, <2>5, SumOfIntegers
  <2>9. s \cap T \in SUBSET S /\ IsFiniteSet(s \cap T) /\ IsFiniteSet(r \cap T)
    BY <2>2, FS_Subset
  <2>10. Sum(r \cap T) \in Int
    BY <2>2, <2>9, SumOfIntegers
  <2>11. CASE x \in T
    <3>1. x \in s \cap T /\ (s \cap T) \ {x} = r \cap T
      BY <2>5, <2>11
    <3>2. Sum(s \cap T) = g[x] + Sum(r \cap T)
      BY <2>2, <2>9, <3>1, SumOfIntegers
    <3> HIDE DEF Sum, r, F
    <3> QED BY <2>2, <2>6, <2>7, <2>8, <2>10, <3>2
  <2>12. CASE x \notin T
    <3>1. s \cap T = r \cap T
      BY <2>12
    <3> HIDE DEF Sum, r, F
    <3> QED BY <2>2, <2>6, <2>7, <2>8, <2>10, <3>1
  <2> QED BY <2>11, <2>12
<1>2. S \in SUBSET S /\ S \cap T = T /\ T \cap T = T
  OBVIOUS
<1>3. Sum(S) \in Nat /\ Sum(S \cap T) <= Sum(S)
  BY <1>1, <1>2
<1>4. Sum(T) \in Nat
  BY <1>1
<1> QED BY <1>2, <1>3, <1>4

\* Where a part sums to the whole, nothing outside it counts.
LEMMA SumOfWholePart ==
  ASSUME NEW g, NEW S, IsFiniteSet(S), \A x \in S : g[x] \in Nat, NEW T \in SUBSET S,
         SumFunctionOnSet(g, T) = SumFunctionOnSet(g, S), NEW x \in S, g[x] > 0
  PROVE  x \in T
<1> SUFFICES ASSUME x \notin T PROVE FALSE
  OBVIOUS
<1> DEFINE r == S \ {x}
<1>1. IsFiniteSet(r) /\ T \in SUBSET r /\ \A y \in r : g[y] \in Nat
  BY FS_Subset
<1> HIDE DEF r
<1>2. SumFunctionOnSet(g, T) <= SumFunctionOnSet(g, r)
      /\ SumFunctionOnSet(g, T) \in Nat /\ SumFunctionOnSet(g, r) \in Nat
  BY <1>1, SumOfPart
<1>3. SumFunctionOnSet(g, S) = g[x] + SumFunctionOnSet(g, r)
  BY SumOfIntegers DEF r
<1> QED BY <1>2, <1>3

-----------------------------------------------------------------------------
(* Fees.                                                                   *)

\* The next whole unit, less than a unit above.
LEMMA CeilingIsNext ==
  ASSUME NEW n \in Int, NEW unit \in Int, unit > 0
  PROVE  /\ Ceiling(n, unit) \in Int
         /\ Ceiling(n, unit) - n \in 0..(unit - 1)
<1> DEFINE q == (-n) \div unit
           r == (-n) % unit
<1>1. q \in Int /\ r \in 0..(unit - 1) /\ -n = unit * q + r
  <2>1. -n \in Int
    OBVIOUS
  <2> QED BY <2>1, Divides
<1>2. Ceiling(n, unit) = -(q * unit)
  BY <1>1 DEF Ceiling
<1> HIDE DEF q, r
<1>3. q * unit \in Int /\ q * unit = unit * q
  BY <1>1
<1> QED BY <1>1, <1>2, <1>3

LEMMA RoundUpWithinCent ==
  ASSUME NEW n \in Int, NEW f \in RoundUp(n)
  PROVE  f - n \in 0..CENT
<1>1. CENT \in Int /\ CENT > 0
  BY DEF CENT
<1> HIDE DEF CENT
<1>2. Ceiling(n, CENT) \in Int /\ Ceiling(n, CENT) - n \in 0..(CENT - 1)
  BY <1>1, CeilingIsNext
<1> QED BY <1>1, <1>2 DEF RoundUp

LEMMA NearestWithinHalf ==
  ASSUME NEW n \in Int, NEW f \in Nearest(n)
  PROVE  2 * (f - n) \in -DECIMALS..DECIMALS
<1> DEFINE below == (n \div DECIMALS) * DECIMALS
<1>1. DECIMALS \in Int /\ DECIMALS > 0
  BY DEF DECIMALS
<1>2. below \in Int /\ n - below \in 0..(DECIMALS - 1)
  <2> DEFINE q == n \div DECIMALS
  <2>1. q \in Int /\ n % DECIMALS \in 0..(DECIMALS - 1) /\ n = DECIMALS * q + (n % DECIMALS)
    BY <1>1, Divides
  <2> HIDE DEF q
  <2>2. q * DECIMALS \in Int /\ q * DECIMALS = DECIMALS * q
    BY <1>1, <2>1
  <2>3. n - q * DECIMALS = n % DECIMALS
    BY <1>1, <2>1, <2>2
  <2> QED BY <2>1, <2>2, <2>3 DEF q
<1>3. \/ f = below /\ 2 * (n - below) <= DECIMALS
      \/ f = below + DECIMALS /\ 2 * (n - below) >= DECIMALS
  BY DEF Nearest
<1> HIDE DEF below
<1> QED BY <1>1, <1>2, <1>3

\* The basis that a fill accumulates is the one the schedule names, level by level.
LEMMA BasisIsOwed ==
  ASSUME NEW levels \in LevelLists, NEW rate \in Int
  PROVE  LET basis == SumFunction([k \in DOMAIN levels |-> LevelBasis(levels[k])])
         IN  basis \in Nat /\ Owed(rate, levels) = rate * basis
<1> DEFINE L == [contracts: Nat, price: 0..100]
           g == [k \in DOMAIN levels |-> LevelBasis(levels[k])]
           h == [k \in DOMAIN levels |->
                   levels[k].contracts * (100 * levels[k].price - levels[k].price * levels[k].price)]
<1>1. levels \in Seq(L)
  BY FillInputs
<1>2. IsFiniteSet(DOMAIN levels) /\ \A k \in DOMAIN levels : levels[k] \in L
  <2> HIDE DEF L
  <2>1. DOMAIN levels = 1..Len(levels) /\ Len(levels) \in Nat
    BY <1>1
  <2>2. \A k \in DOMAIN levels : levels[k] \in L
    BY <1>1, <2>1
  <2> QED BY <2>1, <2>2, FS_Interval
<1>3. ASSUME NEW k \in DOMAIN levels PROVE g[k] \in Nat /\ g[k] = h[k]
  <2> DEFINE c == levels[k].contracts
             p == levels[k].price
  <2>1. c \in Nat /\ p \in 0..100
    BY <1>2
  <2>2. g[k] = c * p * (100 - p) /\ h[k] = c * (100 * p - p * p)
    BY DEF LevelBasis
  <2> HIDE DEF c, p, g, h
  <2>3. p * (100 - p) \in Nat /\ p * (100 - p) = 100 * p - p * p
    BY <2>1
  <2>4. c * p * (100 - p) = c * (p * (100 - p)) /\ c * (p * (100 - p)) \in Nat
    BY <2>1, <2>3
  <2> QED BY <2>2, <2>3, <2>4
<1>4. g = h
  BY <1>3
<1>5. DOMAIN g = DOMAIN levels
  OBVIOUS
<1>6. SumFunction(g) \in Nat
  <2> HIDE DEF g
  <2>1. SumFunctionOnSet(g, DOMAIN levels) \in Nat
    BY <1>2, <1>3, SumOfPart
  <2> QED BY <1>5, <2>1 DEF SumFunction
<1>7. Owed(rate, levels) = rate * SumFunction(h)
  BY DEF Owed
<1> QED BY <1>4, <1>6, <1>7
\* The models a market can be given: none exactly if it is not priceable.
LEMMA Models ==
  ASSUME NEW m \in FeeMarkets
  PROVE  /\ m.venue \in {"kalshi", "intl", "us"}
         /\ fee_model(m) # {} <=> Priceable(m)
         /\ \A x \in fee_model(m) :
              /\ x.rate \in Int /\ x.maker_rate \in Int
              /\ x.round_up_to_cent \in BOOLEAN
              /\ x.round_up_to_cent <=> m.venue = "kalshi"
<1>1. CASE m \in [venue: {"kalshi"}, fee_type: Quadratic \cup {"flat"}, fee_multiplier: Int,
                  readable: BOOLEAN]
  <2>1. m.venue = "kalshi" /\ m.fee_type \in Quadratic \cup {"flat"} /\ m.fee_multiplier \in Int
    BY <1>1
  <2>2. fee_model(m) = kalshi_fee_model(m)
    BY <2>1 DEF fee_model
  <2>3. Priceable(m) <=> m.readable /\ m.fee_type # "flat"
    BY <2>1 DEF Priceable
  <2>4. \A t \in Quadratic : MakerMultiplier(t) \in Int /\ t # "flat"
    BY DEF Quadratic, MakerMultiplier
  <2>5. \A x \in fee_model(m) : \E t \in Quadratic :
          /\ x = [rate |-> 7 * m.fee_multiplier, maker_rate |-> 175 * MakerMultiplier(t),
                  round_up_to_cent |-> TRUE]
          /\ m.readable /\ t = m.fee_type
    BY <2>2 DEF kalshi_fee_model
  <2>6. \A x \in fee_model(m) :
          x.rate \in Int /\ x.maker_rate \in Int /\ x.round_up_to_cent = TRUE
    BY <2>1, <2>4, <2>5
  <2>7. fee_model(m) # {} <=> m.readable /\ m.fee_type \in Quadratic
    <3>1. ASSUME m.readable, m.fee_type \in Quadratic PROVE fee_model(m) # {}
      <4> DEFINE T == Quadratic \cap (IF m.readable THEN {m.fee_type} ELSE {})
                 model(t) == [rate |-> 7 * m.fee_multiplier, maker_rate |-> 175 * MakerMultiplier(t),
                              round_up_to_cent |-> TRUE]
      <4>1. m.fee_type \in T
        BY <3>1
      <4>2. fee_model(m) = { model(t) : t \in T }
        BY <2>2 DEF kalshi_fee_model
      <4> HIDE DEF T, model
      <4>3. model(m.fee_type) \in fee_model(m)
        BY <4>1, <4>2
      <4> QED BY <4>3
    <3> QED BY <2>5, <3>1
  <2> QED BY <2>1, <2>3, <2>4, <2>6, <2>7
<1>2. CASE m \in [venue: {"intl"}, feesEnabled: BOOLEAN, feeSchedule: BOOLEAN, exponent: Int,
                  rate: Int, readable: BOOLEAN]
  <2>1. /\ m.venue = "intl" /\ m.rate \in Int
        /\ m.feesEnabled \in BOOLEAN /\ m.feeSchedule \in BOOLEAN /\ m.readable \in BOOLEAN
    BY <1>2
  <2>2. fee_model(m) = polymarket_fee_model(m)
    BY <2>1 DEF fee_model
  <2>3. Priceable(m) <=> ((m.feesEnabled /\ m.feeSchedule) => (m.readable /\ m.exponent = 1))
    BY <2>1 DEF Priceable
  <2>4. fee_model(m) = IF ~m.feesEnabled \/ ~m.feeSchedule THEN {Polymarket(0)}
                       ELSE IF m.exponent = 1 /\ m.readable THEN {Polymarket(m.rate)} ELSE {}
    BY <2>2 DEF polymarket_fee_model
  <2>5. \A r \in Int : /\ Polymarket(r).rate \in Int /\ Polymarket(r).maker_rate \in Int
                       /\ Polymarket(r).round_up_to_cent = FALSE
    BY DEF Polymarket
  <2>6. fee_model(m) # {} <=> Priceable(m)
    BY <2>1, <2>3, <2>4
  <2>7. \A x \in fee_model(m) : \E r \in Int : x = Polymarket(r)
    BY <2>1, <2>4
  <2> QED BY <2>1, <2>5, <2>6, <2>7
<1>3. CASE m \in [venue: {"us"}, rate: Int, readable: BOOLEAN]
  <2>1. m.venue = "us" /\ m.rate \in Int /\ m.readable \in BOOLEAN
    BY <1>3
  <2>2. fee_model(m) = polymarket_us_fee_model(m)
    BY <2>1 DEF fee_model
  <2>3. Priceable(m) <=> m.readable /\ m.rate >= 0
    BY <2>1 DEF Priceable
  <2>4. fee_model(m) = IF m.readable /\ m.rate >= 0 THEN {Polymarket(m.rate)} ELSE {}
    BY <2>2 DEF polymarket_us_fee_model
  <2>5. \A r \in Int : /\ Polymarket(r).rate \in Int /\ Polymarket(r).maker_rate \in Int
                       /\ Polymarket(r).round_up_to_cent = FALSE
    BY DEF Polymarket
  <2>6. fee_model(m) # {} <=> Priceable(m)
    BY <2>1, <2>3, <2>4
  <2>7. \A x \in fee_model(m) : \E r \in Int : x = Polymarket(r)
    BY <2>1, <2>4
  <2> QED BY <2>1, <2>5, <2>6, <2>7
<1> QED BY <1>1, <1>2, <1>3, FillInputs

\* One rounding of the whole basis.
LEMMA RoundedOnce ==
  ASSUME NEW rate \in Int, NEW up \in BOOLEAN, NEW basis \in Nat,
         NEW f \in fee_dollars_from_basis(rate, up, basis)
  PROVE  IF up THEN f - rate * basis \in 0..CENT
         ELSE 2 * (f - rate * basis) \in -DECIMALS..DECIMALS
<1> DEFINE raw == rate * basis
<1>1. raw \in Int
  OBVIOUS
<1>2. CENT \in Nat /\ DECIMALS \in Nat
  BY DEF CENT, DECIMALS
<1>3. CASE basis <= 0 \/ rate = 0
  <2>1. f = 0
    BY <1>3 DEF fee_dollars_from_basis
  <2>2. basis = 0 \/ rate = 0
    BY <1>3
  <2>3. raw = 0
    BY <2>2
  <2> HIDE DEF raw
  <2> QED BY <1>2, <2>1, <2>3 DEF raw
<1>4. CASE ~(basis <= 0 \/ rate = 0)
  <2>1. f \in IF up THEN RoundUp(raw) ELSE Nearest(raw)
    BY <1>4 DEF fee_dollars_from_basis
  <2> HIDE DEF raw
  <2>2. up => f - raw \in 0..CENT
    BY <1>1, <2>1, RoundUpWithinCent
  <2>3. ~up => 2 * (f - raw) \in -DECIMALS..DECIMALS
    BY <1>1, <2>1, NearestWithinHalf
  <2> QED BY <2>2, <2>3 DEF raw
<1> QED BY <1>3, <1>4

\* FeeWithinACent: for every list of levels, every curve and every rate, a fill is
\* charged what the schedule owes up to one rounding, and a curve that is not
\* implemented is refused.
THEOREM FeesAreWithinACent == Spec => []FeeWithinACent
<1>1. Asked /\ Computed => FeeWithinACent
  <2> SUFFICES ASSUME Asked, Computed, input.what = "fill", answer # NONE PROVE FeeWithinACent
    BY DEF FeeWithinACent, Answered
  <2>1. input \in Fills /\ Charged
    BY Kinds DEF Computed
  <2>2. /\ input.market \in FeeMarkets /\ input.levels \in LevelLists
        /\ input.side \in {"taker", "maker"}
    BY <2>1 DEF Fills
  <2> DEFINE market == input.market
             levels == input.levels
             basis == SumFunction([k \in DOMAIN levels |-> LevelBasis(levels[k])])
  <2>3. answer # {} <=> fee_model(market) # {}
    BY <2>1 DEF Charged
  <2>4. answer # {} <=> Priceable(market)
    BY <2>2, <2>3, Models
  <2>5. ASSUME NEW a \in answer
        PROVE  IF market.venue = "kalshi" THEN a.fee - Owed(a.rate, levels) \in 0..CENT
               ELSE 2 * (a.fee - Owed(a.rate, levels)) \in -DECIMALS..DECIMALS
    <3>1. PICK m \in fee_model(market) :
            \E f \in FillFee(Rate(m), m.round_up_to_cent, levels) :
              answer = { [rate |-> Rate(m), fee |-> f] }
      BY <2>1, <2>5 DEF Charged
    <3>2. PICK f \in FillFee(Rate(m), m.round_up_to_cent, levels) :
            answer = { [rate |-> Rate(m), fee |-> f] }
      BY <3>1
    <3>3. a.rate = Rate(m) /\ a.fee = f
      BY <2>5, <3>2
    <3>4. m.rate \in Int /\ m.maker_rate \in Int /\ m.round_up_to_cent \in BOOLEAN
          /\ (m.round_up_to_cent <=> market.venue = "kalshi")
      BY <2>2, Models
    <3>5. Rate(m) \in Int
      BY <3>4 DEF Rate
    <3>6. basis \in Nat /\ Owed(Rate(m), levels) = Rate(m) * basis
      BY <2>2, <3>5, BasisIsOwed
    <3>7. f \in fee_dollars_from_basis(Rate(m), m.round_up_to_cent, basis)
      BY <3>2 DEF FillFee
    <3> HIDE DEF basis
    <3>8. IF m.round_up_to_cent THEN f - Rate(m) * basis \in 0..CENT
          ELSE 2 * (f - Rate(m) * basis) \in -DECIMALS..DECIMALS
      BY <3>4, <3>5, <3>6, <3>7, RoundedOnce
    <3> QED BY <3>3, <3>4, <3>6, <3>8
  <2> QED BY <2>4, <2>5 DEF FeeWithinACent
<1> QED BY <1>1, AnswersAreComputed, PTL

-----------------------------------------------------------------------------
(* The best of a set.                                                      *)

\* Where b[x] is what goes before x in a strict total order of a finite set, those
\* with fewer than n before them are n, or all; and they go before all others.
LEMMA FirstOfOrder ==
  ASSUME NEW S, IsFiniteSet(S), NEW b \in [S -> SUBSET S],
         \A x \in S : x \notin b[x],
         \A x \in S : \A y \in b[x] : b[y] \subseteq b[x],
         \A x, y \in S : x = y \/ x \in b[y] \/ y \in b[x],
         NEW n \in Nat, NEW m \in S, ~(Cardinality(b[m]) < n)
  PROVE  LET T == { x \in S : Cardinality(b[x]) < n }
         IN  /\ Cardinality(T) = n
             /\ \A x \in T : x \in b[m]
<1> DEFINE T == { x \in S : Cardinality(b[x]) < n }
<1>1. \A x \in S : b[x] \in SUBSET S /\ IsFiniteSet(b[x]) /\ Cardinality(b[x]) \in Nat
  <2> TAKE x \in S
  <2>1. b[x] \in SUBSET S
    OBVIOUS
  <2>2. IsFiniteSet(b[x])
    BY <2>1, FS_Subset
  <2> QED BY <2>1, <2>2, FS_CardinalityType
<1>2. ASSUME NEW x \in S, NEW y \in S, b[y] \subseteq b[x]
      PROVE Cardinality(b[y]) <= Cardinality(b[x])
  <2>1. b[y] \in SUBSET b[x] /\ IsFiniteSet(b[x])
    BY <1>1, <1>2
  <2> QED BY <2>1, FS_Subset
<1>3. T \in SUBSET S /\ IsFiniteSet(T) /\ Cardinality(T) \in Nat
  <2>1. T \in SUBSET S
    OBVIOUS
  <2>2. IsFiniteSet(T)
    BY <2>1, FS_Subset
  <2> QED BY <2>1, <2>2, FS_CardinalityType
\* Those in T go before those that are not.
<1>4. ASSUME NEW x \in T, NEW y \in S, y \notin T PROVE x \in b[y]
  <2>1. x \in S /\ x # y /\ Cardinality(b[x]) < n /\ ~(Cardinality(b[y]) < n)
    BY <1>4
  <2>2. CASE y \in b[x]
    <3>1. b[y] \subseteq b[x]
      BY <2>1, <2>2
    <3>2. Cardinality(b[y]) <= Cardinality(b[x])
      BY <1>2, <1>4, <2>1, <3>1
    <3> QED BY <1>1, <1>4, <2>1, <3>2
  <2> QED BY <1>4, <2>1, <2>2
<1>5. m \notin T
  OBVIOUS
\* The first of those outside T has just T before it.
<1>6. Cardinality(T) >= n
  <2> DEFINE F == { b[y] : y \in S \ T }
  <2>1. PICK s \in F : \A t \in F : t \subseteq s => t = s
    <3>1. F \in SUBSET (SUBSET S) /\ F # {}
      <4>1. \A y \in S \ T : b[y] \in SUBSET S
        BY <1>1
      <4>2. m \in S \ T
        BY <1>5
      <4> HIDE DEF T
      <4>3. b[m] \in F
        BY <4>2
      <4> QED BY <4>1, <4>3
    <3> HIDE DEF F
    <3> QED BY <3>1, SmallestMember
  <2>2. PICK y \in S \ T : s = b[y]
    BY <2>1
  <2>3. ASSUME NEW z \in b[y], z \notin T PROVE FALSE
    <3>1. z \in S \ T /\ b[z] \subseteq b[y]
      BY <1>1, <2>2, <2>3
    <3>2. b[z] = b[y]
      BY <2>1, <2>2, <3>1
    <3> QED BY <2>3, <3>1, <3>2
  <2>4. b[y] \in SUBSET T
    BY <2>3
  <2>5. Cardinality(b[y]) <= Cardinality(T)
    BY <1>3, <2>4, FS_Subset
  <2>6. ~(Cardinality(b[y]) < n)
    BY <2>2
  <2> HIDE DEF T
  <2> QED BY <1>1, <1>3, <2>2, <2>5, <2>6
\* The last of T has all the others of T before it.
<1>7. Cardinality(T) <= n
  <2>1. CASE T = {}
    BY <2>1, FS_EmptySet
  <2>2. CASE T # {}
    <3> DEFINE F == { T \ b[x] : x \in T }
    <3>1. PICK s \in F : \A t \in F : t \subseteq s => t = s
      <4>1. F \in SUBSET (SUBSET S) /\ F # {}
        <5>1. PICK x \in T : TRUE
          BY <2>2
        <5> HIDE DEF T
        <5>2. T \ b[x] \in F
          BY <5>1
        <5>3. ASSUME NEW s \in F PROVE s \in SUBSET S
          <6>1. PICK y \in T : s = T \ b[y]
            OBVIOUS
          <6> QED BY <1>3, <6>1
        <5> HIDE DEF F
        <5> QED BY <5>2, <5>3
      <4> HIDE DEF F
      <4> QED BY <4>1, SmallestMember
    <3>2. PICK x \in T : s = T \ b[x]
      BY <3>1
    <3>3. ASSUME NEW z \in T, z \notin b[x], z # x PROVE FALSE
      <4>1. x \in b[z] /\ b[x] \subseteq b[z]
        BY <3>2, <3>3
      <4>2. T \ b[z] \in F /\ T \ b[z] \subseteq T \ b[x]
        BY <3>3, <4>1
      <4>3. T \ b[z] = T \ b[x]
        BY <3>1, <3>2, <4>2
      <4>4. x \in T \ b[x]
        BY <3>2
      <4> QED BY <4>1, <4>3, <4>4
    <3>4. x \in S /\ Cardinality(b[x]) < n
      BY <3>2
    <3>5. T \in SUBSET (b[x] \cup {x})
      BY <3>3
    <3>6. IsFiniteSet(b[x] \cup {x}) /\ Cardinality(b[x] \cup {x}) = Cardinality(b[x]) + 1
      BY <1>1, <3>4, FS_AddElement
    <3>7. Cardinality(T) <= Cardinality(b[x] \cup {x})
      BY <3>5, <3>6, FS_Subset
    <3> HIDE DEF T
    <3> QED BY <1>1, <1>3, <3>4, <3>6, <3>7
  <2> QED BY <2>1, <2>2
<1>8. \A x \in T : x \in b[m]
  BY <1>4, <1>5
<1> HIDE DEF T
<1>9. Cardinality(T) = n
  BY <1>3, <1>6, <1>7
<1> QED BY <1>8, <1>9 DEF T

\* One that First leaves out is crowded out: n others are taken, none of which
\* weighs less.
LEMMA CrowdedOut ==
  ASSUME NEW n \in Nat, NEW S \in SUBSET Int, IsFiniteSet(S), NEW w, \A x \in S : w[x] \in Int,
         NEW m \in S, m \notin First(n, S, w)
  PROVE  /\ First(n, S, w) \subseteq S
         /\ Cardinality(First(n, S, w)) = n
         /\ \A x \in First(n, S, w) : w[x] >= w[m]
<1> DEFINE b == [x \in S |-> { y \in S : w[y] > w[x] \/ (w[y] = w[x] /\ y < x) }]
<1>1. First(n, S, w) = { x \in S : Cardinality(b[x]) < n }
  BY DEF First
<1>2. b \in [S -> SUBSET S]
  OBVIOUS
<1>3. \A x \in S, y \in S : y \in b[x] <=> w[y] > w[x] \/ (w[y] = w[x] /\ y < x)
  OBVIOUS
<1> HIDE DEF b
<1>4. \A x \in S : x \notin b[x]
  BY <1>3
<1>5. \A x \in S : \A y \in b[x] : b[y] \subseteq b[x]
  <2> SUFFICES ASSUME NEW x \in S, NEW y \in b[x], NEW z \in b[y] PROVE z \in b[x]
    OBVIOUS
  <2>1. y \in S /\ z \in S
    BY <1>2
  <2>2. x \in Int /\ y \in Int /\ z \in Int /\ w[x] \in Int /\ w[y] \in Int /\ w[z] \in Int
    BY <2>1
  <2>3. (w[y] > w[x] \/ (w[y] = w[x] /\ y < x)) /\ (w[z] > w[y] \/ (w[z] = w[y] /\ z < y))
    BY <1>3, <2>1
  <2>4. w[z] > w[x] \/ (w[z] = w[x] /\ z < x)
    BY <2>2, <2>3
  <2> QED BY <1>3, <2>1, <2>4
<1>6. \A x, y \in S : x = y \/ x \in b[y] \/ y \in b[x]
  <2> SUFFICES ASSUME NEW x \in S, NEW y \in S, x # y PROVE x \in b[y] \/ y \in b[x]
    OBVIOUS
  <2>1. x \in Int /\ y \in Int /\ w[x] \in Int /\ w[y] \in Int
    OBVIOUS
  <2> QED BY <1>3, <2>1
<1>7. ~(Cardinality(b[m]) < n)
  BY <1>1
<1> DEFINE T == { x \in S : Cardinality(b[x]) < n }
<1>8. Cardinality(T) = n /\ \A x \in T : x \in b[m]
  BY <1>2, <1>4, <1>5, <1>6, <1>7, FirstOfOrder
<1>9. \A x \in T : w[x] >= w[m]
  BY <1>3, <1>8
<1> QED BY <1>1, <1>8, <1>9

-----------------------------------------------------------------------------
(* Candidates.                                                             *)

\* The documents of a corpus: each Kalshi market, then each of the other venue.
LEMMA Documents ==
  ASSUME NEW c \in Corpora, NEW k \in DOMAIN c.kalshi, NEW m \in DOMAIN c.others
  PROVE  LET docs == c.kalshi \o c.others
         IN  /\ DOMAIN docs = 1..(Len(c.kalshi) + Len(c.others))
             /\ Len(c.kalshi) + Len(c.others) \in 1..(MAX_COUNT - 1)
             /\ c.kalshi[k] \subseteq Tokens(docs) /\ c.others[m] \subseteq Tokens(docs)
<1> DEFINE K == c.kalshi
           O == c.others
           docs == K \o O
<1>1. K \in Seq(SUBSET Int) /\ O \in Seq(SUBSET Int) /\ Len(K) + Len(O) < MAX_COUNT
  BY CorpusInputs
<1>2. k \in DOMAIN K /\ m \in DOMAIN O
  OBVIOUS
<1>3. MAX_COUNT \in Nat
  BY CandidateConstants
<1> HIDE DEF K, O
<1>4. Len(K) \in Nat /\ Len(O) \in Nat /\ DOMAIN K = 1..Len(K) /\ DOMAIN O = 1..Len(O)
  BY <1>1
<1>5. DOMAIN docs = 1..(Len(K) + Len(O))
  BY <1>1, <1>4
<1>6. docs[k] = K[k] /\ docs[Len(K) + m] = O[m]
  BY <1>1, <1>2, <1>4
<1>7. k \in DOMAIN docs /\ Len(K) + m \in DOMAIN docs
  BY <1>2, <1>4, <1>5
<1>8. Len(K) + Len(O) \in 1..(MAX_COUNT - 1)
  BY <1>1, <1>2, <1>3, <1>4
<1> HIDE DEF docs
<1>9. K[k] \subseteq Tokens(docs) /\ O[m] \subseteq Tokens(docs)
  BY <1>6, <1>7 DEF Tokens
<1> QED BY <1>5, <1>8, <1>9 DEF docs, K, O

LEMMA AtLeastZero ==
  ASSUME NEW n \in Int
  PROVE  Max({0, n}) \in Nat
<1>1. \E x \in {0, n} : \A y \in {0, n} : x >= y
  <2>1. CASE n <= 0
    BY <2>1
  <2>2. CASE ~(n <= 0)
    BY <2>2
  <2> QED BY <2>1, <2>2
<1>2. Max({0, n}) \in {0, n} /\ \A y \in {0, n} : Max({0, n}) >= y
  BY <1>1 DEF Max
<1> QED BY <1>2

\* The weight of a word is a natural number: no word is in more documents than there
\* are, so that the logarithms asked for are those of numbers up to MAX_COUNT.
LEMMA WeightsAreNatural ==
  ASSUME NEW docs, NEW n \in 1..(MAX_COUNT - 1), DOMAIN docs = 1..n
  PROVE  \A t \in Tokens(docs) : inverse_document_frequency(docs)[t] \in Nat
<1> SUFFICES ASSUME NEW t \in Tokens(docs)
             PROVE  inverse_document_frequency(docs)[t] \in Nat
  OBVIOUS
<1>0. MAX_COUNT \in Nat /\ \A i \in 1..MAX_COUNT : Log[i] \in Int
  BY CandidateConstants
<1>1. IsFiniteSet(DOMAIN docs) /\ Cardinality(DOMAIN docs) = n
  BY <1>0, FS_Interval
<1>2. Holding(t, docs) \in SUBSET (DOMAIN docs)
  BY DEF Holding
<1>3. IsFiniteSet(Holding(t, docs)) /\ Cardinality(Holding(t, docs)) <= n
  BY <1>1, <1>2, FS_Subset
<1>4. Cardinality(Holding(t, docs)) \in Nat
  BY <1>3, FS_CardinalityType
<1>5. n \in 1..MAX_COUNT /\ 1 + Cardinality(Holding(t, docs)) \in 1..MAX_COUNT
  BY <1>0, <1>3, <1>4
<1>6. Log[n] - Log[1 + Cardinality(Holding(t, docs))] \in Int
  <2>1. Log[n] \in Int /\ Log[1 + Cardinality(Holding(t, docs))] \in Int
    BY <1>0, <1>5
  <2> QED BY <2>1
<1>7. inverse_document_frequency(docs)[t]
        = Max({0, Log[n] - Log[1 + Cardinality(Holding(t, docs))]})
  BY <1>1 DEF inverse_document_frequency
<1> QED BY <1>6, <1>7, AtLeastZero

LEMMA IndexHolds ==
  ASSUME NEW others, NEW t \in DOMAIN _build_index(others)
  PROVE  /\ _build_index(others)[t] = { d \in DOMAIN others : t \in others[d] }
         /\ _build_index(others)[t] \subseteq DOMAIN others
BY DEF _build_index, Holding

\* A market with exactly the words of entry is found by every seed, and gives way only
\* to as many others, each with every seed that weighs anything.
LEMMA TwinIsAmongCandidates ==
  ASSUME NEW others, NEW n \in Nat, DOMAIN others = 1..n,
         NEW m \in DOMAIN others, NEW entry, others[m] = entry, IsFiniteSet(entry),
         NEW weights, \A t \in entry : weights[t] \in Nat
  PROVE  LET index == _build_index(others)
             found == Seeds(entry, weights) \cap DOMAIN index
             finders == { t \in found : weights[t] > 0 }
             C == _candidates(entry, index, weights)
         IN  /\ IsFiniteSet(C)
             /\ \/ finders = {}
                \/ m \in C
                \/ /\ Cardinality(C) = MAX_CANDIDATES
                   /\ \A x \in C : finders \subseteq others[x]
<1> DEFINE index == _build_index(others)
           seeds == Seeds(entry, weights)
           G == seeds \cap DOMAIN index
           hits == UNION { index[t] : t \in G }
           weight == [x \in hits |-> Accumulated(x, seeds, index, weights)]
           finders == { t \in G : weights[t] > 0 }
           C == _candidates(entry, index, weights)
<1>1. C = First(MAX_CANDIDATES, hits, weight)
  BY DEF _candidates
<1>2. G \in SUBSET entry /\ IsFiniteSet(G)
  <2>1. G \in SUBSET entry
    BY DEF Seeds, First
  <2> HIDE DEF G
  <2> QED BY <2>1, FS_Subset
<1>3. \A t \in G : weights[t] \in Nat
  BY <1>2
<1>4. \A t \in G : /\ index[t] = { d \in DOMAIN others : t \in others[d] }
                   /\ index[t] \subseteq DOMAIN others
  BY IndexHolds
<1>5. hits \in SUBSET (1..n) /\ IsFiniteSet(hits) /\ hits \in SUBSET Int
  <2>1. hits \in SUBSET (1..n)
    BY <1>4
  <2>2. IsFiniteSet(1..n)
    BY FS_Interval
  <2> HIDE DEF hits
  <2>3. IsFiniteSet(hits)
    BY <2>1, <2>2, FS_Subset
  <2> QED BY <2>1, <2>3
<1>10. IsFiniteSet(C)
  <2>1. C \in SUBSET hits
    BY <1>1 DEF First
  <2> HIDE DEF C, hits
  <2> QED BY <1>5, <2>1, FS_Subset
\* What a market weighs are the seeds it holds.
<1>6. ASSUME NEW x \in hits PROVE weight[x] = SumFunctionOnSet(weights, G \cap others[x])
  <2>1. x \in DOMAIN others
    BY <1>5
  <2>2. { t \in G : x \in index[t] } = G \cap others[x]
    BY <1>4, <2>1
  <2> QED BY <2>2 DEF Accumulated
<1>7. ASSUME NEW x \in hits
      PROVE  /\ weight[x] \in Int /\ SumFunctionOnSet(weights, G) \in Int
             /\ weight[x] <= SumFunctionOnSet(weights, G)
  <2> DEFINE part == G \cap others[x]
  <2>1. part \in SUBSET G
    OBVIOUS
  <2>2. weight[x] = SumFunctionOnSet(weights, part)
    BY <1>6
  <2> HIDE DEF G, weight, part, hits
  <2>3. /\ SumFunctionOnSet(weights, G) \in Nat /\ SumFunctionOnSet(weights, part) \in Nat
        /\ SumFunctionOnSet(weights, part) <= SumFunctionOnSet(weights, G)
    BY <1>2, <1>3, <2>1, SumOfPart
  <2> QED BY <2>2, <2>3
<1>8. ASSUME finders # {}, m \notin C
      PROVE  Cardinality(C) = MAX_CANDIDATES /\ \A x \in C : finders \subseteq others[x]
  <2>1. PICK t \in G : weights[t] > 0
    BY <1>8
  <2>2. t \in others[m] /\ G \cap others[m] = G
    BY <1>2
  <2>3. m \in index[t]
    BY <1>4, <2>2
  <2>4. m \in hits
    BY <2>3
  <2>5. weight[m] = SumFunctionOnSet(weights, G)
    BY <1>6, <2>2, <2>4
  <2>6. MAX_CANDIDATES \in Nat
    BY CandidateConstants
  <2>7. m \notin First(MAX_CANDIDATES, hits, weight)
    BY <1>1, <1>8
  <2> HIDE DEF hits, weight, C, G
  <2>8. /\ First(MAX_CANDIDATES, hits, weight) \subseteq hits
        /\ Cardinality(First(MAX_CANDIDATES, hits, weight)) = MAX_CANDIDATES
        /\ \A x \in First(MAX_CANDIDATES, hits, weight) : weight[x] >= weight[m]
    BY <1>5, <1>7, <2>4, <2>6, <2>7, CrowdedOut
  <2>9. ASSUME NEW x \in C, NEW u \in finders PROVE u \in others[x]
    <3>1. x \in hits /\ weight[x] >= weight[m]
      BY <1>1, <2>8
    <3>2. SumFunctionOnSet(weights, G \cap others[x]) = SumFunctionOnSet(weights, G)
      <4>1. weight[x] = SumFunctionOnSet(weights, G)
        BY <1>7, <2>5, <3>1
      <4> QED BY <1>6, <3>1, <4>1
    <3>3. u \in G /\ weights[u] > 0
      BY <2>9
    <3>4. G \cap others[x] \in SUBSET G
      OBVIOUS
    <3>5. u \in G \cap others[x]
      BY <1>2, <1>3, <3>2, <3>3, <3>4, SumOfWholePart
    <3> QED BY <3>5
  <2> QED BY <1>1, <2>8, <2>9
<1> HIDE DEF C, finders
<1>9. finders = {} \/ m \in C \/ (Cardinality(C) = MAX_CANDIDATES /\ \A x \in C : finders \subseteq others[x])
  BY <1>8
<1> QED BY <1>9, <1>10 DEF C, finders

\* TwinFound: for all corpora and weights, a market of the other venue with exactly a
\* Kalshi market's words scores full marks and is scored, unless none of those words
\* finds anything or the places go to markets with all the words that could find it.
THEOREM TwinsAreFound == Spec => []TwinFound
<1>1. Asked /\ Computed => TwinFound
  <2> SUFFICES ASSUME Asked, Computed, input.what = "corpus", answer # NONE,
                      NEW k \in DOMAIN input.kalshi, NEW m \in DOMAIN input.others,
                      input.others[m] = input.kalshi[k]
               PROVE  LET scored == { a \in answer : a.k = k }
                          finders == Finders(k, input.kalshi, input.others)
                      IN  /\ \A a \in scored : a.m = m => a.lexical[1] = a.lexical[2]
                          /\ \/ finders = {}
                             \/ \E a \in scored : a.m = m
                             \/ /\ Cardinality(scored) = MAX_CANDIDATES
                                /\ \A a \in scored : finders \subseteq input.others[a.m]
    BY DEF TwinFound, Answered
  <2>1. input \in Corpora /\ answer = match_all(input.kalshi, input.others)
    BY Kinds DEF Computed
  <2> DEFINE K == input.kalshi
             O == input.others
             E == K[k]
             weights == inverse_document_frequency(K \o O)
             index == _build_index(O)
             finders == Finders(k, K, O)
             C(j) == _candidates(K[j], index, weights)
             Scored(j, x) == [k |-> j, m |-> x, lexical |-> weighted_overlap(K[j], O[x], weights)]
             scored == { a \in answer : a.k = k }
  <2>2. /\ K \in Seq(SUBSET Int) /\ O \in Seq(SUBSET Int)
        /\ E # {} /\ IsFiniteSet(E)
    BY <2>1, CorpusInputs
  <2>3. K # <<>> /\ O # <<>>
    <3> k \in DOMAIN K /\ m \in DOMAIN O
      OBVIOUS
    <3> HIDE DEF K, O
    <3> QED BY <2>2
  <2>4. answer = UNION { { Scored(j, x) : x \in C(j) } : j \in DOMAIN K }
    BY <2>1, <2>3 DEF match_all
  <2>5. scored = { Scored(k, x) : x \in C(k) }
    <3> k \in DOMAIN K
      OBVIOUS
    <3> HIDE DEF K, C, O, weights
    <3>1. ASSUME NEW a \in scored PROVE a \in { Scored(k, x) : x \in C(k) }
      <4>1. PICK j \in DOMAIN K : a \in { Scored(j, x) : x \in C(j) }
        BY <2>4, <3>1
      <4>2. PICK x \in C(j) : a = Scored(j, x)
        BY <4>1
      <4>3. j = k
        BY <3>1, <4>2
      <4> QED BY <4>2, <4>3
    <3>2. ASSUME NEW x \in C(k) PROVE Scored(k, x) \in scored
      <4>1. Scored(k, x) \in answer
        BY <2>4
      <4> QED BY <4>1
    <3> QED BY <3>1, <3>2
  \* Part one: the two sets of words are one.
  <2>6. ASSUME NEW a \in scored, a.m = m PROVE a.lexical[1] = a.lexical[2]
    <3>1. a.lexical = weighted_overlap(E, E, weights)
      <4>1. PICK x \in C(k) : a = Scored(k, x)
        BY <2>5, <2>6
      <4>2. x = m
        BY <2>6, <4>1
      <4> QED BY <4>1, <4>2
    <3>2. E \cap E = E /\ E \cup E = E
      OBVIOUS
    <3> HIDE DEF E, weights, scored
    <3>3. \/ weighted_overlap(E, E, weights) = <<Cardinality(E), Cardinality(E)>>
          \/ weighted_overlap(E, E, weights) = <<WeightOf(E, weights), WeightOf(E, weights)>>
      BY <2>2, <3>2 DEF weighted_overlap
    <3> QED BY <3>1, <3>3
  \* Part two.
  <2>7. \A t \in E : weights[t] \in Nat
    <3>1. /\ DOMAIN (K \o O) = 1..(Len(K) + Len(O))
          /\ Len(K) + Len(O) \in 1..(MAX_COUNT - 1)
          /\ E \subseteq Tokens(K \o O)
      BY <2>1, Documents
    <3> HIDE DEF K, O, E
    <3> QED BY <3>1, WeightsAreNatural
  <2>8. DOMAIN O = 1..Len(O) /\ Len(O) \in Nat
    <3> HIDE DEF O
    <3> QED BY <2>2
  <2>9. finders = { t \in Seeds(E, weights) \cap DOMAIN index : weights[t] > 0 }
    BY DEF Finders
  <2>10. m \in DOMAIN O /\ O[m] = E
    OBVIOUS
  <2> HIDE DEF O, E
  <2>11. /\ IsFiniteSet(C(k))
         /\ \/ finders = {}
            \/ m \in C(k)
            \/ /\ Cardinality(C(k)) = MAX_CANDIDATES
               /\ \A x \in C(k) : finders \subseteq O[x]
    <3> HIDE DEF weights, finders
    <3>1. C(k) = _candidates(E, index, weights)
      BY DEF E
    <3> QED BY <2>2, <2>7, <2>8, <2>9, <2>10, <3>1, TwinIsAmongCandidates
  <2>12. ASSUME m \in C(k) PROVE \E a \in scored : a.m = m
    <3>1. Scored(k, m) \in scored
      BY <2>5, <2>12
    <3>2. Scored(k, m).m = m
      OBVIOUS
    <3> QED BY <3>1, <3>2
  <2>13. ASSUME Cardinality(C(k)) = MAX_CANDIDATES, \A x \in C(k) : finders \subseteq O[x]
         PROVE  /\ Cardinality(scored) = MAX_CANDIDATES
                /\ \A a \in scored : finders \subseteq O[a.m]
    <3> DEFINE T == C(k)
               one == [x \in T |-> Scored(k, x)]
    <3>1. IsFiniteSet(T)
      BY <2>11
    <3>2. one \in Bijection(T, scored)
      <4>1. one \in [T -> scored] /\ \A a \in scored : \E x \in T : one[x] = a
        BY <2>5
      <4>2. \A x \in T : one[x].m = x
        OBVIOUS
      <4> HIDE DEF one, T, scored
      <4>3. IsInjective(one)
        BY <4>1, <4>2 DEF IsInjective
      <4> QED BY <4>1, <4>3 DEF Bijection, Injection, Surjection
    <3> HIDE DEF T, scored, one
    <3>3. Cardinality(scored) = Cardinality(T)
      BY <3>1, <3>2, FS_Bijection DEF ExistsBijection
    <3>4. \A a \in scored : a.m \in T
      BY <2>5 DEF T
    <3> QED BY <2>13, <3>3, <3>4 DEF T
  <2> HIDE DEF scored, finders, C
  <2>14. finders = {} \/ (\E a \in scored : a.m = m)
           \/ (Cardinality(scored) = MAX_CANDIDATES /\ \A a \in scored : finders \subseteq O[a.m])
    BY <2>11, <2>12, <2>13
  <2> QED BY <2>6, <2>14 DEF scored, finders, O
<1> QED BY <1>1, AnswersAreComputed, PTL
\* weighted_overlap: for all sets of words and all weights the score is a fraction of
\* one, never divided by zero, and full marks mean that every word that weighs
\* anything is on both sides.
THEOREM ScoresAreFractions ==
  ASSUME NEW left, NEW right, IsFiniteSet(left), IsFiniteSet(right),
         NEW weights, \A t \in left \cup right : weights[t] \in Nat
  PROVE  LET score == weighted_overlap(left, right, weights)
         IN  /\ score[1] \in Nat /\ score[2] \in Nat \ {0} /\ score[1] <= score[2]
             /\ score[1] = score[2] =>
                  \A t \in left \cup right : weights[t] > 0 => t \in left \cap right
<1> DEFINE all == left \cup right
           both == left \cap right
           score == weighted_overlap(left, right, weights)
<1>1. IsFiniteSet(all) /\ both \in SUBSET all
  BY FS_Union
<1>2. IsFiniteSet(both) /\ Cardinality(both) <= Cardinality(all)
  <2> HIDE DEF all, both
  <2> QED BY <1>1, FS_Subset
<1>3. Cardinality(both) \in Nat /\ Cardinality(all) \in Nat
  BY <1>1, <1>2, FS_CardinalityType
<1>4. /\ WeightOf(all, weights) \in Nat /\ WeightOf(both, weights) \in Nat
      /\ WeightOf(both, weights) <= WeightOf(all, weights)
  <2>1. \A t \in all : weights[t] \in Nat
    OBVIOUS
  <2> HIDE DEF all, both
  <2> QED BY <1>1, <2>1, SumOfPart DEF WeightOf
<1>5. ASSUME WeightOf(both, weights) = WeightOf(all, weights),
             NEW t \in all, weights[t] > 0
      PROVE  t \in both
  <2>1. \A u \in all : weights[u] \in Nat
    OBVIOUS
  <2> HIDE DEF all, both
  <2> QED BY <1>1, <1>5, <2>1, SumOfWholePart DEF WeightOf
<1>6. CASE left = {} \/ right = {}
  <2>1. score = <<0, 1>>
    BY <1>6 DEF weighted_overlap
  <2> QED BY <2>1
<1>7. CASE left # {} /\ right # {} /\ WeightOf(all, weights) = 0
  <2>1. score = <<Cardinality(both), Cardinality(all)>>
    BY <1>7 DEF weighted_overlap
  <2>2. Cardinality(all) # 0
    BY <1>1, <1>7, FS_EmptySet
  <2>3. ASSUME NEW t \in all, weights[t] > 0 PROVE t \in both
    BY <1>4, <1>5, <1>7, <2>3
  <2> HIDE DEF score
  <2>4. score[1] = Cardinality(both) /\ score[2] = Cardinality(all)
    BY <2>1
  <2> QED BY <1>2, <1>3, <2>2, <2>3, <2>4 DEF score
<1>8. CASE left # {} /\ right # {} /\ WeightOf(all, weights) # 0
  <2>1. score = <<WeightOf(both, weights), WeightOf(all, weights)>>
    BY <1>8 DEF weighted_overlap
  <2> HIDE DEF score
  <2>2. score[1] = WeightOf(both, weights) /\ score[2] = WeightOf(all, weights)
    BY <2>1
  <2> QED BY <1>4, <1>5, <1>8, <2>2 DEF score
<1> QED BY <1>6, <1>7, <1>8

=============================================================================
