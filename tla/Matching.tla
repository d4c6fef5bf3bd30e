------------------------------ MODULE Matching ------------------------------
(***************************************************************************)
(* When two venues' markets are called the same claim: the settlement      *)
(* terms of crossvenue/normalize.py, and the scoring and the settlement    *)
(* gate of crossvenue/matching.py.  Definitions only, no state.            *)
(*                                                                         *)
(* Wording is abstracted to what the matcher takes from it: the share of   *)
(* rare words in common, the qualifiers, whether a sport that knows draws  *)
(* is mentioned, the comparison and the number a question states, the      *)
(* tokens of the settlement sources.  Thresholds count ticks,              *)
(* so that isclose() is equality (below ten million dollars, where its     *)
(* relative tolerance is less than a tick); times count minutes.           *)
(***************************************************************************)
EXTENDS Integers, FiniteSets

CONSTANTS
  NONE,             \* what a venue does not state, or states unreadably
  TIME_TOLERANCE, EXPIRY_TOLERANCE, DAYLENGTH,  \* MatcherConfig's, and a day
  Ticks,            \* the values a level's statistic can take
  Drawable          \* the occurrences that can end in a draw, whatever anyone's wording

ASSUME MatchingConstants ==
  /\ TIME_TOLERANCE \in Nat /\ EXPIRY_TOLERANCE \in Nat /\ DAYLENGTH \in Nat \ {0}
  /\ Ticks \subseteq Int

-----------------------------------------------------------------------------
(* Normalisation.  A market on the wire is a record; settlement terms are   *)
(* [comparator, threshold, units].                                         *)

Up == {"greater", "greater_equal"}
Down == {"less", "less_equal"}

KalshiComparator(strike_type) ==
  CASE strike_type = "greater_or_equal" -> "greater_equal"
    [] strike_type = "less_or_equal" -> "less_equal"
    [] strike_type \in {"greater", "less", "between"} -> strike_type
    [] OTHER -> "none"

\* normalize_kalshi_market: a floor or a cap, depending on the strike's type.
kalshi_terms(m) ==
  LET c == KalshiComparator(m.strike_type)
  IN  [comparator |-> c, units |-> m.units,
       threshold |-> IF c \in Up \cup {"between"} THEN m.floor
                     ELSE IF c \in Down THEN m.cap
                     ELSE NONE]

\* The market types of either Polymarket that state no line in their question.
OutcomeTypes(venue) ==
  IF venue = "intl" THEN {"moneyline", ""} ELSE {"futures", "moneyline", "election"}

IsLine(m) == m.type \notin OutcomeTypes(m.venue)

\* normalize_polymarket_market and normalize_polymarket_us_market: a line market
\* is read as "over", in the units of its type; otherwise the wording decides.
polymarket_terms(m) ==
  [comparator |-> IF IsLine(m) THEN "greater" ELSE m.wording,
   threshold |-> IF IsLine(m) \/ m.wording # "none" THEN m.number ELSE NONE,
   units |-> IF IsLine(m) THEN m.type ELSE m.units]

\* _pm_us_labels: when the long side is a bare yes or no, the title takes its place;
\* a title that only repeats the question is none.  A label is a record [kind, team],
\* of kind "yes", "no", "over", "under", "team" or "not".
labels(m) ==
  IF m.venue = "us" /\ m.first.kind \in {"yes", "no"} /\ m.title # NONE
  THEN <<[kind |-> "team", team |-> m.title], [kind |-> "not", team |-> m.title]>>
  ELSE <<m.first, m.second>>

-----------------------------------------------------------------------------
(* Scoring.                                                                *)

\* Kalshi's label fits a team that it may name; without initials it is also
\* found inside "not <team>".
teams_match(k, label) ==
  /\ label.kind = "team" \/ (label.kind = "not" /\ ~k.initials)
  /\ label.team \in k.names

Affirmative == {"yes", "over"}
Negative == {"no", "under"}

\* Which outcome is Kalshi's YES, and whether team names decided it.
_resolve_alignment(k, o) ==
  LET yes == labels(o)[1]
      no == labels(o)[2]
      first == teams_match(k, yes)
      second == teams_match(k, no)
  IN  CASE yes.kind \in Affirmative /\ no.kind \in Negative ->
                    [to |-> "first", by_team |-> FALSE]
        [] yes.kind \in Negative /\ no.kind \in Affirmative ->
                    [to |-> "second", by_team |-> FALSE]
        [] OTHER -> [to |-> IF first = second THEN "unknown"
                            ELSE IF first THEN "first" ELSE "second",
                     by_team |-> first # second]

Apart(s, t) == IF s >= t THEN s - t ELSE t - s

BothStarts(k, o) == k.start # NONE /\ o.start # NONE

\* In percent.
_time_agreement(k, o) ==
  IF BothStarts(k, o)
  THEN IF Apart(k.start, o.start) <= TIME_TOLERANCE THEN 100 ELSE 0
  ELSE IF k.expiry # NONE /\ o.expiry # NONE
       THEN IF Apart(k.expiry, o.expiry) <= EXPIRY_TOLERANCE THEN 60 ELSE 0
       ELSE 30

\* p.share: the part of Kalshi's label that the other question repeats.
_label_agreement(p) == IF _resolve_alignment(p.k, p.o).by_team THEN 100 ELSE p.share

\* In hundredths of a percent, p.lexical being weighted_overlap in percent.
Score(p) == 45 * p.lexical + 20 * _time_agreement(p.k, p.o) + 35 * _label_agreement(p)
MIN_SCORE == 4200
STRONG_SCORE == 6000

_qualifier_conflict(k, o) == k.qualifiers # o.qualifiers

-----------------------------------------------------------------------------
(* The settlement gate: the criteria that block a pair.                    *)

\* A draw leaves the outcomes of a head-to-head incomplete; that there can be one is
\* taken from the wording.
_draw_blockers(k, o) == labels(o)[1].kind \notin Affirmative /\ (k.draw \/ o.draw)

Direction(c) == IF c \in Up THEN "up" ELSE IF c \in Down THEN "down" ELSE "none"

\* Thresholds a tick apart mean the same whatever their comparators.
thresholdsWithinTick(lc, lt, rc, rt) == Direction(lc) = Direction(rc) /\ Apart(lt, rt) <= 1

\* "> x" is ">= x + tick"; nothing else with different numbers is the same.
thresholds_equivalent(lc, lt, rc, rt) ==
  IF Direction(lc) = "none" \/ Direction(rc) = "none" THEN lc = rc /\ lt = rt
  ELSE /\ Direction(lc) = Direction(rc)
       /\ IF lt = rt THEN lc = rc
          ELSE <<lc, rc, rt - lt>> \in { <<"greater", "greater_equal", 1>>,
                                         <<"greater_equal", "greater", -1>>,
                                         <<"less", "less_equal", -1>>,
                                         <<"less_equal", "less", 1>> }

_threshold_blockers(k, o) ==
  LET l == kalshi_terms(k)
      r == polymarket_terms(o)
  IN  /\ l.threshold # NONE \/ r.threshold # NONE
      /\ \/ l.threshold = NONE \/ r.threshold = NONE
         \/ l.units # NONE /\ r.units # NONE /\ l.units # r.units
         \/ "between" \in {l.comparator, r.comparator}
         \/ ~thresholds_equivalent(l.comparator, l.threshold, r.comparator, r.threshold)

_same_day(s, t) == s # NONE /\ t # NONE /\ s \div DAYLENGTH = t \div DAYLENGTH

_timing_blockers(k, o) ==
  IF BothStarts(k, o) THEN Apart(k.start, o.start) > TIME_TOLERANCE
  ELSE ~_same_day(k.expiry, o.expiry)

\* Any token in common passes, be it a name or a word like "sports".
_source_blockers(k, o) == k.sources \cap o.sources = {}

_settlement_blockers(k, o) ==
  \/ _draw_blockers(k, o)
  \/ _threshold_blockers(k, o)
  \/ _timing_blockers(k, o)
  \/ _source_blockers(k, o)

\* MarketMatcher._evaluate; a rejected pair without an alignment carries the first.
_evaluate(p) ==
  LET aligned == _resolve_alignment(p.k, p.o).to
  IN  [aligned |-> IF aligned = "unknown" THEN "first" ELSE aligned,
       confidence |-> CASE Score(p) < MIN_SCORE -> "discarded"
                        [] _qualifier_conflict(p.k, p.o) \/ aligned = "unknown" -> "rejected"
                        [] Score(p) < STRONG_SCORE -> "weak"
                        [] _settlement_blockers(p.k, p.o) -> "strong"
                        [] OTHER -> "identical"]

-----------------------------------------------------------------------------
(* The reference: what the contracts pay.  m.about identifies the fact that *)
(* a market settles on: which statistic, of which occurrence, as published  *)
(* by which authority, with which qualification.                           *)

IsLevel(m) == m.about.quantity # "winner"

\* The values the fact can take: a number of ticks, or who won.
Facts(k) ==
  IF IsLevel(k) THEN Ticks
  ELSE {"A", "B"} \cup (IF k.about.game \in Drawable THEN {"draw"} ELSE {})

\* Kalshi's YES, by the table of strike types in normalize.py.
KalshiPays(k, v) ==
  CASE k.strike_type = "greater" -> v > k.floor
    [] k.strike_type = "greater_or_equal" -> v >= k.floor
    [] k.strike_type = "less" -> v < k.cap
    [] k.strike_type = "less_or_equal" -> v <= k.cap
    [] k.strike_type = "between" -> k.floor <= v /\ v <= k.cap
    [] OTHER -> v = k.team

\* The claim that the other market's question makes.
Claim(o, v) ==
  CASE IsLine(o) -> v > o.number
    [] ~IsLine(o) /\ o.wording = "greater" -> v > o.number
    [] ~IsLine(o) /\ o.wording = "greater_equal" -> v >= o.number
    [] ~IsLine(o) /\ o.wording = "less" -> v < o.number
    [] ~IsLine(o) /\ o.wording = "less_equal" -> v <= o.number
    [] OTHER -> v = o.team

OutcomePays(o, label, v) ==
  CASE label.kind \in Affirmative -> Claim(o, v)
    [] label.kind \in Negative -> ~Claim(o, v)
    [] OTHER -> v = label.team

\* One contract of Kalshi's YES and one of the outcome opposite to the aligned
\* one pay a dollar together, whatever happens, and so do the two others.
PaysAlike(k, o, aligned) ==
  LET same == IF aligned = "first" THEN o.first ELSE o.second
      opposite == IF aligned = "first" THEN o.second ELSE o.first
  IN  /\ k.about = o.about
      /\ \A v \in Facts(k) :
           /\ KalshiPays(k, v) = OutcomePays(o, same, v)
           /\ KalshiPays(k, v) # OutcomePays(o, opposite, v)

\* Both venues state what the gate compares: the start, and the number and the
\* units of a level.
Stated(k, o) ==
  /\ IsLevel(k) => kalshi_terms(k).threshold # NONE /\ k.units # NONE
  /\ IsLevel(o) => polymarket_terms(o).threshold # NONE /\ polymarket_terms(o).units # NONE
  /\ BothStarts(k, o)
=============================================================================
