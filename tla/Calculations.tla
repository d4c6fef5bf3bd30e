---------------------------- MODULE Calculations ----------------------------
(***************************************************************************)
(* The pure calculations as one specification: a behaviour takes an input  *)
(* and computes its answer.  The constants are the inputs; what is assumed *)
(* of them is what the callers and the venues' payloads provide.           *)
(***************************************************************************)
EXTENDS Matching, Fees, Sizing, Candidates, Configuration

CONSTANTS
  Pairs,                  \* a Kalshi market and another venue's, with their scores
  StartOf, SLACK,         \* when an occurrence starts, how far off a venue may state it
  FeeMarkets, LevelLists, \* markets with a fee curve, the levels of a fill
  Stakes,                 \* fires to be sized
  Prices, Grids,          \* wire prices, price grids
  Corpora,                \* the markets of both venues
  Environs                \* process environments

VARIABLES input, answer

-----------------------------------------------------------------------------
(* What the inputs are.                                                    *)

\* What a market states of the fact it settles on is so: its start, up to SLACK, and
\* its qualifiers.
Truthful(m) ==
  /\ m.about = [quantity |-> m.about.quantity, game |-> m.about.game,
                authority |-> m.about.authority, qualifiers |-> m.about.qualifiers]
  /\ m.about.game \in DOMAIN StartOf
  /\ m.start # NONE => m.start \in Int /\ Apart(m.start, StartOf[m.about.game]) <= SLACK
  /\ m.qualifiers = m.about.qualifiers

Number == Int \cup {NONE}

\* A level of a statistic, in its units if they are stated; or a contest between A
\* and B, of whom Kalshi's label may name both or none but not the wrong one.
TrueKalshi(k) ==
  /\ Truthful(k)
  /\ IF IsLevel(k)
     THEN /\ k.strike_type \in {"greater", "greater_or_equal", "less", "less_or_equal", "between"}
          /\ k.floor \in Number /\ k.cap \in Number /\ k.units \in {NONE, k.about.quantity}
     ELSE /\ k.strike_type = "structured" /\ k.team \in {"A", "B"}
          /\ k.names \subseteq {"A", "B"} /\ (k.names # {} => k.team \in k.names)

\* The outcomes are yes and no, or over and under, in either order.
Generic(o) ==
  \/ o.first.kind \in Affirmative /\ o.second.kind \in Negative
  \/ o.first.kind \in Negative /\ o.second.kind \in Affirmative

\* The outcomes are the two contestants.
HeadToHead(o) ==
  o.first.kind = "team" /\ o.second.kind = "team" /\ {o.first.team, o.second.team} = {"A", "B"}

TrueOther(o) ==
  /\ Truthful(o)
  /\ IF IsLevel(o)
     THEN /\ IsLine(o) \/ o.wording \in Up \cup Down
          /\ o.number \in Number /\ polymarket_terms(o).units \in {NONE, o.about.quantity}
          /\ Generic(o)
     ELSE ~IsLine(o) /\ o.wording = "none" /\ (Generic(o) \/ HeadToHead(o))

\* What the matcher takes for granted of two markets, and nothing in it checks.
\* A question answered by yes or no is about the contestant that Kalshi's market is
\* about: it weighs words, not their order.
SameSubject(k, o) == ~IsLevel(k) /\ ~IsLevel(o) /\ Generic(o) => o.team = k.team
\* Where a contest between two contestants can end in a draw, somebody's wording says so.
DrawsWorded(k, o) == HeadToHead(o) /\ k.about.game \in Drawable => k.draw \/ o.draw
\* A token that the stated sources share names the authority of both.
SourcesIdentify(k, o) == k.sources \cap o.sources # {} => k.about.authority = o.about.authority
\* A title that takes the place of the long side's label stands for yes.
TitleOnYes(o) == o.venue = "us" /\ o.title # NONE => o.first.kind # "no"

TakenForGranted(k, o) ==
  SameSubject(k, o) /\ DrawsWorded(k, o) /\ SourcesIdentify(k, o) /\ TitleOnYes(o)

ASSUME PairInputs ==
  /\ SLACK \in Nat
  /\ \A g, h \in DOMAIN StartOf :
       /\ StartOf[g] \in Int
       /\ g # h => Apart(StartOf[g], StartOf[h]) > TIME_TOLERANCE + 2 * SLACK
  /\ \A p \in Pairs :
       /\ p.what = "pair"
       /\ TrueKalshi(p.k) /\ TrueOther(p.o)

ASSUME FillInputs ==
  /\ FeeMarkets \subseteq
       [venue: {"kalshi"}, fee_type: Quadratic \cup {"flat"}, fee_multiplier: Int, readable: BOOLEAN]
       \cup [venue: {"intl"}, feesEnabled: BOOLEAN, feeSchedule: BOOLEAN, exponent: Int, rate: Int,
             readable: BOOLEAN]
       \cup [venue: {"us"}, rate: Int, readable: BOOLEAN]
  /\ LevelLists \subseteq Seq([contracts: Nat, price: 0..100])

Fills == [what: {"fill"}, market: FeeMarkets, side: {"taker", "maker"}, levels: LevelLists]

ASSUME StakeInputs ==
  Stakes \subseteq [what: {"stake"}, edge: Int, cost: Int, balance: Int, kelly_fraction: Int,
                    max_position_pct: Nat, min_contract_count: Nat, available: Nat]

\* Every range begins and ends on its own grid, two ranges share no more than an
\* end, and a market that states a grid states it for every price.
PriceGrid(ranges) ==
  /\ \A k \in DOMAIN ranges : /\ ranges[k].step > 0
                              /\ ranges[k].start % ranges[k].step = 0
                              /\ ranges[k].end % ranges[k].step = 0
  /\ \A j, k \in DOMAIN ranges :
       j = k \/ ranges[j].end <= ranges[k].start \/ ranges[k].end <= ranges[j].start
  /\ ranges = <<>> \/ \A p \in Prices : Covering(p, ranges) # {}

ASSUME QuoteInputs ==
  /\ Prices \subseteq Nat
  /\ Grids \subseteq Seq([start: Int, end: Int, step: Int])
  /\ \A g \in Grids : PriceGrid(g)

Quotes == [what: {"quote"}, price: Prices, ranges: Grids]

ASSUME CorpusInputs ==
  \A c \in Corpora :
    /\ c.what = "corpus"
    /\ c.kalshi \in Seq(SUBSET Int) /\ c.others \in Seq(SUBSET Int)
    /\ Len(c.kalshi) + Len(c.others) < MAX_COUNT
    /\ \A k \in DOMAIN c.kalshi : c.kalshi[k] # {} /\ IsFiniteSet(c.kalshi[k])
    /\ \A m \in DOMAIN c.others : c.others[m] # {} /\ IsFiniteSet(c.others[m])

-----------------------------------------------------------------------------
Init ==
  /\ answer = NONE
  /\ \/ input \in Pairs
     \/ input \in Fills
     \/ input \in Stakes
     \/ input \in Quotes
     \/ input \in Corpora
     \/ input \in [what: {"env"}, env: Environs]

Ask(what) == answer = NONE /\ input.what = what /\ UNCHANGED input

Evaluate == Ask("pair") /\ answer' = _evaluate(input)

Rate(model) == IF input.side = "taker" THEN model.rate ELSE model.maker_rate

\* The answer is a set: empty if the market is refused.
Charge ==
  /\ Ask("fill")
  /\ IF fee_model(input.market) = {} THEN answer' = {}
     ELSE \E m \in fee_model(input.market) :
            \E f \in FillFee(Rate(m), m.round_up_to_cent, input.levels) :
               answer' = { [rate |-> Rate(m), fee |-> f] }

SizeFire == Ask("stake") /\ answer' \in FireCount(input)

Snap == Ask("quote") /\ answer' \in _snap_to_grid(input.price, input.ranges)

MatchAll == Ask("corpus") /\ answer' = match_all(input.kalshi, input.others)

Load == Ask("env") /\ answer' = load_config(input.env)

Next == Evaluate \/ Charge \/ SizeFire \/ Snap \/ MatchAll \/ Load
vars == <<input, answer>>
Spec == Init /\ [][Next]_vars

-----------------------------------------------------------------------------
Answered(what) == input.what = what /\ answer # NONE

Identical == Answered("pair") /\ answer.confidence = "identical"

\* A pair that MarketMatcher._evaluate calls IDENTICAL is one claim: whatever the
\* fact turns out to be, Kalshi's YES pays exactly when the aligned outcome does,
\* and the opposite outcome exactly when it does not.  For markets that both state
\* what the settlement gate compares, where what it takes for granted is so: the
\* subject of a question, that a possible draw is worded, that a token in common is
\* an authority in common, that a title stands for yes.
IdenticalPaysAlike ==
  (Identical /\ Stated(input.k, input.o) /\ TakenForGranted(input.k, input.o))
     => PaysAlike(input.k, input.o, answer.aligned)

\* "any check that fails or cannot be performed becomes a blocker" (matching.py,
\* of the units among others): no two levels are IDENTICAL when the units of one
\* could not be read.
UnreadUnitsBlock ==
  LET l == kalshi_terms(input.k)
      r == polymarket_terms(input.o)
  IN  (Identical /\ l.threshold # NONE /\ r.threshold # NONE) =>
         l.units # NONE /\ r.units # NONE

\* A market whose payload states a quadratic curve with a readable rate.
Priceable(m) ==
  CASE m.venue = "kalshi" -> m.readable /\ m.fee_type # "flat"
    [] m.venue = "intl" -> (m.feesEnabled /\ m.feeSchedule) => (m.readable /\ m.exponent = 1)
    [] m.venue = "us" -> m.readable /\ m.rate >= 0

\* fee_dollars_from_basis: over all its levels a fill is charged what the schedule
\* owes, up to one cent more on Kalshi and half of the fifth decimal on either
\* Polymarket, however its levels lie on rounding boundaries; a curve the module
\* does not implement is refused and never priced.
FeeWithinACent ==
  Answered("fill") =>
    /\ answer # {} <=> Priceable(input.market)
    /\ \A a \in answer :
         LET over == a.fee - Owed(a.rate, input.levels)
         IN  IF input.market.venue = "kalshi" THEN over \in 0..CENT
             ELSE 2 * over \in -DECIMALS..DECIMALS

\* size_position and the clamp after it: an order above the configured floor costs
\* neither more than the ceiling on a position nor more than fractional Kelly, and
\* no order asks for more whole contracts than rest at the level.
StakeCapped ==
  Answered("stake") =>
    /\ answer > input.min_contract_count =>
         /\ input.cost \in 1..99
         /\ answer * input.cost <= input.max_position_pct * input.balance
         /\ answer * input.cost * (100 - input.cost)
              <= input.edge * input.kelly_fraction * input.balance
    /\ input.available > 0 => 10 * answer <= input.available

\* _snap_to_grid: the price that leaves is on the grid of every range that holds
\* it, and within half a step of the quoted one in the range that held that.
SnapOnGrid ==
  Answered("quote") =>
    LET held == Covering(input.price, input.ranges)
    IN  /\ OnGrid(answer, input.ranges)
        /\ \E step \in IF held = {} THEN {100} ELSE { input.ranges[k].step : k \in held } :
             2 * Apart(answer, input.price) <= step

\* match_all: a market of the other venue with exactly a Kalshi market's words
\* scores full marks, also where all those words are too common to weigh anything,
\* and is never crowded out by markets that share less: if it is not scored, the
\* places are taken by markets with all the words that could find it.
TwinFound ==
  Answered("corpus") =>
    \A k \in DOMAIN input.kalshi, m \in DOMAIN input.others :
      input.others[m] = input.kalshi[k] =>
        LET scored == { a \in answer : a.k = k }
            finders == Finders(k, input.kalshi, input.others)
        IN  /\ \A a \in scored : a.m = m => a.lexical[1] = a.lexical[2]
            /\ \/ finders = {}
               \/ \E a \in scored : a.m = m
               \/ /\ Cardinality(scored) = MAX_CANDIDATES
                  /\ \A a \in scored : finders \subseteq input.others[a.m]

\* The spellings of yes (see StripLower).
SaysYes == {"1", "true", " TRUE", "True ", "yes", "YES"}

Said(name) == IF name \in DOMAIN input.env THEN input.env[name] ELSE "unset"

\* The two credentials of an environment, and the two that serve either.
Own(c) ==
  IF c.environment = "prod" THEN [id |-> "PROD_API_KEY_ID", path |-> "PROD_PRIVATE_KEY_PATH"]
  ELSE [id |-> "DEMO_API_KEY_ID", path |-> "DEMO_PRIVATE_KEY_PATH"]
Shared == [id |-> "API_KEY_ID", path |-> "PRIVATE_KEY_PATH"]

GivesKey(pair) == EnvGet(input.env, pair.id, "") # ""
GivesPath(pair) == EnvGet(input.env, pair.path, "") \notin {"", "."}

\* The process signs with the key of one pair and sends the id that belongs to it.
SignsWith(c, pair) ==
  /\ resolved_api_key_id(c) = EnvGet(input.env, pair.id, "")
  /\ resolved_private_key_path(c) = PathOf(EnvGet(input.env, pair.path, ""))

\* The process talks to the host that the demo variable names, whichever that is, and
\* no credential of production's alone comes with it.
OnDemo(c) ==
  /\ base_url(c) = EnvGet(input.env, "DEMO_BASE_URL", "")
  /\ resolved_api_key_id(c) \in
       { EnvGet(input.env, n, "") : n \in {"DEMO_API_KEY_ID", "API_KEY_ID"} }
  /\ resolved_private_key_path(c) \in
       { PathOf(EnvGet(input.env, n, "")) : n \in {"DEMO_PRIVATE_KEY_PATH", "PRIVATE_KEY_PATH"} }

\* load_config and the guards, whatever the variables hold, hosts and credentials
\* included: unless one variable names production and another says yes in so many
\* words, whoever may place orders places them on the demo variable's host, which
\* nobody checks; the poller and the executor never run anywhere else; the gate is on
\* unless its variable is set to something that is no plain yes; and where an
\* environment's own two credentials are both given or both missing, the id that is
\* sent and the key that signs are one pair's.
ProductionIsDeliberate ==
  Answered("env") => \A c \in answer :
    /\ orders_permitted(c) =>
         \/ Said("ENVIRONMENT") = "prod" /\ Said("ALLOW_PRODUCTION_ORDERS") \in SaysYes
         \/ OnDemo(c)
    /\ demo_trading_process(c) => OnDemo(c)
    /\ ~c.risk_gate_enabled =>
         "RISK_GATE_ENABLED" \in DOMAIN input.env /\ Said("RISK_GATE_ENABLED") \notin SaysYes
    /\ (GivesKey(Own(c)) <=> GivesPath(Own(c))) =>
         SignsWith(c, IF GivesKey(Own(c)) THEN Own(c) ELSE Shared)
=============================================================================
