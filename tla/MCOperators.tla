---------------------------- MODULE MCOperators ----------------------------
(* The inputs of Calculations for model checking.                          *)
EXTENDS Calculations, TLC

-----------------------------------------------------------------------------
(* Pairs of markets.                                                       *)

\* When occurrence 1, 2 and 3 take place: two on one day, one on the next.  The
\* second can end in a draw.
Games == <<0, 180, 1440>>
Contests == {2}

Label(kind) == [kind |-> kind, team |-> NONE]
Team(t) == [kind |-> "team", team |-> t]

\* Where and when a market settles, and what it states of that.
Settings(games, authorities, qualifiers, draws) ==
  { [game |-> g, authority |-> a, qualifiers |-> q, draw |-> d,
     start |-> s, expiry |-> Games[g] + 60, sources |-> r] :
      g \in games, a \in authorities, q \in qualifiers, d \in draws,
      s \in {NONE, 0, 20, 180, 1440}, r \in {{}, {"mlb"}, {"espn", "sports"}, {"mlb", "sports"}} }

\* Sources name the authority, with a word that says less beside it or without.
True(S) ==
  { x \in S : /\ x.start # NONE => Apart(x.start, Games[x.game]) <= SLACK
              /\ x.sources # {} => x.authority \in x.sources }

KalshiSettings == True(Settings({1, 2}, {"mlb"}, {{}}, BOOLEAN))
OtherSettings == True(Settings({1, 2, 3}, {"mlb", "espn"}, {{}, {"vp"}}, {FALSE}))

About(x, quantity) ==
  [quantity |-> quantity, game |-> x.game, authority |-> x.authority,
   qualifiers |-> x.qualifiers]

Kalshi(x, quantity, c) ==
  [start |-> x.start, expiry |-> x.expiry, sources |-> x.sources, qualifiers |-> x.qualifiers,
   draw |-> x.draw, about |-> About(x, quantity), strike_type |-> c.strike_type,
   floor |-> c.floor, cap |-> c.cap, units |-> c.units, team |-> "A", names |-> c.names, initials |-> c.initials]

KalshiContests ==
  { [strike_type |-> "structured", floor |-> NONE, cap |-> NONE, units |-> NONE,
     names |-> n[1], initials |-> n[2]] :
      n \in { <<{"A"}, FALSE>>, <<{"A"}, TRUE>>, <<{"A", "B"}, FALSE>>, <<{}, FALSE>> } }

KalshiLevels ==
  { [strike_type |-> t, floor |-> IF t \in {"less", "less_or_equal"} THEN NONE ELSE n,
     cap |-> CASE t \in {"less", "less_or_equal"} -> n [] t = "between" -> 3 [] OTHER -> NONE,
     units |-> u, names |-> {}, initials |-> FALSE] :
      t \in {"greater", "greater_or_equal", "less", "less_or_equal", "between"},
      n \in {NONE, 1, 2}, u \in {NONE, "usd"} }

Other(x, quantity, c) ==
  [start |-> x.start, expiry |-> x.expiry, sources |-> x.sources, qualifiers |-> x.qualifiers,
   draw |-> x.draw, about |-> About(x, quantity), venue |-> c.venue, type |-> c.type,
   wording |-> c.wording, number |-> c.number, units |-> c.units, first |-> c.first,
   second |-> c.second, title |-> c.title, team |-> c.team]

\* "Will A win?", "will B win?", or A against B.
OtherContests ==
  { [venue |-> v, type |-> "moneyline", wording |-> "none", number |-> NONE, units |-> NONE,
     first |-> l[1], second |-> l[2], title |-> l[3], team |-> l[4]] :
      v \in {"intl", "us"},
      l \in { <<Label("yes"), Label("no"), NONE, "A">>, <<Label("yes"), Label("no"), NONE, "B">>,
              <<Label("no"), Label("yes"), NONE, "A">>, <<Label("yes"), Label("no"), "A", "A">>,
              <<Label("no"), Label("yes"), "A", "A">>, <<Team("A"), Team("B"), NONE, "A">>,
              <<Team("B"), Team("A"), NONE, "A">> } }

\* A level in the wording of the question, or a line in its type.
OtherLevels ==
  { [venue |-> v, type |-> "moneyline", wording |-> w, number |-> n, units |-> u,
     first |-> Label(l[1]), second |-> Label(l[2]), title |-> NONE, team |-> NONE] :
      v \in {"intl", "us"}, w \in Up \cup Down, n \in {NONE, 1, 2, 3},
      u \in {NONE, "usd", "percent"},
      l \in { <<"yes", "no">>, <<"no", "yes">> } }
  \cup
  { [venue |-> v, type |-> "totals", wording |-> "none", number |-> n, units |-> NONE,
     first |-> Label("over"), second |-> Label("under"), title |-> NONE, team |-> NONE] :
      v \in {"intl", "us"}, n \in {NONE, 1, 2} }

\* The statistic a level is about: the one its units say, if any.
QuantitiesOf(c) ==
  IF c.type = "totals" THEN {"totals"}
  ELSE IF c.units = NONE THEN {"usd", "percent"} ELSE {c.units}

Pair(k, o, lexical, share) ==
  [what |-> "pair", k |-> k, o |-> o, lexical |-> lexical, share |-> share]

Agreed == [game |-> 1, authority |-> "mlb", qualifiers |-> {}, draw |-> FALSE,
           start |-> 0, expiry |-> 60, sources |-> {"mlb"}]

\* Every level of Kalshi's, and a contest, against every level of the other
\* venue's where all else agrees; every contest against every other in every
\* pair of settings.
LevelPairs ==
  { Pair(Kalshi(Agreed, IF c \in KalshiContests THEN "winner" ELSE "usd", c), Other(Agreed, q, d), 100, 50) :
      c \in KalshiLevels \cup KalshiContests, <<d, q>> \in
        { x \in OtherLevels \X {"totals", "usd", "percent"} : x[2] \in QuantitiesOf(x[1]) } }

ContestPairs ==
  [what: {"pair"}, k: { Kalshi(x, "winner", c) : x \in KalshiSettings, c \in KalshiContests },
   o: { Other(x, "winner", c) : x \in OtherSettings, c \in OtherContests },
   lexical: {90}, share: {0, 100}]

PairsOfMarkets == LevelPairs \cup ContestPairs

-----------------------------------------------------------------------------
(* Fills of one level or two, at round prices and at the ends of the book.  *)

MarketsWithFees ==
  { [venue |-> "kalshi", fee_type |-> t, fee_multiplier |-> n, readable |-> r] :
      t \in Quadratic \cup {"flat"}, n \in {-100, 0, 50, 100}, r \in BOOLEAN }
  \cup
  { [venue |-> "intl", feesEnabled |-> e, feeSchedule |-> s, exponent |-> x, rate |-> n,
     readable |-> r] :
      e \in BOOLEAN, s \in BOOLEAN, x \in {1, 2}, n \in {-400, 0, 400}, r \in BOOLEAN }
  \cup
  { [venue |-> "us", rate |-> n, readable |-> r] : n \in {-600, 0, 600}, r \in BOOLEAN }

Levels == [contracts: {1, 4, 13}, price: {1, 37, 50, 99}]
OneOrTwoLevels == { <<a>> : a \in Levels } \cup (Levels \X Levels)

-----------------------------------------------------------------------------
(* Fires to be sized, and wire prices to be snapped.                       *)

Fires ==
  [what: {"stake"}, edge: {-5, 0, 1, 10, 50}, cost: {0, 1, 2, 50, 98, 99, 100},
   balance: {0, 1, 100, 1000}, kelly_fraction: {-10, 15, 100}, max_position_pct: {2, 10, 100},
   min_contract_count: {1, 5}, available: {0, 5, 35, 1000}]

Range3(s, e, t) == [start |-> s, end |-> e, step |-> t]

\* None, whole cents, and the tapered grid of the 15-minute series.
PriceGrids ==
  { <<>>, <<Range3(0, 10000, 100)>>,
    <<Range3(0, 1000, 10), Range3(1000, 9000, 100), Range3(9000, 10000, 10)>> }

WirePrices == (1..240) \cup (940..1160) \cup (8840..9060) \cup (9800..9999)

-----------------------------------------------------------------------------
(* Corpora: two Kalshi markets, and three of the other venue among which    *)
(* one or more have exactly the words of the first.                         *)

Words == (SUBSET (1..4)) \ {{}}

TwinCorpora ==
  { [what |-> "corpus", kalshi |-> <<k, l>>,
     others |-> CASE twin = 1 -> <<k, a, b>> [] twin = 2 -> <<a, k, b>> [] twin = 3 -> <<a, b, k>>] :
      k \in Words, l \in {{1}, {2, 3}, {1, 2, 3, 4}}, a \in Words, b \in Words, twin \in 1..3 }

LogTable == <<0, 693, 1099, 1386, 1609, 1792, 1946>>

-----------------------------------------------------------------------------
(* Process environments: any of the credentials, hosts of either venue, and *)
(* values an operator might write.                                         *)

\* The switches in every combination, then the other checked variables one by one.
Switches ==
  [ENVIRONMENT: {"demo", "prod", "production"},
   ALLOW_PRODUCTION_ORDERS: {"1", " TRUE", "YES", "false", "on", ""},
   RISK_GATE_ENABLED: {"True ", "on", "false"}]
Others ==
  { <<"ORDER_TIME_IN_FORCE", v>> : v \in {"immediate_or_cancel", "ioc"} } \cup
  { <<"ORDER_SELF_TRADE_PREVENTION_TYPE", v>> : v \in {"maker", "none"} } \cup
  { <<"ALLOWED_EXCHANGE_INDEXES", v>> : v \in {",", "0,", "0,2", "zero", "0,x"} } \cup
  { <<"RISK_MAX_ATTEMPTS_PER_HOUR", v>> : v \in {"3", "ten"} }

\* Each host under its own name, the demo variable with production's, and blank.
Hosts ==
  { [DEMO_BASE_URL |-> "demo", PROD_BASE_URL |-> "prod"],
    [DEMO_BASE_URL |-> "prod", PROD_BASE_URL |-> "prod"], [PROD_BASE_URL |-> ""] }

\* Credentials by name, and the odd ones: blank, or production's under demo's name.
Keys ==
  { "API_KEY_ID", "PRIVATE_KEY_PATH", "DEMO_API_KEY_ID", "DEMO_PRIVATE_KEY_PATH",
    "PROD_API_KEY_ID", "PROD_PRIVATE_KEY_PATH" }
Credentials ==
  { [n \in names |-> n] : names \in SUBSET Keys } \cup
  { [n \in Keys |-> IF n \in blank THEN "" ELSE n] : blank \in SUBSET Keys } \cup
  { [n \in names |-> "PROD_API_KEY_ID"] : names \in SUBSET Keys }

Set(switches) ==
  { [n \in names |-> switches[n]] : names \in SUBSET DOMAIN switches }

SomeEnvironments ==
  { values @@ keys @@ hosts :
      values \in UNION { Set(v) : v \in Switches }, keys \in Credentials, hosts \in Hosts }
  \cup
  { values @@ (other[1] :> other[2]) @@ hosts :
      values \in UNION { Set(v) : v \in Switches }, other \in Others, hosts \in Hosts }
=============================================================================
