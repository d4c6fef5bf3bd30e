--------------------------- MODULE Configuration ---------------------------
(***************************************************************************)
(* load_config and the two environment guards of KalshiBotConfig.  The     *)
(* process environment is a function from the variables that are set to    *)
(* their values; the names are without their prefix KALSHI_.               *)
(***************************************************************************)
EXTENDS Integers

EnvGet(env, name, default) == IF name \in DOMAIN env THEN env[name] ELSE default

\* .strip().lower(), on two spellings of "true" and one of "yes" that stand for all
\* those with capitals or spaces.
StripLower(text) ==
  CASE text \in {"true", " TRUE", "True "} -> "true"
    [] text \in {"yes", "YES"} -> "yes"
    [] OTHER -> text

\* Any text that is not empty taken for true.
TruthyText(text) == text # ""
Truthy(text) == StripLower(text) \in {"1", "true", "yes"}

Environments == {"demo", "prod"}
TimesInForce == {"fill_or_kill", "good_till_canceled", "immediate_or_cancel"}
SelfTradePreventions == {"taker_at_cross", "maker"}

\* int() refuses a part of the comma-separated list that is no number; blank
\* parts are skipped.
Unreadable(list) == list \in {"zero", "0,x"}
Indexes(list) == CASE list \in {"", ","} -> {} [] list \in {"0", "0,"} -> {0} [] list = "0,2" -> {0, 2}

\* str(Path(text))
PathOf(text) == IF text = "" THEN "." ELSE text

\* The value errors of load_config.
Refused(env) ==
  \/ EnvGet(env, "ENVIRONMENT", "demo") \notin Environments
  \/ EnvGet(env, "ORDER_TIME_IN_FORCE", "fill_or_kill") \notin TimesInForce
  \/ EnvGet(env, "ORDER_SELF_TRADE_PREVENTION_TYPE", "taker_at_cross") \notin SelfTradePreventions
  \/ Unreadable(EnvGet(env, "ALLOWED_EXCHANGE_INDEXES", ""))
  \/ EnvGet(env, "RISK_MAX_ATTEMPTS_PER_HOUR", "10") = "ten"

\* The configuration, as a set that is empty when loading raises.  One cap stands
\* for the eleven, each with RiskLimits' own default.
load_config(env) ==
  IF Refused(env) THEN {}
  ELSE { [environment |-> EnvGet(env, "ENVIRONMENT", "demo"),
          time_in_force |-> EnvGet(env, "ORDER_TIME_IN_FORCE", "fill_or_kill"),
          allowed |-> Indexes(EnvGet(env, "ALLOWED_EXCHANGE_INDEXES", "")),
          allow_production_orders |-> Truthy(EnvGet(env, "ALLOW_PRODUCTION_ORDERS", "")),
          risk_gate_enabled |-> Truthy(EnvGet(env, "RISK_GATE_ENABLED", "true")),
          max_attempts_per_hour |-> EnvGet(env, "RISK_MAX_ATTEMPTS_PER_HOUR", "10"),
          key |-> EnvGet(env, "API_KEY_ID", ""),
          path |-> PathOf(EnvGet(env, "PRIVATE_KEY_PATH", "")),
          demo_key |-> EnvGet(env, "DEMO_API_KEY_ID", ""),
          demo_path |-> PathOf(EnvGet(env, "DEMO_PRIVATE_KEY_PATH", "")),
          prod_key |-> EnvGet(env, "PROD_API_KEY_ID", ""),
          prod_path |-> PathOf(EnvGet(env, "PROD_PRIVATE_KEY_PATH", "")),
          demo_url |-> EnvGet(env, "DEMO_BASE_URL", ""), prod_url |-> EnvGet(env, "PROD_BASE_URL", "")] }

\* base_url and ws_url, which choose alike.
base_url(c) == IF c.environment = "prod" THEN c.prod_url ELSE c.demo_url

resolved_api_key_id(c) ==
  LET specific == IF c.environment = "prod" THEN c.prod_key ELSE c.demo_key
  IN  IF specific = "" THEN c.key ELSE specific

resolved_private_key_path(c) ==
  LET specific == IF c.environment = "prod" THEN c.prod_path ELSE c.demo_path
  IN  IF specific \in {"", "."} THEN c.path ELSE specific

\* assert_orders_permitted and assert_demo_trading_process return.
orders_permitted(c) == ~(c.environment = "prod" /\ ~c.allow_production_orders)
demo_trading_process(c) == c.environment = "demo"
=============================================================================
