CONSTANTS
  t1 = t1
  t2 = t2
  e1 = e1
  g1 = g1
  Tickers <- MCTickers
  Events = {e1}
  EventOf <- MCEventOf
  Groups = {g1}
  NoGroup = NoGroup
  Wakes <- AttemptWakes
  MaxPerHour = 2
  MaxPerDay = 3
  MaxPerTicker = 2
  MaxPerEvent = 3
  MaxPerGroup = 2
  MaxNotional = 8
  MaxConcurrent = 2
  MaxPosTicker = 2
  MaxPosEvent = 2
  MaxPosGroup = 9
  Cooldown = 1
  HOUR = 1
  DAY = 2
  MaxTime = 4
  MaxOrders = 3
  MaxFailures = 1
  MaxRestarts = 1
  MaxPolls = 0
  MaySettle = {}
  TimeInForce = "fill_or_kill"
  AllowedShards = {0}
SPECIFICATION Spec
INVARIANTS
  RollingAttemptCaps
  RollingNotionalCap
  CooldownKept
  ConcurrencyBound
  OvershootBounded
CHECK_DEADLOCK FALSE
