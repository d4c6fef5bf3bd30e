CONSTANTS
  t1 = t1
  t2 = t2
  e1 = e1
  g1 = g1
  Tickers <- MCTickers
  Events = {e1}
  EventOf <- MCEventOf
  Groups = {g1}
  NoGroup = NoGroup
  Wakes <- PositionWakes
  MaxPerHour = 9
  MaxPerDay = 9
  MaxPerTicker = 9
  MaxPerEvent = 9
  MaxPerGroup = 9
  MaxNotional = 9
  MaxConcurrent = 2
  MaxPosTicker = 2
  MaxPosEvent = 3
  MaxPosGroup = 3
  Cooldown = 0
  HOUR = 1
  DAY = 1
  MaxTime = 2
  MaxOrders = 2
  MaxFailures = 1
  MaxRestarts = 0
  MaxPolls = 2
  MaySettle = {t1}
  TimeInForce = "good_till_canceled"
  AllowedShards = {0}
SPECIFICATION Spec
INVARIANTS
  LedgerKeepsFills
  LedgerExactWhenQuiet
CHECK_DEADLOCK FALSE
