SPECIFICATION FairSpec
CONSTANTS
  f1 = f1
  f2 = f2
  Fires = {f1, f2}
  Mixes <- MCMixes
  ATTEMPTS = 2
  TTL = 1
  RESTING = 2
  TARGET = 1
  STEP = 1
  MaxTime = 2
  MaxToggles = 3
INVARIANTS
  TypeOK PlacedOnce OnlyCountedOrdersLeave RowsTruthful HaltHonored ChangesHold
PROPERTIES NoRetryAfterTimeout EveryFireEnds
CHECK_DEADLOCK FALSE
