SPECIFICATION FairSpec
CONSTANTS
  N = 5
  Shadow = {2, 5}
  Garbled = {3}
  MaxQueue = 2
  ShadowLimit = 1
  MaxConns = 3
  MaxCrashes = 1
INVARIANTS TypeOK FiredAtMostOnce OrderWithinConnection
PROPERTIES EveryWakeSettles
CHECK_DEADLOCK FALSE
