SPECIFICATION FairSpec
CONSTANTS
  c1 = c1
  w1 = w1
  Tables <- MCTables
  Pruned <- MCPruned
  Days <- MCDays
  CHUNK = 1
  Corrs = {c1}
  Writers = {w1}
  Scheduled = Scheduled
  Script = Script
  NoOne = NoOne
  MaxDelay = 1
  MaxRows = 2
  MaxTime = 2
  MaxCrashes = 1
  MaxManual = 1
INVARIANT ReferencesHold
PROPERTIES OnlyExpiredRowsGo EverythingExpiredGoes
CHECK_DEADLOCK FALSE
