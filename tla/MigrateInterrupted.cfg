SPECIFICATION Spec
CONSTANTS
  poller = poller
  executor = executor
  Procs = {executor}
  StartVersions = {0}
  SharedFrom = 0
  MaxCrashes = 1
  MaxOpens = 2
INVARIANTS WholeOrNothing
CHECK_DEADLOCK FALSE
