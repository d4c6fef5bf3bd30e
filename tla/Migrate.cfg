SPECIFICATION Spec
CONSTANTS
  poller = poller
  executor = executor
  Procs = {poller, executor}
  StartVersions <- AnyStart
  SharedFrom = 1
  MaxCrashes = 3
  MaxOpens = 4
INVARIANTS VersionHonest NeverRefuses
CHECK_DEADLOCK FALSE
