SPECIFICATION FairSpec
CONSTANTS
  f1 = f1
  f2 = f2
  r1 = r1
  r2 = r2
  s1 = s1
  Fires = {f1}
  Rejects = {r1, r2}
  Samples = {s1}
  Bad = {r1}
  MaxQueue = 2
  MaxBatch = 2
  MaxErrors = 1
  MayCrash = TRUE
  MayClose = TRUE
INVARIANTS TypeOK NoSilentLoss ResolutionStands OnlyBadRowsRefused CloseFlushes
PROPERTIES TrailSpec CloseReturns
CHECK_DEADLOCK FALSE
