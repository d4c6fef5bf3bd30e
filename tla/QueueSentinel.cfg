SPECIFICATION Spec
CONSTANTS
  f1 = f1
  f2 = f2
  r1 = r1
  r2 = r2
  s1 = s1
  Fires = {f1}
  Rejects = {r1, r2}
  Samples = {}
  Bad = {}
  MaxQueue = 2
  MaxBatch = 2
  MaxErrors = 0
  MayCrash = FALSE
  MayClose = TRUE
INVARIANTS CloseDiscardsNothing
CHECK_DEADLOCK FALSE
