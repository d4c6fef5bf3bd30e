SPECIFICATION FairSpec
CONSTANTS
  Rate = 2
  Capacity = 7
  Cost = 3
  MaxRequests = 5
  LastArrival = 6
  MayCancel = {2, 3}
INVARIANTS WindowBudget
PROPERTIES EveryRequestGranted
CHECK_DEADLOCK FALSE
