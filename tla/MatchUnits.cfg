SPECIFICATION Spec
CONSTANTS
  NONE = NONE
  TIME_TOLERANCE = 30
  EXPIRY_TOLERANCE = 1440
  DAYLENGTH = 1440
  Ticks = {0, 1, 2, 3, 4}
  Drawable <- Contests
  SLACK = 20
  StartOf <- Games
  Pairs <- PairsOfMarkets
  FeeMarkets <- MarketsWithFees
  LevelLists <- OneOrTwoLevels
  Stakes <- Fires
  Prices <- WirePrices
  Grids <- PriceGrids
  Corpora <- TwinCorpora
  Environs <- SomeEnvironments
  SEED_TOKENS = 2
  MAX_CANDIDATES = 1
  INDEX_PERCENT = 67
  MAX_COUNT = 7
  Log <- LogTable
INVARIANT UnreadUnitsBlock
CHECK_DEADLOCK FALSE
