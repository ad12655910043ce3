SPECIFICATION FairSpec
CONSTANTS
  Jobs = {j1}
  Workers = {w1, w2}
  Copies = {1, 2, 3}
  NoEntry = NoEntry
  MaxAttempts = 2
  MaxStalled = 1
  HasTtl = TRUE
  Races = {"hang"}
CHECK_DEADLOCK FALSE
PROPERTIES JobsSettle
