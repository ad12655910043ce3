SPECIFICATION FairSpec
CONSTANTS
  Jobs = {j1, j2}
  Profiles <- MCProfiles
  Races = {}
CHECK_DEADLOCK FALSE
INVARIANTS LoopAlive PauseHolds ClosedIsClean
PROPERTIES CloseEnds
