SPECIFICATION FairSpec
CONSTANTS
  Jobs = {j1, j2, j3}
  Workers = {w1, w2}
  Profiles <- MCProfiles
  Races = {}
CHECK_DEADLOCK FALSE
INVARIANTS CapHeld JobKept
PROPERTIES AllEnd
