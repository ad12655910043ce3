SPECIFICATION FairSpec
CONSTANTS
  Ticks = {s1, s2}
  Clients = {c1}
  Profiles <- MCProfiles
  MaxJobs = 3
  MaxTime = 3
  NoEntry = NoEntry
  NoOne = NoOne
  Races = {}
CHECK_DEADLOCK FALSE
INVARIANTS NoOverlap
PROPERTIES AsAsked GoesOn
