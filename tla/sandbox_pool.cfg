SPECIFICATION Spec
CONSTANTS
  j1 = j1
  j2 = j2
  j3 = j3
  None = None
  Jobs = {j1, j2, j3}
  MaxWorkers = 2
  Profiles <- MCProfiles
CHECK_DEADLOCK FALSE
INVARIANTS SlotsServed RunsApart
PROPERTIES AllEnd
