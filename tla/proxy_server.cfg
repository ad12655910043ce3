SPECIFICATION Spec
CONSTANTS
  r1 = r1
  r2 = r2
  r3 = r3
  Requests = {r1, r2, r3}
  Profiles <- MCProfiles
  MaxStreams = 3
  Page = 2
CHECK_DEADLOCK FALSE
INVARIANTS SharedWhileUsed
PROPERTIES AllFreed EndNoticed
