SPECIFICATION FairSpec
CONSTANTS
  top = top
  mid = mid
  kid = kid
  low = low
  home = home
  away = away
  Jobs = {top, mid, kid, low}
  Cluster = TRUE
  Flows <- MCFlows
  Races = {}
CHECK_DEADLOCK FALSE
INVARIANTS ReleasedOnce RunsAfterChildren ChildrenCounted
PROPERTIES ParentsWake
