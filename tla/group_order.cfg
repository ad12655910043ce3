SPECIFICATION FairSpec
CONSTANTS
  MaxJobs = 2
  Orderings <- OneAndTwo
  Races = {}
INVARIANTS InTurn Accounted
PROPERTIES GroupSettles
