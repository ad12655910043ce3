SPECIFICATION Spec
CONSTANTS
    j1 = j1
    j2 = j2
    j3 = j3
    Jobs = {j1, j2, j3}
    Line <- MCLine
    Modes = {"batch", "single"}
    Size = 2
    Sources = {"list", "stream"}
    Limited = TRUE
    Stops = {"pause","close","force"}
    QueuePauses = TRUE
    MaxErrors = 1
    MaxRevokes = 1
    MaxTroubles = 2
    Races = {}
CHECK_DEADLOCK FALSE
INVARIANTS OwnOutcome NothingLeft OrderKept
