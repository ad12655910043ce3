SPECIFICATION Spec
CONSTANTS
    Seconds = 2
    Minutes = 2
    Hours = 8
    MonthLength <- MCMonthLength
    LeapMonth = 2
    LeapEvery = 2
    Years = 7
    FirstDow = 6
    MaxSearchYears = 2
    MaxSearchSteps = 300
    Patterns <- MCPatterns
    Zones <- MCZones
    Starts <- MCStarts
    MaxRuns = 2
CHECK_DEADLOCK FALSE
INVARIANTS NextIsNearest OncePerDay
