\* No failure, no retention: the hour at the window's start.
SPECIFICATION Spec
CONSTANTS
    Sources = {battery, other}
    Expected = {battery}
    SlotsPerHour = 2
    Recompute = 4
    Retention = 0
    Skew = 1
    Midnights <- MCMidnights
    DayLength = 2
    MaxTime = 6
    MaxEvents = 1
    MaxFaults = 0
INVARIANTS
    MissingMeansEmpty
