\* The app is stopped for longer than the window.
SPECIFICATION Spec
CONSTANTS
    Sources = {battery, other}
    Expected = {battery}
    SlotsPerHour = 2
    Recompute = 4
    Retention = 0
    Skew = 1
    Midnights <- MCMidnights
    DayLength = 2
    MaxTime = 11
    MaxEvents = 0
    MaxFaults = 1
INVARIANTS
    EveryHourHasARow
