\* Retention keeps exactly the recomputation window; an event may be dated up to
\* half an hour ahead; a failure or a stop.
SPECIFICATION FairSpec
CONSTANTS
    Sources = {battery, other}
    Expected = {battery}
    SlotsPerHour = 2
    Recompute = 8
    Retention = 8
    Skew = 1
    Midnights <- MCMidnights
    DayLength = 4
    MaxTime = 10
    MaxEvents = 1
    MaxFaults = 1
INVARIANTS
    RecomputedHoursFaithful
    NothingInvented
    RollUpFindsHours
PROPERTIES
    FeaturesMatchCoverage
    DailyFaithful
    DerivedDataCatchUp
