\* A heartbeat and an event dated ahead of the clock, one failure anywhere.
SPECIFICATION FairSpec
CONSTANTS
    beat = beat
    late = late
    heartbeat = heartbeat
    ahead = ahead
    punctual = punctual
    Events = {beat, late}
    Copies = {heartbeat, ahead, punctual}
    IdOf <- MCIdOf
    Heartbeats = {heartbeat}
    Foreign = {}
    Implausible = {}
    Future = {ahead}
    Arrangements <- MCArrangements
    MaxBatches = 3
    MaxAttempts = 1
    MaxFaults = 1
INVARIANTS
    NothingLost
    StoredVerdictOwnsRow
    AcceptanceStands
    StoredHeartbeatsProjected
    VerdictsAddUp
PROPERTIES
    RowKeepsItsBatch
    ImplementsStore
    EventsSettle
