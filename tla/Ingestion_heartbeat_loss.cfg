\* One heartbeat, and one failure.
SPECIFICATION Spec
CONSTANTS
    beat = beat
    late = late
    heartbeat = heartbeat
    ahead = ahead
    punctual = punctual
    Events = {beat}
    Copies = {heartbeat}
    IdOf <- MCHeartbeatId
    Heartbeats = {heartbeat}
    Foreign = {}
    Implausible = {}
    Future = {}
    Arrangements <- MCHeartbeatAlone
    MaxBatches = 1
    MaxAttempts = 1
    MaxFaults = 1
INVARIANTS AcceptedHeartbeatsProjected
