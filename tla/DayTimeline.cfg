\* A day of two hours; one event before or during the request, then one more;
\* one cycle of the app's maintenance (four transactions) while a tool runs.
SPECIFICATION Spec
CONSTANTS
    SlotsPerHour = 2
    LastHour = 2
    Days <- MCDays
    Windows <- MCWindows
    RollUpLength = 4
    MinHours = {1, 2}
    Battery = {"charging", "draining"}
    OtherKinds = {"heartbeat"}
    Heartbeat = "heartbeat"
    Percentage <- MCPercentage
    Charging = {"charging"}
    Times = {1, 2, 3, 4}
    MaxEvents = 2
    MaxUpdates = 4
INVARIANTS
    TypeOK
    GapsAreMaximalRuns
    DayAddsUp
    BlocksBorneOut
