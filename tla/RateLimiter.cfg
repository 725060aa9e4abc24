\* Two threads, a limit of two requests per window of two clock steps.
SPECIFICATION LimiterSpec
CONSTANTS
    Callers = {w1, w2}
    Limit = 2
    Window = 2
    MaxTime = 4
    MaxRequests = 6
SYMMETRY Symmetry
INVARIANTS
    LimiterTypeOK
    UnracedWithinLimit
PROPERTIES
    RefusalsJustified
