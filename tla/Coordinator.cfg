\* Two devices, a batch of each, three failures.
SPECIFICATION FairSpec
CONSTANTS
    NDevices = 2
    MaxVersion = 1
    MaxFaults = 3
INVARIANTS
    LastSyncBacked
    ShowsLastRefresh
PROPERTIES
    EntitiesRecover
