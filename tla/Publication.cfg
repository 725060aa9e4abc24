\* Two devices with three entities, a midnight, a change, two failures.
SPECIFICATION FairSpec
CONSTANTS
    NDevices = 2
    NEntities = 3
    MaxDay = 1
    MaxVersion = 1
    MaxFaults = 2
INVARIANTS
    NoTornPass
    ComputedBeforePublished
PROPERTIES
    PublishedConverges
