\* The app and one stdio server on a new file, two migrations, two faults.
SPECIFICATION FairSpec
CONSTANTS
    App = app
    Tools = {tool}
    Events = {e1, e2}
    LastVersion = 2
    MaxToolWrites = 1
    MaxFaults = 2
INVARIANTS
    VerdictsHaveRows
    SchemaOnceInOrder
    AcceptedSurvivesCrashes
PROPERTIES
    AppSettles
