\* Six rows, pages of up to three.
SPECIFICATION FairSpec
CONSTANTS
    NRows = 6
    MaxReturned = 4
    MaxLimit = 3
    MaxChanges = 2
INVARIANTS
    TypeOK
    MissedByDeletionsOnly
    RepeatedByInsertionsOnly
PROPERTIES
    ReadingEnds
