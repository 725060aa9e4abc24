\* Two verifying threads against enrollments, rotations and revocations of
\* two tokens and other writes of the loop, with one failure or crash.
SPECIFICATION FairSpec
CONSTANTS
    Loop = loop
    Workers = {w1, w2}
    Tokens = {k1, k2}
    MaxFaults = 1
INVARIANTS
    TransactionExclusive
    RepliesAreDurable
PROPERTIES
    MatchesAreCommitted
    RotationKeepsAccess
    CallsFinish
