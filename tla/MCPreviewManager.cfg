SPECIFICATION FairSpec
CONSTANTS
    r1 = r1
    r2 = r2
    r3 = r3
    Requests <- MCRequests
    NoSession = NoSession
INVARIANTS
    TypeOK
    StoppedIsDead
    NoOrphanWithoutOverlap
PROPERTIES
    EndedStaysEnded
    RequestsReturn
    StartingEnds
CHECK_DEADLOCK FALSE
