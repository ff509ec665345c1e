CONSTANTS
    NoDUT = NoDUT
    DUTs = {u1}
    Duration = 0
    GraceInterval = 0
    MaxTime = 1
SPECIFICATION FairSpec
INVARIANTS
    TypeOK
    SessionEndsClean
    ReleasedDUTHasNoBot
    SignalsReachAll
PROPERTIES
    LeaseGivenUp
