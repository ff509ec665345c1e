CONSTANTS
    NoDUT = NoDUT
    DUTs = {u1}
    Duration = 1
    GraceInterval = 0
    MaxTime = 0
SPECIFICATION FairSpec
PROPERTIES
    CanceledSessionEnds
    CanceledAgentExits
    DrainedAgentExits
