CONSTANTS
    NoDrone = NoDrone
    Drones = {d1}
    DUTs = {u1, u2}
    Handlers = {h1}
    Duration = 1
    MaxTime = 1
    Capacities = {0, 1}
    MaxInt32 = 1
    Crons = {"free-invalid-duts", "prune-expired-drones", "prune-drained-duts"}
SPECIFICATION FairSpec
INVARIANTS
    CapacityRespected
PROPERTIES
    AbandonedDUTsFreed
    UndeclaredDUTsDeleted
