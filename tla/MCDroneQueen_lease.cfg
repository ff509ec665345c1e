CONSTANTS
    NoDrone = NoDrone
    Drones = {d1, d2}
    DUTs = {u1}
    Handlers = {h1, h2}
    Duration = 1
    MaxTime = 2
    Capacities = {1}
    MaxInt32 = 1
    Crons = {"free-invalid-duts", "prune-expired-drones"}
SYMMETRY Symmetry
SPECIFICATION Spec
INVARIANTS
    TypeOK
    PromisedLeaseHeld
PROPERTIES
    LeaseMonotone
    EstablishedDroneKeepsDUTs
    OnlyLapsedDronesDeleted
