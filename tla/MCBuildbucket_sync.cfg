CONSTANTS
    Verdicts = {"SUCCESS"}
    Kinds = {}
    BuildTimeout = 1
    MaxTime = 1
    MaxKey = 0
    TaskIds = {t1, t2}
    None = None
    Workers = {w1, w2}
    MaxGen = 1
    Outcomes = {"COMPLETED"}
SYMMETRY Symmetry
CHECK_DEADLOCK FALSE
SPECIFICATION Spec
INVARIANTS
    TypeOK
    SyncChainAlive
PROPERTIES
    TaskIdStable
    StatusForward
