CONSTANTS
    Clients = {c1, c2}
    Verdicts = {"SUCCESS"}
    Kinds = {"notify", "bq", "finalize"}
    MaxLease = 2
    BuildTimeout = 1
    MaxTime = 1
    MaxKey = 2
    TaskIds = {}
    None = None
CHECK_DEADLOCK FALSE
SPECIFICATION FairSpec
INVARIANTS
    TypeOK
    LeaseMatchesStatus
    LeaseHonoured
    EndTasksFindEndedBuild
PROPERTIES
    EndAnnounced
    AbandonedLeaseTakenBack
