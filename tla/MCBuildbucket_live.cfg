CONSTANTS
    Verdicts = {"SUCCESS"}
    Kinds = {}
    BuildTimeout = 1
    MaxTime = 1
    MaxKey = 0
    TaskIds = {t1}
    None = None
    Workers = {w1, w2}
    MaxGen = 1
    Outcomes = {"BOT_DIED", "EXPIRED"}
CHECK_DEADLOCK FALSE
SPECIFICATION FairSpec
PROPERTIES
    FinishedTaskEndsBuild
