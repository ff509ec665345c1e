CONSTANTS
    b1 = b1
    b2 = b2
    a1 = a1
    a2 = a2
    k1 = k1
    s1 = s1
    s2 = s2
    None = None
    Stores = {s1, s2}
    Batchers = {b1}
    Admins = {a1}
    Cleaners = {}
    Deleters = {}
    StoreOf <- CallersProcess
    MaxCalls = 4
    MaxAttempts = 1
    Keep = 1
SPECIFICATION Spec
INVARIANTS
    ReconcilerCommitted
