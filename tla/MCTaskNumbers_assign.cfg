CONSTANTS
    Instances = {i1, i2}
    Expire = 0
    MaxTime = 1
    None = None
SPECIFICATION FairSpec
INVARIANTS
    TypeOK
    NumbersUnique
    NumberChangeResets
PROPERTIES
    InstancesGetNumbers
