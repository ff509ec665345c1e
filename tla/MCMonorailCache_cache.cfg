CONSTANTS
    j1 = j1
    j2 = j2
    x = x
    y = y
    issue = issue
    project = project
    Jobs = {j1, j2}
    Writes <- Written
    Backends = {j2}
    Items = {x, y}
    Read = {x}
    TwoLevel = {x}
    Alone = {x}
    Kinds = {issue, project}
    KindOf <- Kind
    KeysOf <- Keys
    All = All
    Limit = 2
    MaxStep = 3
    MaxVersion = 2
    Updates <- Often
    Locked = Locked
    None = None
SPECIFICATION Spec
INVARIANTS
    TypeOK
    StaleWillBeDropped
    UpdatesFreshVersion
    MemcacheForgets
