SPECIFICATION FairSpec
CONSTANTS
    n1 = n1  n2 = n2  i1 = i1
    c1 = c1  c2 = c2  c3 = c3
    Nodes = {n1, n2}
    Ids = {i1}
    Calls = {c1, c2}
    Home <- Home2
    Target <- Target2
    Ops = {"get", "getStrict", "updateAtomic", "consume", "delete", "create", "touch"}
    Capacity = 1
    NoSession = NoSession
    NoOwner = NoOwner
    Origin = Origin
    MaxAttempts = 2
    MaxResends = 2
    MaxFailures = 1
INVARIANTS NoLostUpdate TokenConsumedOnce
PROPERTY CallsReturn
CHECK_DEADLOCK FALSE
