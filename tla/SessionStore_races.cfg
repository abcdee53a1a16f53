SPECIFICATION Spec
CONSTANTS
    n1 = n1  n2 = n2  i1 = i1
    c1 = c1  c2 = c2  c3 = c3
    Nodes = {n1, n2}
    Ids = {i1}
    Calls = {c1, c2, c3}
    Home <- Home3
    Target <- Target3
    Ops = {"get", "getStrict", "updateAtomic", "consume", "delete", "create", "touch"}
    Capacity = 1
    NoSession = NoSession
    NoOwner = NoOwner
    Origin = Origin
    MaxAttempts = 2
    MaxResends = 0
    MaxFailures = 0
SYMMETRY SameNode
INVARIANTS CacheNeverRollsBack NoResurrection CacheShowsCommitted
PROPERTIES NoCrossIncarnation ImplementsRegister
CHECK_DEADLOCK FALSE
