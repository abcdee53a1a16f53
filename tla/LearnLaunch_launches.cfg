SPECIFICATION FairSpec
CONSTANTS
    n1 = n1  n2 = n2  r1 = r1  r2 = r2  r3 = r3
    Nodes = {n1, n2}
    Requests = {r1, r2, r3}
    At <- Home
    Scenes <- Launches
    MaxSessions = 4
    None = None
    NoEntry = NoEntry
INVARIANTS Honoured OneAtATime StatusIsCurrent UndoneIsUndone
PROPERTY StartsSucceed
CHECK_DEADLOCK FALSE
