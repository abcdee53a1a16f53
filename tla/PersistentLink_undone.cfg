SPECIFICATION Spec
CONSTANTS
    n1 = n1  n2 = n2  j1 = j1  j2 = j2  j3 = j3
    v1 = v1  v2 = v2  v3 = v3  x1 = x1  x2 = x2
    Nodes = {n1, n2}
    Calls = {j1, j2, j3, v1, v2, v3, x1, x2}
    At <- HomeOfCalls
    Socket <- SocketOf
    Scenes <- Undoing
    None = None
    NoRecord = NoRecord
INVARIANT RollbackConfirmed
CHECK_DEADLOCK FALSE
