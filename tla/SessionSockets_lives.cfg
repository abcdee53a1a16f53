SPECIFICATION FairSpec
CONSTANTS
    n1 = n1  n2 = n2  p1 = p1  p2 = p2
    Nodes = {n1, n2}
    Pages = {p1}
    Scenes <- Sockets
    MaxSockets = 3
INVARIANTS ShownIsTrue OneConnection EndIsAnnounced
PROPERTIES EndIsSeen ComesBack
CHECK_DEADLOCK FALSE
