SPECIFICATION FairSpec
CONSTANTS
    n1 = n1  n2 = n2  m1 = m1  m2 = m2  s1 = s1
    Nodes = {n1, n2}
    Managers = {m1, m2}
    Students = {s1}
    Scenes <- Serving
    MaxInbox = 1
    Tolerance = 0
    None = None
    Gone = Gone
PROPERTIES ViewersCatchUp GesturesSettle
CHECK_DEADLOCK FALSE
