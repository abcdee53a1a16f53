SPECIFICATION FairSpec
CONSTANTS
    n1 = n1  c1 = c1  c2 = c2  c3 = c3  c4 = c4
    k1 = k1  k2 = k2  s1 = s1  s2 = s2
    Nodes = {n1}
    Calls = {c1, c2, c3, c4}
    At <- Home
    Keys = {k1, k2}
    Students = {s1, s2}
    MaxChildren = 5
    MaxObjects = 15
    Scenes <- Classes
    None = None
    Gone = Gone
    Lost = Lost
INVARIANTS NothingIsLost RecordIsTruth ReturnsAreWhole
PROPERTY StartsAnswered
CHECK_DEADLOCK FALSE
