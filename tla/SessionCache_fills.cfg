SPECIFICATION Spec
CONSTANTS
    i1 = i1  i2 = i2  f1 = f1  f2 = f2
    Ids = {i1, i2}
    Fills = {f1, f2}
    Births = {"a", "b"}
    Revs = {0, 1}
    MaxSize = 1
    Sweeping = TRUE
    MaxSeq = 6
    NoSession = NoSession
    Unset = Unset
SYMMETRY FillSymmetry
INVARIANTS OwnersAreUndisturbed
PROPERTIES LateFillsDefer StepsAreSlotOps
CHECK_DEADLOCK FALSE
