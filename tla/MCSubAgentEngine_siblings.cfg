SPECIFICATION Spec
CONSTANTS
    d1 = d1
    d2 = d2
    s1 = s1
    s2 = s2
    Dept = {d1, d2}
    Remote = {}
    Serial = {}
    Choosy = {}
    MaxParallel = 2
    Slots = 2
    MaxCalls = 1
    MaxOps = 1
    MaxRefresh = 0
INVARIANTS
    SiblingsKept
