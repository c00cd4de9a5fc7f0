SPECIFICATION Spec
CONSTANTS
    d1 = d1
    d2 = d2
    s1 = s1
    s2 = s2
    Dept = {d1, d2, s1}
    Remote = {d2}
    Serial = {s1}
    Choosy = {}
    MaxParallel = 1
    Slots = 1
    MaxCalls = 0
    MaxOps = 0
    MaxRefresh = 1
INVARIANTS
    InFlightCap
    SerialAfterParallel
    EveryDepartmentReported
PROPERTIES
    FanoutEnds
