SPECIFICATION Spec
CONSTANTS
    d1 = d1
    d2 = d2
    s1 = s1
    s2 = s2
    Dept = {d1, d2, s1}
    Remote = {}
    Serial = {s1}
    Choosy = {s1}
    MaxParallel = 2
    Slots = 2
    MaxCalls = 1
    MaxOps = 1
    MaxRefresh = 0
INVARIANTS
    AccountingExact
    RequestOrder
PROPERTIES
    NoLateStart
    MeetsContract
