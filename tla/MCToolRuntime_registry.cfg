SPECIFICATION RuntimeSpec
CONSTANTS
    w1 = w1
    w2 = w2
    Sources = {{"file"}, {"mcp"}}
    Workers = {w1, w2}
    MaxRuns = 3
    MaxChanges = 2
    MaxResets = 1
SYMMETRY ThreadSymmetry
INVARIANTS
    UndisturbedCallable
    LoadedIsCurrent
    FactoryResetIsFresh
