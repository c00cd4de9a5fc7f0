SPECIFICATION Spec
CONSTANTS
    a1 = a1
    f1 = f1
    Agents = {a1}
    Fetchers = {f1}
    MaxLoops = 2
    MaxArtifacts = 2
    MaxPolls = 2
    MaxRedirects = 1
    MaxBytes = 2
INVARIANTS
    TypeOK
    AnswerWhole
    BridgeAlive
PROPERTIES
    CallEnds
