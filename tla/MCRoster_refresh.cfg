SPECIFICATION Spec
CONSTANTS
    general = general
    writer = writer
    blank = blank
    helper = helper
    c1 = c1
    c2 = c2
    Dirs <- MCDirs
    Header <- MCHeader
    Blank = blank
    Remote = {helper}
    Call = {c1, c2}
    Barred = {writer}
    Elsewhere = {general}
    MaxEdits = 2
    MaxCalls = 2
SYMMETRY MCSymmetry
INVARIANTS
    CacheIsDisk
    RosterFresh
    OwnPrompt
