SPECIFICATION Spec
CONSTANTS
    d1 = d1
    d2 = d2
    x = x
    y = y
    Departments = {d1, d2}
    Cwd <- MCCwd
    Links <- MCLinks
    Folders <- MCFolders
    Roots <- MCRoots
    Paths <- MCPaths
    Texts <- MCTexts
    Word = x
    Other = y
    MaxWords = 2
    MaxCalls = 2
    MaxClears = 1
    Absent = Absent
SYMMETRY Symmetry
INVARIANTS
    TypeOK
    SerialText
    WrittenIsReadable
    ChangesAreTold
