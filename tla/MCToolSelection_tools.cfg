SPECIFICATION Spec
CONSTANTS
    read_file = read_file
    hr_find = hr_find
    hr_list = hr_list
    text_stats = text_stats
    ghost = ghost
    id = id
    note = note
    Names = {read_file, hr_find, hr_list, text_stats}
    Order <- MCOrder
    BuiltIns = {read_file}
    FileNames = {text_stats, read_file, hr_list}
    ServerNames = {hr_find, hr_list}
    AgentNames = {read_file, hr_list}
    Invented = ghost
    Claims <- MCClaims
    MaxVisible = 3
    MaxShortlisted = 2
    MaxDeclared = 3
    MaxNamed = 3
    MaxRenamed = 1
    Field = {id, note}
    Properties <- MCProperties
INVARIANTS
    OnlyDeclared
    ReachesBound
    PayloadArrives
