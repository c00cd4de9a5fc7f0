SPECIFICATION MemorySpec
CONSTANTS
    c1 = c1
    c2 = c2
    Calls = {c1, c2}
    MaxMessages = 6
    Limits <- MCLimits
INVARIANTS
    SessionComplete
    WindowKeepsPairs
    WindowBounded
PROPERTIES
    SummaryOnlyGrows
