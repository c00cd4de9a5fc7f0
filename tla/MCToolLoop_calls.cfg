SPECIFICATION Spec
CONSTANTS
    write_file = write_file
    fetch_url = fetch_url
    ghost = ghost
    Names = {write_file, fetch_url, ghost}
    Bound = {write_file, fetch_url}
    Files = {write_file}
    MaxIterations = 2
    MaxRetries = 3
    MaxToolCalls = 2
INVARIANTS
    TypeOK
    TranscriptPaired
    AuditMatchesCalls
    EffectsBounded
PROPERTIES
    MeetsRun
    LoopEnds
