CONSTANTS
    c1 = c1
    c2 = c2
    f1 = f1
    f2 = f2
    narrow = narrow
    wide = wide
    archive = archive
    extra = extra
    None = None
    Archive <- MCArchive
    Wants <- BusyWants
    Callers = {c1, c2}
    Forks = {f1, f2}
    Filters = {narrow, wide}
    Others = {archive}
    MaxCalls = 2
    MaxFaults = 1
    MaxEdits = 0
    MaxPolls = 1
SPECIFICATION FairSpec
INVARIANTS
    TypeOK
    OthersKept
PROPERTIES
    ImplementsPipeline
    EveryCallEnds
