CONSTANTS
    c1 = c1
    c2 = c2
    f1 = f1
    f2 = f2
    narrow = narrow
    wide = wide
    archive = archive
    extra = extra
    None = None
    Archive <- MCArchive
    Wants <- MCWants
    Callers = {c1}
    Forks = {f1, f2}
    Filters = {narrow, wide}
    Others = {archive, extra}
    MaxCalls = 3
    MaxFaults = 2
    MaxEdits = 1
    MaxPolls = 1
SPECIFICATION Spec
INVARIANTS
    NoDanglingRoute
    SuccessMeansDeployed
    OthersKept
