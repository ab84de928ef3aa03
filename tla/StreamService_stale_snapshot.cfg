CONSTANTS
    t1 = t1
    t2 = t2
    alex = alex
    dana = dana
    raj = raj
    a1 = a1
    a2 = a2
    log = log
    std = std
    sens = sens
    ghost = ghost
    n1 = n1
    n2 = n2
    None = None
    Admins = {}
    Accounts = {a1, a2, log}
    LoggingAccount = log
    Scope <- MCScope
    AccountOf <- MCAccountOf
    IdentityOf <- MCIdentityOf
    InitCatalog <- MCCatalog
    Threads = {t1, t2}
    Users = {dana}
    Sources = {std, sens}
    Identities = {std, sens}
    Unsafe = {}
    FqnLists <- OnlyStd
    Names = {n1, n2}
    Types = {"sqs"}
    Ops = {"create"}
    WorkersLag = FALSE
    MaxStreams = 2
    MaxRows = 8
    MaxRequests = 2
    MaxFaults = 0
    MaxChanges = 0
    MaxCrashes = 0
SPECIFICATION Spec
INVARIANTS
    SyncedWhenQuiet
