CONSTANTS
    t1 = t1
    t2 = t2
    alex = alex
    dana = dana
    raj = raj
    a1 = a1
    a2 = a2
    log = log
    std = std
    sens = sens
    ghost = ghost
    n1 = n1
    n2 = n2
    None = None
    Admins = {}
    Accounts = {a1, a2, log}
    LoggingAccount = log
    Scope <- MCScope
    AccountOf <- MCAccountOf
    IdentityOf <- MCIdentityOf
    InitCatalog <- MCCatalog
    Threads = {t1, t2}
    Users = {dana}
    Sources = {std, sens}
    Identities = {std, sens}
    Unsafe = {}
    FqnLists <- OnlyStd
    Names = {n1}
    Types = {"kinesis", "sqs"}
    Ops = {"create", "retry", "delete"}
    WorkersLag = FALSE
    MaxStreams = 2
    MaxRows = 8
    MaxRequests = 3
    MaxFaults = 1
    MaxChanges = 0
    MaxCrashes = 1
SPECIFICATION Spec
SYMMETRY ThreadSymmetry
INVARIANTS
    TypeOK
    LiveHasRef
    SoloApplySyncs
