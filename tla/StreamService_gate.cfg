CONSTANTS
    t1 = t1
    t2 = t2
    alex = alex
    dana = dana
    raj = raj
    a1 = a1
    a2 = a2
    log = log
    std = std
    sens = sens
    ghost = ghost
    n1 = n1
    n2 = n2
    None = None
    Admins = {alex}
    Accounts = {a1, a2, log}
    LoggingAccount = log
    Scope <- MCScope
    AccountOf <- MCAccountOf
    IdentityOf <- MCIdentityOf
    InitCatalog <- MCCatalog
    Threads = {t1, t2}
    Users = {alex, dana, raj}
    Sources = {sens, ghost}
    Identities = {sens}
    Unsafe = {}
    FqnLists <- BothNames
    Names = {n1}
    Types = {"sqs"}
    Ops = {"create", "add", "remove", "approve"}
    WorkersLag = FALSE
    MaxStreams = 1
    MaxRows = 8
    MaxRequests = 3
    MaxFaults = 0
    MaxChanges = 1
    MaxCrashes = 0
SPECIFICATION Spec
SYMMETRY ThreadSymmetry
INVARIANTS
    RoutedOnlyIfGranted
    SoloApplySyncs
