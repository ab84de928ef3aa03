CONSTANTS
    t1 = t1
    t2 = t2
    alex = alex
    dana = dana
    raj = raj
    a1 = a1
    a2 = a2
    log = log
    std = std
    sens = sens
    ghost = ghost
    n1 = n1
    n2 = n2
    None = None
    Admins = {alex}
    Accounts = {a1, a2, log}
    LoggingAccount = log
    Scope <- MCScope
    AccountOf <- MCAccountOf
    IdentityOf <- MCIdentityOf
    InitCatalog <- MCCatalog
    Threads = {t1, t2}
    Users = {alex}
    Sources = {std, sens}
    Identities = {std, sens}
    Unsafe = {}
    FqnLists <- OnlySens
    Names = {n1}
    Types = {"kinesis"}
    Ops = {"create", "add", "remove", "delete", "retry", "approve"}
    WorkersLag = TRUE
    MaxStreams = 1
    MaxRows = 8
    MaxRequests = 3
    MaxFaults = 0
    MaxChanges = 0
    MaxCrashes = 1
SPECIFICATION FairSpec
PROPERTIES
    EveryRequestEnds
