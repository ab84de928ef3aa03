CONSTANTS
    r1 = r1
    r2 = r2
    x = x
    y = y
    Sources = {x, y}
    SchemaOf <- MCSchemaOf
    InitTables <- MCTables
    Readers = {r1, r2}
    Seed <- MCSeed
    MaxReads = 2
    MaxChanges = 2
    MaxFaults = 1
    MaxCrashes = 1
SPECIFICATION Spec
SYMMETRY ReaderSymmetry
INVARIANTS
    TypeOK
    FreshIsCurrent
PROPERTIES
    ImplementsListings
