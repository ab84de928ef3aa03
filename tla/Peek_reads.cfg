CONSTANTS
    Bodies <- MCBodies
    Limits = {2, 3}
    MaxPages = 3
    PageSize = 2
    MaxMessages = 2
    MaxRecords = 5
SPECIFICATION FairSpec
INVARIANTS
    TypeOK
    LatestShown
    NoGaps
PROPERTIES
    PeekEnds
    ConsumerNotStarved
