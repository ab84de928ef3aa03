CONSTANTS
    x = x
    None = None
    Sources = {x}
    Order <- MCOrder
    MaxRuns = 2
    MaxFaults = 1
    MaxEdits = 2
    MaxStops = 1
SPECIFICATION FairSpec
INVARIANTS
    TypeOK
    NoInputUntagged
    SuccessMeansSeeded
PROPERTIES
    NoSourceSkipped
    DiscoveredAtLast
