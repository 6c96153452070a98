SPECIFICATION FairSpec
CONSTANTS
    Jobs = {j1, j2}
    LastVersion = 1
    None = None
    Gone = Gone
    MaxRecents = 1
    MaxFaults = 1
    MaxVisits = 2
    MaxGets = 2
    Names = {a}
    Inlines = {f}
    Readable = {f}
    MaxLeft = 1
INVARIANTS TypeOK OnlyOwnStream ShownIsOfThisJob SlotsAreOfChosen CreatedIsListed
PROPERTIES SnapshotCatchesUp ListCatchesUp
CHECK_DEADLOCK FALSE
