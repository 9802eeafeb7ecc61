CONSTANTS
    Namespace = {n1, n2}
    Value = {v1, v2}
    Process = {"loop"}
    MaxEdits = 1
    MaxFaults = 1
    MaxRestarts = 1
    None = none
    Foreign = foreign
    Bare = bare
    AdoptPR = {1, 4}
    TakePR = {3}
    UnadoptPR = {2, 5}
    NoMark = noMark
    NoSecret = noSecret
    NoEntry = noEntry
    NoPR = noPR
    Pending = pending
    OldPending = oldPending
    MayMerge = {1, 2}
    Together = {{1, 2}, {2, 5}, {1, 3}, {1, 4}, {2, 3}}
    MaxFailures = 1
SPECIFICATION MCSpec
INVARIANTS
    TypeOK
    LeftoverInSight
    
PROPERTIES
    SavedKeepsLeftovers
    DeleteOnlyUnclaimed
    Converges
    LeftoversReported
CHECK_DEADLOCK FALSE
