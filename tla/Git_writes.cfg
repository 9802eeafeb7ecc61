CONSTANTS
    c1 = c1
    c2 = c2
    addon = addon
    Cluster = {c1, c2}
    Addon = {addon}
    Request = {r1, r2}
    Asked <- AllOps
    MaxFaults = 1
    NoFile = noFile
    NoEntry = noEntry
    Nobody = nobody
    NoOp = noOp
    Keep = keep
SYMMETRY Symmetry
SPECIFICATION Spec
INVARIANT TypeOK
PROPERTIES
    OnlyWhatWasAsked
    UndisturbedMergeKeepsSound
    ConflictNeedsPeople
CHECK_DEADLOCK FALSE
