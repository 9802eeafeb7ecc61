CONSTANTS
    c1 = c1
    c2 = c2
    addon = addon
    Cluster = {c1, c2}
    Addon = {addon}
    Request = {r1, r2}
    Asked <- RegisterOps
    MaxFaults = 0
    NoFile = noFile
    NoEntry = noEntry
    Nobody = nobody
    NoOp = noOp
    Keep = keep
SPECIFICATION Spec
PROPERTY NoClusterDropped
CHECK_DEADLOCK FALSE
