CONSTANTS
    Namespace = {n1}
    Value = {v1}
    Process = {"loop"}
    MaxEdits = 2
    MaxFaults = 1
    MaxRestarts = 0
    None = none
    Foreign = foreign
    Bare = bare
SPECIFICATION Spec
INVARIANT ClaimedNeverReported
CHECK_DEADLOCK FALSE
