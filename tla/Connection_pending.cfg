CONSTANTS
    RegPR = {3}
    KeepPR = {1}
    AllPR = {2}
    NoMark = noMark
    Pending = pending
    OldPending = oldPending
    NoSecret = noSecret
    NoEntry = noEntry
    NoPR = noPR
    Settings <- PendingSettings
SPECIFICATION Spec
INVARIANTS
    PendingMarkProtects
CHECK_DEADLOCK FALSE
