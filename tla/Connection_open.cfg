CONSTANTS
    RegPR = {3, 4}
    KeepPR = {1}
    AllPR = {2}
    NoMark = noMark
    Pending = pending
    OldPending = oldPending
    NoSecret = noSecret
    NoEntry = noEntry
    NoPR = noPR
    Settings <- TwiceSettings
SPECIFICATION Spec
PROPERTIES
    OpenRegistrationKeepsConnection
CHECK_DEADLOCK FALSE
