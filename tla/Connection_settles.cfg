CONSTANTS
    RegPR = {3}
    KeepPR = {1}
    AllPR = {2}
    NoMark = noMark
    Pending = pending
    OldPending = oldPending
    NoSecret = noSecret
    NoEntry = noEntry
    NoPR = noPR
    Settings <- LivenessSettings
SPECIFICATION FairSpec
INVARIANTS
    RegisteredHasConnection
PROPERTIES
    RemovalSettles
    ClosedRegistrationSwept
CHECK_DEADLOCK FALSE
