CONSTANTS
    RegPR = {3}
    KeepPR = {1}
    AllPR = {2}
    NoMark = noMark
    Pending = pending
    OldPending = oldPending
    NoSecret = noSecret
    NoEntry = noEntry
    NoPR = noPR
    Settings <- SafetySettings
SPECIFICATION Spec
INVARIANTS
    TypeOK
    
PROPERTIES
    MarkOutlivesOthers
    CutOffOnlyOutsideGit
    AddonSecretsFirst
CHECK_DEADLOCK FALSE
