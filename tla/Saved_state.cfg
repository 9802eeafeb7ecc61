CONSTANTS
    a1 = a1
    a2 = a2
    b1 = b1
    Process = {"old", "new"}
    Thread = {a1, a2, b1}
    Home <- MHome
    Data <- MData
    Empty = {}
    Change <- MChange
    Modify <- MModify
    Refused = refused
    Idle = idle
    Reading = reading
    NoMap = noMap
    Unreadable = unreadable
    Nobody = nobody
    People = people
    MaxCalls = 3
    MaxFaults = 1
    MaxHands = 1
    Kind = "notifications"
    Id = {"sync", "token", "upgrade"}
    Code = {"sync", "token"}
    Upgrade = "upgrade"
    Healthy = "healthy"
    Unknown = "unknown"
    MaxItems = 3
    MaxAdds = 0
    MaxListFaults = 2
    MaxRestarts = 2
    MaxTurns = 3
    Server = {"old", "new"}
    Name = {"ci", "cd"}
    Token = {t1, t2}
    Window = {"month", "quarter"}
    NoToken = noToken
    NoSecret = noSecret
    MaxTokenFaults = 2
SPECIFICATION MCSpec
SYMMETRY MCSymmetry
INVARIANTS
    TypeOK
    OnlyOthersConflict
    
    TokensAsAnswered
PROPERTIES
    ImplementsAtomicStore
    
CHECK_DEADLOCK FALSE
