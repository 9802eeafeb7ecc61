CONSTANTS
    MaxSessions = 2
    Client = {c1}
    MaxFaults = 1
    MaxRestarts = 1
SPECIFICATION MCSpec
INVARIANTS
    TypeOK
    StepsTellTheOutcome
    NoDeadSession
    CompletedMeansSetUp
PROPERTY SessionsEnd
CHECK_DEADLOCK FALSE
