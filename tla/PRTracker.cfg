CONSTANTS
    PR = {p1, p2}
    MarkPR = {p2}
    Refresher = {r1, r2}
    Poll = poll
    MarksPass = marks
    NoEntry = noEntry
    NoPR = noPR
    MaxAttempts = 2
    MaxFaults = 2
    MaxMarkFaults = 1
    MaxDrops = 1
SPECIFICATION MCSpec
INVARIANTS
    TypeOK
    OneFinishPerPR
    FinishOnlyWhenDue
    TriesWithinBudget
    HooksBeforeFinish
    
PROPERTIES
    TerminalStays
    OnlyFinishedIsForgotten
    MarkedOutcomeSettles
    MarkComesOff
CHECK_DEADLOCK FALSE
