SPECIFICATION Spec
CONSTANTS
    None = None
    Torn = Torn
    Lost = Lost
    Empty = Empty
    t1 = t1
    t2 = t2
    p1 = p1
    p2 = p2
    Threads <- TwoThreads
    Passwords <- TwoPasswords
    LogNs <- Costs
    Foreign <- FromElsewhere
    MemoryLog = 20
    MaxCalls = 3
    ForeignCalls = 2
    MaxCrashes = 1
    NumSessions = 3
    DiskMayFail = TRUE
    Serial <- InitsCreates
    OverExisting = FALSE
INVARIANTS
    ConfSurvives HeldStaysOpen KeysHaveSession OnlyUnusableEnds
PROPERTIES
    ImplementsVolumeStore
SYMMETRY Symmetry
CHECK_DEADLOCK FALSE
