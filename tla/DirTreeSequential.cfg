SPECIFICATION Spec
CONSTANTS
    None = None
    File = File
    t1 = t1
    t2 = t2
    short = short
    long = long
    Threads <- OneThread
    ShortNames <- Short
    LongNames <- Long
    Paths <- TwoLevels
    NumDirs = 4
    CacheSize = 2
    Ops <- AllOps
    DiskMayFill = FALSE
    Populated <- NoDirs
    MaxCalls = 0
    MaxKills = 0
    Disciplined = TRUE
INVARIANTS
    CacheIsExact
PROPERTIES
    ImplementsPlainTree
