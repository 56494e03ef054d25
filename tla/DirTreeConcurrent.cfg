SPECIFICATION Spec
CONSTANTS
    None = None
    File = File
    t1 = t1
    t2 = t2
    short = short
    long = long
    Threads <- TwoThreads
    ShortNames <- Short
    LongNames <- Long
    Paths <- TwoLevels
    NumDirs = 4
    CacheSize = 1
    Ops <- AllOps
    DiskMayFill = TRUE
    Populated <- Short
    MaxCalls = 3
    MaxKills = 1
    Disciplined = TRUE
INVARIANTS
    TypeOK ContentHasName DirsHaveIV NothingLeftBehind
PROPERTIES
    ImplementsPlainTree
SYMMETRY Symmetry
