SPECIFICATION FairSpec
CONSTANTS
    None = None
    Zero = Zero
    t1 = t1
    t2 = t2
    p1 = p1
    p2 = p2
    v1 = v1
    Threads <- TwoThreads
    Paths <- OnePath
    Values <- OneValue
    NumFiles = 1
    NumObjs = 3
    MaxCalls = 3
    Ops <- FileOps
    DiskMayFill = FALSE
    Disciplined = FALSE
PROPERTIES
    ReleaseCloses
CHECK_DEADLOCK FALSE
