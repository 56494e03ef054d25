SPECIFICATION FairSpec
CONSTANTS
    None = None
    Zero = Zero
    t1 = t1
    t2 = t2
    p1 = p1
    p2 = p2
    v1 = v1
    Threads <- TwoThreads
    Paths <- TwoPaths
    Values <- OneValue
    NumFiles = 2
    NumObjs = 4
    MaxCalls = 5
    Ops <- AllOps
    DiskMayFill = FALSE
    Disciplined = TRUE
INVARIANTS
    NoCrash
    HandlesStayValid
PROPERTIES
    AtomicStore
    CallsReturn
CHECK_DEADLOCK FALSE
