SPECIFICATION Spec
CONSTANTS
    Nobody = Nobody
    c1 = c1
    c2 = c2
    b1 = b1
    b2 = b2
    b3 = b3
    b4 = b4
    b5 = b5
    b6 = b6
    p1 = p1
    p2 = p2
    q1 = q1
    q2 = q2
    Readers <- AllReaders
    Lengths <- Nonces
    PrefetchN = 5
    Callers <- TwoCallers
    NonceLen = 2
    BlockBufs <- Blocks6
    PlainBufs <- Plain2
    ReqBufs <- Req2
    MaxBlocks = 3
    FirstBlocks <- SomeFirst
    ParallelFrom = 3
    NumCPU = 2
    MaxWork = 4
INVARIANTS
    BuffersHaveOneOwner WrittenInOrder WrittenInFull ReadsBack NoncesDiffer
PROPERTIES
    NoByteTwice RequestsReturn
CHECK_DEADLOCK FALSE
