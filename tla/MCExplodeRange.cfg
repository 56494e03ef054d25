SPECIFICATION Spec
CONSTANTS
    PlainBS = 4
    BlockOverhead = 2
    HeaderLen = 3
    MaxKernelWrite = 12
    Word = 256
    Offsets <- SmallOffsets
    Lengths <- RequestLengths
INVARIANTS
    BlocksAreTheRequest
    RequestFitsPools
    WronglyAcceptedOnlyNegative
    SizeGuessMonotone
CHECK_DEADLOCK FALSE
