SPECIFICATION Spec
CONSTANTS
    h1 = h1
    h2 = h2
    Handles <- OneHandle
    Values <- Bits
    Zero = 0
    BlockSize = 2
    MaxSize = 3
    NumIDs = 3
    MinBytes = 1
    PastEnd = FALSE
    ZeroCached = TRUE
    FullDuring <- NoCalls
    MayDie = FALSE
INVARIANTS
    HeaderOnNonEmptyFile
