SPECIFICATION Spec
CONSTANTS
    h1 = h1
    h2 = h2
    Handles <- TwoHandles
    Values <- Bits
    Zero = 0
    BlockSize = 2
    MaxSize = 5
    NumIDs = 3
    MinBytes = 1
    PastEnd = FALSE
    ZeroCached = FALSE
    FullDuring <- NotShrink
    MayDie = TRUE
SYMMETRY Symmetry
INVARIANTS
    TypeOK BlocksOpen CachedIDIsHeader
PROPERTIES
    ImplementsPlainFile
