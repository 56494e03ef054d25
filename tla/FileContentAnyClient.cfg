SPECIFICATION Spec
CONSTANTS
    h1 = h1
    h2 = h2
    Handles <- OneHandle
    Values <- Bits
    Zero = 0
    BlockSize = 2
    MaxSize = 5
    NumIDs = 3
    MinBytes = 0
    PastEnd = TRUE
    ZeroCached = TRUE
    FullDuring <- AllCalls
    MayDie = TRUE
INVARIANTS
    PanicsOnlyOnNothing
PROPERTIES
    SizeAsPromised
