SPECIFICATION Spec
CONSTANTS
    dir = dir
    file = file
    a = a
    b = b
    Names <- TreeNames
    Paths <- TreePaths
    LongPaths <- LongFile
    DirPaths <- TreeDirs
    Values <- Data
    MaxChunks = 2
    Window = 1
    Options <- Mirrors
    UnreadableDirs = FALSE
    ReadErrors = FALSE
    MaxTime = 3
    MaxSyncs = 2
    MaxKills = 1
    MaxChanges = 2
    Disciplined = TRUE
INVARIANTS
    TypeOK LooksSameIsSame MirrorWhenDone ResyncCopiesNothing
PROPERTIES
    PrunesOnlyExtraneous
SYMMETRY Symmetry
