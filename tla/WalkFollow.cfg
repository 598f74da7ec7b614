SPECIFICATION Spec
CONSTANTS
    None = None
    Path <- LoopPath
    Roots <- LoopRoots
    Parent <- LoopParent
    Depth <- LoopDepth
    Above <- LoopAbove
    RootOf <- LoopRootOf
    Type <- LoopType
    Id <- LoopId
    Dev <- LoopDev
    Excluded <- LoopExcl
    Flaky = {"r/d"}
    FollowSymlinks = TRUE
    OneFilesystem = TRUE
    MaxDepth = None
    Threads = 3
    Rate = 0
    FdLimit = 99
    Verdicts = {"Continue"}
INVARIANTS TypeOK PendingAccounts NoEarlyExit InScope VisitOnce Lossless
PROPERTIES Terminates Implements
