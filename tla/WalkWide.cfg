SPECIFICATION Spec
CONSTANTS
    None = None
    Path <- WidePath
    Roots <- WideRoots
    Parent <- WideParent
    Depth <- WideDepth
    Above <- WideAbove
    RootOf <- WideRootOf
    Type <- WideType
    Id <- WideId
    Dev <- WideDev
    Excluded = {}
    Flaky = {}
    FollowSymlinks = FALSE
    OneFilesystem = FALSE
    MaxDepth = None
    Threads = 3
    Rate = 0
    FdLimit = 99
    Verdicts = {"Continue"}
INVARIANTS FdBound
