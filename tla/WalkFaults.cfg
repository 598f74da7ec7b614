SPECIFICATION Spec
CONSTANTS
    None = None
    Path <- PlainPath
    Roots <- PlainRoots
    Parent <- PlainParent
    Depth <- PlainDepth
    Above <- PlainAbove
    RootOf <- PlainRootOf
    Type <- PlainType
    Id <- PlainId
    Dev <- PlainDev
    Excluded = {}
    Flaky <- PlainFlaky
    FollowSymlinks = FALSE
    OneFilesystem = FALSE
    MaxDepth = 2
    Threads = 4
    Rate = 1
    FdLimit = 3
    Verdicts = {"Continue", "Quit"}
INVARIANTS Complete
PROPERTIES Implements
