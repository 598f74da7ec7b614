SPECIFICATION PSpec
CONSTANTS
    None = None
    Path <- MCPath
    Roots <- MCRoots
    Parent <- MCParent
    Depth <- MCDepth
    Above <- MCAbove
    RootOf <- MCRootOf
    Type <- MCType
    Id <- MCId
    Dev <- MCDev
    Excluded = {}
    Flaky = {}
    FollowSymlinks = FALSE
    OneFilesystem = FALSE
    MaxDepth = None
    Threads = 3
    Rate = 1
    FdLimit = 99
    Verdicts = {"Continue", "Quit"}
    Matching <- MCMatching
    BatchSize = 2
    ChanMult = 1
    Setups <- MCSetups
    MaySignal = TRUE
INVARIANTS PromptStop
PROPERTIES ImplementsOutput FairToOutput QuitReturns
