SPECIFICATION Spec
CONSTANTS
    Entry <- MCEntry
    Matching <- MCMatching
    BatchSize = 2
    ChanMult = 1
    Setups <- FailingSetups
    MaySignal = FALSE
INVARIANTS WriteFailureSurfaces
