SPECIFICATION Spec
CONSTANTS
    Entry <- MCEntry
    Matching <- MCMatching
    BatchSize = 4
    ChanMult = 1
    Setups <- CappedSetups
    MaySignal = FALSE
INVARIANTS StopsAfterCap
