SPECIFICATION Spec
CONSTANTS
    Entry <- MCEntry
    Matching <- MCMatching
    BatchSize = 2
    ChanMult = 1
    Setups <- DrainSetups
    MaySignal = TRUE
INVARIANTS TypeOK Conserved NoDuplicates Delivered AllMatches
PROPERTIES Returns
