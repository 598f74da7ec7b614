SPECIFICATION Spec
CONSTANTS
    None = None
    IMax = 7
    Now = 4
    Ticks = 2
    Scenario <- NumberRuns
    OwnerId = {}
    MaxChanges = 0
    NssMayFail = FALSE
INVARIANTS ClampingPreservesVerdicts
