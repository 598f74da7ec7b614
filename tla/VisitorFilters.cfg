SPECIFICATION Spec
CONSTANTS
    None = None
    IMax = 7
    Now = 4
    Ticks = 2
    Scenario <- MCScenario
    OwnerId = {1, 2}
    MaxChanges = 1
    NssMayFail = TRUE
INVARIANTS TypeOK KeptSound SkippedJustified OwnersAgree MatchesAsDocumented NewerSound
