SPECIFICATION Spec
CONSTANTS
    Rules <- SafetyV2
    Settings <- MCSettings
    Claims = {c}
    None = None
    Threshold = 2
    MaxOthers = 1
INVARIANTS
    TroubleIsBounded
    DegradationIsTold
    GateIsSound
    ClaimsAreEarned
    NobodyIsForgotten
CHECK_DEADLOCK FALSE
