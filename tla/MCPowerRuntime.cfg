SPECIFICATION Spec
CONSTANTS
    Timeouts <- MCTimeouts
    DefaultTimeout = 2
    Options = {o1, o2}
    Files <- MCFiles
    AutoStates <- MCAutoStates
    EnableMayFail = TRUE
    MaxRequests = 1
INVARIANTS
    MutualExclusion
    RuntimeMatchesDemand
    StateIsCurrent
PROPERTIES
    BatteryHonoured
