SPECIFICATION IdleSpec
CONSTANTS
    Threshold = 3
    WarningOffset = 1
    MinInterval = 2
    MaxInterval = 3
    Tolerance = 0
    Required = 3
    CountCap = 3
    Width = 4
    Gaps = {3}
    MaxInputs = 1
    MaxRestarts = 1
    MaxFaults = 1
INVARIANTS
    ActsOnIdleness
    WarningIsLiveUnlessRaced
PROPERTIES
    KeepsActing
