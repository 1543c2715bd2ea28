SPECIFICATION Spec
\* The system stops: the program exits
CHECK_DEADLOCK FALSE
CONSTANTS
    Day = 4
    LightAt = 1
    DarkAt = 3
    MaxTime = 2
    FirstPairs <- TwoPairs
    Files <- TwoFiles
    MaxEvents = 2
    MaxFails = 2
    MaxTurns = 3
    Budgets <- ThreeBudgets
INVARIANTS
    OneOfEach
    NeverTorn
PROPERTIES
    ThemeConverges
    SilentAfterStop
    FoundIsUsed
