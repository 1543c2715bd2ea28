SPECIFICATION Spec
\* The system stops: the program exits
CHECK_DEADLOCK FALSE
CONSTANTS
    Capacity = 1
    Sends <- AllSend
    Launches = {l1, l2}
    Commands = {c1}
    MaxConnections = 2
    Sides = {s16, s24}
    ProbeLimit = 2
    MaxMoves = 2
INVARIANTS
    OnlyKnownCycles
    Handover
PROPERTIES
    ExitCompletes
    PipeReturns
    IconConverges
