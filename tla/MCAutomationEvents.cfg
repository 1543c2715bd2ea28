SPECIFICATION Spec
\* The system stops: the program exits
CHECK_DEADLOCK FALSE
CONSTANTS
    once = once
    short = short
    instant = instant
    Events <- MCEvents
    Once = {once}
    Seconds <- MCSeconds
    MaxInterrupts = 1
    MaxFaults = 1
INVARIANTS
    WarningsAreSound
PROPERTIES
    FatesAreFinal
    EventSettled
