SPECIFICATION Spec
CONSTANTS
    p = p
    q = q
    blocker = blocker
    started = started
    exited = exited
    daily = daily
    once = once
    running = running
    night = night
    Procs = {p, q, blocker}
    Rules <- MCRules
    Trigger <- MCTrigger
    Targets <- MCTargets
    Logic <- MCLogic
    Dates <- MCDates
    At <- MCAt
    Until <- MCUntil
    Waits = {daily}
    ScanInterval = 2
    ExitGrace = 2
    DueGrace = 2
    MaxWait = 2
    Days = 2
    DayLength = 3
    Setups <- MCSetups
    MaxHalts = 1
    MaxFaults = 1
INVARIANTS
    AtMostOnce
    CalendarIsSound
    EventsAreChanges
PROPERTIES
    PendingResolves
    StateCatchesUp
