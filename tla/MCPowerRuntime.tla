--------------------------- MODULE MCPowerRuntime ---------------------------
(* A small instance of PowerRuntime: one manual timeout of 2 minutes, a rule *)
(* timeout of 1, two option sets and the effective states of a rule set with *)
(* one rule of every state action.                                          *)
EXTENDS PowerRuntime

MCTimeouts == {1, 2}

Active(stay, pause, idle, pauseIdle) ==
    [stay |-> stay, pauseStay |-> pause, screen |-> stay,
     enableIdle |-> idle, pauseIdle |-> pauseIdle,
     minutes |-> IF idle THEN 1 ELSE DefaultTimeout]

\* No rule; stay awake with the screen on; stay awake paused by another rule;
\* an idle rule; the idle rule under stay awake; idle paused.
MCAutoStates ==
    {NoAuto,
     Active(TRUE, FALSE, FALSE, FALSE),
     Active(TRUE, TRUE, FALSE, FALSE),
     Active(FALSE, FALSE, TRUE, FALSE),
     Active(TRUE, FALSE, TRUE, FALSE),
     Active(FALSE, FALSE, TRUE, TRUE)}

\* Files on disk: both features on, neither, Stay Awake allowed on battery,
\* idle only; with and without automation rules and the theme schedule.
File(noSleep, idle, onBattery, rules) ==
    [noSleep |-> noSleep, screen |-> FALSE, idle |-> idle,
     option |-> CHOOSE o \in Options : TRUE, onBattery |-> onBattery,
     theme |-> FALSE, rules |-> rules]

MCFiles == {File(TRUE, 2, FALSE, TRUE), File(FALSE, 0, TRUE, TRUE),
            File(TRUE, 0, TRUE, FALSE), File(FALSE, 1, FALSE, TRUE)}
=============================================================================
