---------------------------- MODULE MCThemeSystem ---------------------------
(* A day of four ticks: its night reaches past midnight, the clock passes one *)
(* transition and stops before the next, so that a hold may outlast the run.  *)
EXTENDS ThemeSystem

\* Windows' defaults, and a mixture the user has chosen
TwoPairs == {[apps |-> "absent", system |-> "absent"],
             [apps |-> "light", system |-> "dark"]}

\* Everything on, and the same where Windows' theme settings are locked
TwoFiles == {[enabled |-> TRUE, supported |-> TRUE,
              darkOnBattery |-> TRUE, skipFullscreen |-> TRUE],
             [enabled |-> TRUE, supported |-> FALSE,
              darkOnBattery |-> FALSE, skipFullscreen |-> TRUE]}

\* The theme alone, the theme with failure upon failure, and the lookups with
\* one action of another kind at any time
ThreeBudgets == {[time |-> 2, events |-> 2, fails |-> 1, turns |-> 0],
                 [time |-> 0, events |-> 1, fails |-> 2, turns |-> 0],
                 [time |-> 0, events |-> 1, fails |-> 0, turns |-> 2]}
=============================================================================
