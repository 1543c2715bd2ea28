--------------------------- MODULE MCControlPanel ---------------------------
(* The window meets changes of DPI and theme, alone or with a popup open,   *)
(* or its switches are used, by themselves or while it is opened twice      *)
EXTENDS ControlPanel

MCSettings == {[noSleep |-> FALSE, minutes |-> 10, automation |-> FALSE, plain |-> FALSE, language |-> "en"],
               [noSleep |-> TRUE, minutes |-> 0, automation |-> FALSE, plain |-> FALSE, language |-> "en"]}
MCBudgets == {[clicks |-> 1, opens |-> 1, outside |-> 0, dpi |-> 2, theme |-> 1, faults |-> 3],
              [clicks |-> 0, opens |-> 2, outside |-> 0, dpi |-> 2, theme |-> 1, faults |-> 3],
              [clicks |-> 2, opens |-> 2, outside |-> 1, dpi |-> 0, theme |-> 0, faults |-> 1],
              [clicks |-> 3, opens |-> 1, outside |-> 1, dpi |-> 0, theme |-> 0, faults |-> 1]}
=============================================================================
