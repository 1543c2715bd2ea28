------------------------- MODULE MCAutomationEvents -------------------------
(* Three occurrences: one of a one-time rule and one of a repeated rule with *)
(* a countdown, and one without.                                            *)
EXTENDS AutomationEvents

CONSTANTS once, short, instant

MCEvents == {once, short, instant}

MCSeconds == [e \in Events |-> IF e = instant THEN 0 ELSE 1]
=============================================================================
