------------------------- MODULE MCAutomationPanel -------------------------
(* Two rules somebody may write by hand, one of them faulty or read back    *)
(* differently, and room for one new rule.                                  *)
EXTENDS AutomationPanel

Rule(id, body) == [id |-> id, on |-> TRUE, body |-> body]
MCFileRules == {<<>>, <<Rule("a", "faulty")>>, <<Rule("b", "shy"), Rule("a", "plain")>>}
=============================================================================
