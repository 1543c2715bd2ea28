---------------------------- MODULE MCRuleForm ----------------------------
(* Rules as a file may hold them: written by the editor, by an older version *)
(* or by hand.                                                               *)
EXTENDS RuleForm

Base == [DefaultRule EXCEPT !.name = "own", !.procs = 1]
MCFileRules == {
    Base,
    [Base EXCEPT !.days = NoDays, !.logic = ""],
    [Base EXCEPT !.trigger = "window", !.days = NoDays, !.procs = 0],
    [Base EXCEPT !.action = "enable_idle", !.logic = "all", !.wait = "zero"],
    [Base EXCEPT !.action = "pause", !.warning = "out", !.name = ""],
    [Base EXCEPT !.action = "lock", !.trigger = "exited", !.logic = "all"],
    [Base EXCEPT !.action = "lock", !.trigger = "started", !.policy = "wait"],
    [Base EXCEPT !.action = "lock", !.trigger = "weekly", !.policy = "wait"],
    [Base EXCEPT !.action = "lock", !.trigger = "weekly", !.days = NoDays, !.procs = 0],
    [Base EXCEPT !.action = "lock", !.trigger = "once", !.date = "bad", !.idle = "out"],
    [Base EXCEPT !.action = "odd", !.trigger = "daily"],
    [Base EXCEPT !.trigger = "odd"]}
=============================================================================
