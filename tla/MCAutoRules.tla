---------------------------- MODULE MCAutoRules ----------------------------
(* Four setups.  Schedules: a daily task that waits while a process runs,   *)
(* and beside it, while time passes evenly, a task of the first day only    *)
(* that is given up when it does not run.  Windows: that task and a window  *)
(* past midnight that needs the process.  Processes: a task at the start of *)
(* one process, one at the exit of two, and a rule in force while both run; *)
(* the wall clock plays no part there.                                      *)
EXTENDS AutoRules

CONSTANTS p, q, blocker, started, exited, daily, once, running, night

MCRules == {started, exited, running, daily, once, night}

MCTrigger == [r \in Rules |->
    CASE r = started -> "started" [] r = exited -> "exited"
      [] r = running -> "running" [] r = night -> "window"
      [] OTHER -> "schedule"]

MCTargets == [r \in Rules |->
    CASE r = started -> {p} [] r \in {exited, running} -> {p, q}
      [] OTHER -> {blocker}]

MCLogic == [r \in Rules |->
    CASE r = daily -> "none" [] r = running -> "all" [] OTHER -> "any"]

MCDates == [r \in Rules |->
    CASE r = daily -> {1, 2} [] r \in {once, night} -> {1} [] OTHER -> {}]

MCAt == [r \in Rules |->
    IF r = night THEN 2 ELSE IF r \in {daily, once} THEN 1 ELSE 0]

MCUntil == [r \in Rules |-> IF r = night THEN 1 ELSE 0]

\* A tick on time, one after a sleep, one after the clock was set back
Moving == {<<1, 1>>, <<1, 2>>, <<1, -1>>}

\* One on time and one late
Steady == {<<1, 0>>, <<2, 0>>}

MCSetups ==
    {[rules |-> {daily}, elapsed |-> Moving],
     [rules |-> {daily, once}, elapsed |-> {<<1, 1>>}],
     [rules |-> {once, night}, elapsed |-> Moving],
     [rules |-> {started, exited, running}, elapsed |-> Steady]}
=============================================================================
