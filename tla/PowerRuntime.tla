---------------------------- MODULE PowerRuntime ----------------------------
(***************************************************************************)
(* The power side of the tray application's state goroutine: which of the  *)
(* two mutually exclusive services, Stay Awake and the idle monitor, runs  *)
(* for a given configuration, automation state and battery status.         *)
(*                                                                         *)
(* src/internal/app serialises every change of runtimeState through one    *)
(* request channel, so each handler is one atomic action here.  A handler  *)
(* posted by a user command, an IPC client, the battery loop or a power    *)
(* broadcast reads the state when it RUNS, so it is an action that may     *)
(* occur at any time.  Two closures depend on when they were POSTED and    *)
(* are kept in the queue `requests': the automation runner's OnState, which*)
(* captures a state and a generation, and the idle warning's onDismiss,    *)
(* which only exists while a monitor runs.                                 *)
(*                                                                         *)
(* The generation counter is abstracted to the field `live' of the queued  *)
(* closure: stopAutomation, which increments the counter, makes every      *)
(* closure already queued a dead one.  The developer-tools idle test is    *)
(* left out (devtools are compiled out of the released program).           *)
(***************************************************************************)
EXTENDS Naturals, Sequences

CONSTANTS
    Timeouts,        \* the positive idle timeouts, in minutes
    DefaultTimeout,  \* config.DefaultIdleTimeoutMinutes
    Options,         \* idle action, warning and enhanced mode, as one value
    Files,           \* what the configuration file may be edited to
    AutoStates,      \* the effective states the rule set can produce
    EnableMayFail,   \* whether SetThreadExecutionState may be refused
    MaxRequests      \* bound on the queued closures (requestCh holds 64)

AutoState == [stay: BOOLEAN, pauseStay: BOOLEAN, screen: BOOLEAN,
              enableIdle: BOOLEAN, pauseIdle: BOOLEAN, minutes: Timeouts]

\* autorules.EffectiveState{IdleMinutes: DefaultIdleMinutes}
NoAuto == [stay |-> FALSE, pauseStay |-> FALSE, screen |-> FALSE,
           enableIdle |-> FALSE, pauseIdle |-> FALSE,
           minutes |-> DefaultTimeout]

ASSUME TimeoutsAssumption == Timeouts \subseteq Nat \ {0}
ASSUME DefaultAssumption  == DefaultTimeout \in Timeouts
ASSUME AutoAssumption     == AutoStates \subseteq AutoState
ASSUME FailAssumption     == EnableMayFail \in BOOLEAN
ASSUME BoundAssumption    == MaxRequests \in Nat

Config == [noSleep: BOOLEAN, screen: BOOLEAN, idle: {0} \cup Timeouts,
           option: Options, onBattery: BOOLEAN, theme: BOOLEAN,
           rules: BOOLEAN]

ASSUME FilesAssumption == Files \subseteq Config

\* On AC or without a battery; on battery above or below the threshold.
Power == {"ac", "battery", "low"}

Request == [kind: {"state"}, state: AutoState, live: BOOLEAN]
             \cup [kind: {"dismiss"}]

VARIABLES
    cfg,      \* s.cfg, the fields the handlers below read
    auto,     \* s.autoState
    runner,   \* s.autoRunner # nil
    blocked,  \* s.batteryBlocked
    loop,     \* s.batteryStop # nil: the 3-second poll runs
    session,  \* s.mon: the running idle session's settings, 0 minutes: nil
    worker,   \* keepawake: the OS request its worker thread holds
    enabled,  \* keepawake.enabled, what the status texts read
    requests, \* closures queued by the runner and the idle warning
    power,    \* the battery status Windows would report now
    seen,     \* history: the status the policy was last computed from
    failed    \* history: the last keepawake.Enable failed

vars == <<cfg, auto, runner, blocked, loop, session, worker,
          enabled, requests, power, seen, failed>>

Session == [minutes: {0} \cup Timeouts, option: Options, round: BOOLEAN]

TypeOK ==
    /\ cfg \in Config
    /\ auto \in AutoState
    /\ runner \in BOOLEAN
    /\ blocked \in BOOLEAN
    /\ loop \in BOOLEAN
    /\ session \in Session
    /\ worker \in {"none", "system", "display"}
    /\ enabled \in BOOLEAN
    /\ requests \in Seq(Request)
    /\ power \in Power
    /\ seen \in Power
    /\ failed \in BOOLEAN
-----------------------------------------------------------------------------
(* Pure functions of the configuration, the automation state and the power *)

\* noSleepRequested
Wants(c, a) == (c.noSleep \/ a.stay) /\ ~a.pauseStay

\* effectiveKeepScreenOn
KeepScreen(c, a) ==
    ~a.pauseStay /\ ((c.noSleep /\ c.screen) \/ (a.stay /\ a.screen))

\* idleMonitorDemanded and idleMonitorRequested
IdleRequested(c, a) == (c.idle > 0 \/ a.enableIdle) /\ ~a.pauseIdle

\* effectiveIdleMonitorSettings: a manual timeout wins over a rule's
IdleMinutes(c, a) == IF c.idle = 0 /\ a.enableIdle THEN a.minutes ELSE c.idle

\* batteryPolicyBlocks
Blocks(c, p) == p # "ac" /\ (~c.onBattery \/ p = "low")

\* Mutant: the poll follows the manual switch alone
LoopWantedManual(c, a) == c.noSleep \/ c.theme

\* The condition under which syncBatteryLoop keeps the poll running
LoopWanted(c, a) == Wants(c, a) \/ c.theme

\* setNoSleepConfig
SetNoSleepConfig(c, on, screen) ==
    IF on THEN [c EXCEPT !.noSleep = TRUE, !.screen = screen, !.idle = 0]
          ELSE [c EXCEPT !.noSleep = FALSE]

\* Mutant: the new timeout is added to the old one
SetIdleTimeoutConfigAdd(c, minutes) ==
    [c EXCEPT !.idle = @ + minutes,
              !.noSleep = IF minutes > 0 THEN FALSE ELSE @]

\* setIdleTimeoutConfig
SetIdleTimeoutConfig(c, minutes) ==
    [c EXCEPT !.idle = minutes,
              !.noSleep = IF minutes > 0 THEN FALSE ELSE @]

\* The conflict fix of onReady and reloadConfig: Stay Awake takes priority
ResolveConflict(c) == [c EXCEPT !.idle = IF c.noSleep THEN 0 ELSE @]

Mode(screen) == IF screen THEN "display" ELSE "system"
-----------------------------------------------------------------------------
(* The two services *)

Held == worker # "none"

Monitoring == session.minutes > 0

NoSession(c) == [minutes |-> 0, option |-> c.option, round |-> FALSE]

StopMonitor(c) == session' = NoSession(c)

\* startMonitor stops the running session and starts another (the flag `round'
\* tells it from the one before); it only stops when nothing requests one.
StartMonitor(c, a) ==
    session' = IF IdleRequested(c, a)
               THEN [minutes |-> IdleMinutes(c, a), option |-> c.option,
                     round |-> ~session.round]
               ELSE NoSession(c)

\* keepawake.Disable
DisableKeepAwake ==
    worker' = "none" /\ enabled' = FALSE /\ UNCHANGED failed

\* keepawake.Enable over the worker w.  A refused request ends a worker made
\* for it, leaves an older worker with the request it already holds, and
\* clears the flags.
EnableKeepAwake(w, screen) ==
    \/ /\ worker' = Mode(screen)
       /\ enabled' = TRUE
       /\ failed' = FALSE
    \/ /\ EnableMayFail
       /\ worker' = w
       /\ enabled' = FALSE
       /\ failed' = TRUE

\* Mutant: the idle branch forgets keepawake.Disable
ReconcileNoDisable(c, a, b, w) ==
    /\ loop' = LoopWanted(c, a)
    /\ IF Wants(c, a) /\ ~b
       THEN StopMonitor(c) /\ EnableKeepAwake(w, KeepScreen(c, a))
       ELSE StartMonitor(c, a) /\ UNCHANGED <<worker, enabled, failed>>

\* reconcileRuntime, with w the keepawake worker at that point
Reconcile(c, a, b, w) ==
    /\ loop' = LoopWanted(c, a)
    /\ IF Wants(c, a) /\ ~b
       THEN StopMonitor(c) /\ EnableKeepAwake(w, KeepScreen(c, a))
       ELSE DisableKeepAwake /\ StartMonitor(c, a)

\* stopAutomation: the generation moves on, queued closures become dead
Retire(r) == IF r.kind = "state" THEN [r EXCEPT !.live = FALSE] ELSE r

RetireAll(q) == [i \in 1..Len(q) |-> Retire(q[i])]

\* startAutomation; the new runner exists only if there is something to run
RestartRunner(c) ==
    /\ runner' = c.rules
    /\ auto' = NoAuto
    /\ requests' = RetireAll(requests)
-----------------------------------------------------------------------------
(* onReady, up to the point where the request loop starts *)
Init ==
    /\ cfg \in {ResolveConflict(c) : c \in Files}
    /\ power \in Power
    /\ seen = power
    /\ auto = NoAuto
    /\ runner = cfg.rules
    /\ blocked = Blocks(cfg, power)
    /\ loop = LoopWanted(cfg, auto)
    /\ requests = << >>
    /\ LET stayAwake == Wants(cfg, auto) /\ ~blocked
       IN  /\ session = IF IdleRequested(cfg, auto) /\ ~stayAwake
                        THEN [minutes |-> IdleMinutes(cfg, auto),
                              option |-> cfg.option, round |-> TRUE]
                        ELSE NoSession(cfg)
           /\ failed \in (IF stayAwake /\ EnableMayFail THEN BOOLEAN ELSE {FALSE})
           /\ enabled = (stayAwake /\ ~failed)
           /\ worker = IF enabled THEN Mode(KeepScreen(cfg, auto)) ELSE "none"
-----------------------------------------------------------------------------
(* Handlers of user commands: hotkey, control panel, IPC *)

\* toggleNoSleep, and the IPC commands nosleep:on, nosleep:on:screen, :off
SetNoSleep(on, screen) ==
    /\ cfg' = SetNoSleepConfig(cfg, on, screen)
    /\ Reconcile(cfg', auto, blocked, worker)
    /\ UNCHANGED <<auto, runner, blocked, requests, power, seen>>

ToggleNoSleep == SetNoSleep(~cfg.noSleep, cfg.screen)

\* ActIdleToggle, ActIdleTimeout, monitor:on and monitor:off
SetIdleTimeout(minutes) ==
    /\ cfg' = SetIdleTimeoutConfig(cfg, minutes)
    /\ Reconcile(cfg', auto, blocked, worker)
    /\ UNCHANGED <<auto, runner, blocked, requests, power, seen>>

\* Mutant: the option is stored and the running session kept
SetIdleOptionLazy(option) ==
    /\ cfg' = [cfg EXCEPT !.option = option]
    /\ UNCHANGED <<auto, runner, blocked, loop, session, worker, enabled,
                   requests, power, seen, failed>>

\* ActIdleAction, ActIdleWarningToggle, ActIdleEnhancedMonitorToggle
SetIdleOption(option) ==
    /\ cfg' = [cfg EXCEPT !.option = option]
    /\ Reconcile(cfg', auto, blocked, worker)
    /\ UNCHANGED <<auto, runner, blocked, requests, power, seen>>

\* ActThemeToggle: only the battery loop depends on it
ToggleTheme ==
    /\ cfg' = [cfg EXCEPT !.theme = ~@]
    /\ loop' = LoopWanted(cfg', auto)
    /\ UNCHANGED <<auto, runner, blocked, session, worker, enabled,
                   requests, power, seen, failed>>

\* ActAutomationToggle and saveAutomationRules: restartAutomation
SetRules(rules) ==
    /\ cfg' = [cfg EXCEPT !.rules = rules]
    /\ RestartRunner(cfg')
    /\ Reconcile(cfg', auto', blocked, worker)
    /\ UNCHANGED <<blocked, power, seen>>

\* Mutant: the policy is not computed again for the new file
ReloadStalePolicy(new) ==
    /\ cfg' = ResolveConflict(new)
    /\ RestartRunner(cfg')
    /\ Reconcile(cfg', auto', blocked, "none")
    /\ seen' = power
    /\ UNCHANGED <<power, blocked>>

\* reloadConfig with the file holding new.  Both services are stopped first,
\* so the policy and the runtime are computed from nothing.
Reload(new) ==
    /\ cfg' = ResolveConflict(new)
    /\ RestartRunner(cfg')
    /\ blocked' = Blocks(cfg', power)
    /\ seen' = power
    /\ Reconcile(cfg', auto', blocked', "none")
    /\ UNCHANGED power
-----------------------------------------------------------------------------
(* Battery and power broadcasts *)

\* refreshBatteryPolicyWithStatus, always TRUE as `again' after a resume
RefreshBattery(again) ==
    /\ seen' = power
    /\ blocked' = Blocks(cfg, power)
    /\ IF blocked' # blocked \/ again
       THEN Reconcile(cfg, auto, blocked', worker)
       ELSE UNCHANGED <<loop, session, worker, enabled, failed>>
    /\ UNCHANGED <<cfg, auto, runner, requests, power>>

BatteryTick == loop /\ RefreshBattery(FALSE)

PowerEvent(resume) == RefreshBattery(resume)

\* The environment: plugging, unplugging, charging, draining
PowerChange(p) ==
    /\ p # power
    /\ power' = p
    /\ UNCHANGED <<cfg, auto, runner, blocked, loop, session, worker,
                   enabled, requests, seen, failed>>
-----------------------------------------------------------------------------
(* Closures that carry something from the time they were posted *)

Post(r) ==
    /\ Len(requests) < MaxRequests
    /\ requests' = Append(requests, r)
    /\ UNCHANGED <<cfg, auto, runner, blocked, loop, session, worker,
                   enabled, power, seen, failed>>

\* The runner's OnState: Stop waits for the runner, so only a running one posts
PostState(state) ==
    runner /\ Post([kind |-> "state", state |-> state, live |-> TRUE])

\* The user closes the idle warning of the running monitor
PostDismiss == Monitoring /\ Post([kind |-> "dismiss"])

\* Mutant: the generation is not compared
RunStateAny ==
    /\ requests # << >>
    /\ Head(requests).kind = "state"
    /\ requests' = Tail(requests)
    /\ auto' = Head(requests).state
    /\ Reconcile(cfg, auto', blocked, worker)
    /\ UNCHANGED <<cfg, runner, blocked, power, seen>>

RunState ==
    /\ requests # << >>
    /\ Head(requests).kind = "state"
    /\ requests' = Tail(requests)
    /\ IF Head(requests).live
       THEN /\ auto' = Head(requests).state
            /\ Reconcile(cfg, auto', blocked, worker)
       ELSE UNCHANGED <<auto, loop, session, worker, enabled, failed>>
    /\ UNCHANGED <<cfg, runner, blocked, power, seen>>

\* Mutant: the dismissal does not ask whether a monitor still runs
RunDismissAny ==
    /\ requests # << >>
    /\ Head(requests).kind = "dismiss"
    /\ requests' = Tail(requests)
    /\ StartMonitor(cfg, auto)
    /\ UNCHANGED <<cfg, auto, runner, blocked, loop, worker, enabled, power,
                   seen, failed>>

RunDismiss ==
    /\ requests # << >>
    /\ Head(requests).kind = "dismiss"
    /\ requests' = Tail(requests)
    /\ IF Monitoring /\ IdleRequested(cfg, auto)
       THEN StartMonitor(cfg, auto)
       ELSE UNCHANGED session
    /\ UNCHANGED <<cfg, auto, runner, blocked, loop, worker, enabled, power,
                   seen, failed>>
-----------------------------------------------------------------------------
Next ==
    \/ ToggleNoSleep
    \/ \E on, screen \in BOOLEAN : SetNoSleep(on, screen)
    \/ \E minutes \in {0} \cup Timeouts : SetIdleTimeout(minutes)
    \/ \E option \in Options : SetIdleOption(option)
    \/ ToggleTheme
    \/ \E rules \in BOOLEAN : SetRules(rules)
    \/ \E new \in Files : Reload(new)
    \/ BatteryTick
    \/ \E resume \in BOOLEAN : PowerEvent(resume)
    \/ \E p \in Power : PowerChange(p)
    \/ \E state \in AutoStates : PostState(state)
    \/ PostDismiss
    \/ RunState
    \/ RunDismiss

\* The battery loop's ticker keeps firing while the loop runs.
Fairness == WF_vars(BatteryTick)

Spec == Init /\ [][Next]_vars /\ Fairness
-----------------------------------------------------------------------------
(* Properties *)

\* Stay Awake and the idle monitor never run together: whatever commands,
\* battery changes, rule changes, stale closures and refused requests happen,
\* the process never holds the OS awake while an idle session counts down
\* (reconcileRuntime, the onDismiss closure of startMonitor).
MutualExclusion == ~(Held /\ Monitoring)

\* A configuration with both features on is never left in memory
\* (setNoSleepConfig, setIdleTimeoutConfig, the conflict fix of reloadConfig).
ManualExclusive == ~(cfg.noSleep /\ cfg.idle > 0)

\* Between two handlers the services are the ones the configuration, the
\* automation state and the battery policy call for: the OS is held awake only
\* on demand, in the demanded mode unless the request was refused, and an idle
\* session runs exactly when it should.  No handler may forget to reconcile.
RuntimeMatchesDemand ==
    LET stayAwake == Wants(cfg, auto) /\ ~blocked
    IN  /\ Held => stayAwake
        /\ stayAwake => enabled \/ failed
        /\ enabled => worker = Mode(KeepScreen(cfg, auto))
        /\ Monitoring <=> IdleRequested(cfg, auto) /\ ~stayAwake

\* The running idle session counts to the timeout and with the options that
\* are configured now, not to those of an earlier configuration.
SessionIsCurrent ==
    Monitoring => /\ session.minutes = IdleMinutes(cfg, auto)
                  /\ session.option = cfg.option

\* The battery verdict is the one of the current configuration for the last
\* status read, also after a reload changed the policy.
BlockedFollowsPolicy == blocked = Blocks(cfg, seen)

\* An automation state outlives neither its runner nor its rule set: once
\* stopAutomation ran, no closure queued before it takes effect.
NoAutoWithoutRunner == ~runner => auto = NoAuto

\* The state is well typed, and what an earlier configuration, battery status or
\* rule set left behind is gone: the session, the verdict and the automation
\* state are the current ones.
StateIsCurrent == TypeOK /\ SessionIsCurrent /\ BlockedFollowsPolicy /\ NoAutoWithoutRunner

\* With Stay Awake demanded, by hand or by a rule, a battery that reaches the
\* configured threshold without any broadcast releases the OS in the end.
BatteryHonoured ==
    Held /\ Wants(cfg, auto) /\ Blocks(cfg, power)
        ~> (~Held \/ ~Wants(cfg, auto) \/ ~Blocks(cfg, power))
=============================================================================
