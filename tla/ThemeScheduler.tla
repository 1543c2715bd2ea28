--------------------------- MODULE ThemeScheduler ---------------------------
(***************************************************************************)
(* The day / night theme (src/internal/feature/theme): a scheduler thread  *)
(* that compares the clock, the power state and the current theme, the     *)
(* switch itself - two registry values written one after the other, read   *)
(* back and restored on an error - and the request loop's handlers that    *)
(* start, stop and replace the scheduler, switch by hand and repair the    *)
(* shell (src/internal/app/theme.go, theme_location.go,                    *)
(* controlpanel_actions.go).                                               *)
(*                                                                         *)
(* Time is a count of ticks, Day of them a day; the light and the dark     *)
(* time are two of them (in sunrise mode they come from the location that  *)
(* ThemeSystem adds).  A scheduler object is a slot of Slots: its thread's *)
(* place and what the object remembers.  ThemeSystem composes the actions. *)
(***************************************************************************)
EXTENDS Naturals, FiniteSets

CONSTANTS
    Day,             \* ticks in a day
    LightAt, DarkAt, \* the scheduled transitions
    FirstPairs,      \* what Windows' settings may hold at the start
    Files,           \* what a load of the settings may find
    MaxTime,         \* bound: the clock stops here
    MaxEvents,       \* bound: the user's and the environment's actions
    MaxFails         \* bound: failed registry operations and detections

Modes  == {"light", "dark"}
Values == {"apps", "system"}    \* AppsUseLightTheme, SystemUsesLightTheme
Pairs  == [Values -> Modes \cup {"absent"}]

Settings == [enabled: BOOLEAN, supported: BOOLEAN,
             darkOnBattery: BOOLEAN, skipFullscreen: BOOLEAN]

ASSUME ThemeAssumption ==
    /\ Files \subseteq Settings
    /\ FirstPairs \subseteq Pairs
    /\ Day \in Nat /\ LightAt \in 0..(Day - 1) /\ DarkAt \in 0..(Day - 1)
    /\ MaxTime \in Nat /\ MaxEvents \in Nat /\ MaxFails \in Nat

Slots  == {"slot1", "slot2"}
Users  == {"switch1", "switch2", "repair"}    \* runThemeOperation's goroutines
Procs  == Slots \cup Users

VARIABLES
    now, onBattery, presenting,
    pref,      \* the two registry values
    cfg,       \* s.cfg's theme settings, and themeAvailable
    sched,     \* s.themeSched: a slot, or "nil"
    loop,      \* slot -> the scheduler object and its thread
    handler,   \* the request loop: "ready", "stopping" (in Stop) or "exited"
    exiting,   \* what it stops the scheduler for
    op,        \* process -> its Switch or Refresh in progress
    damaged,   \* a value could not be restored
    origin,    \* the pair the user set in Windows
    events, fails

vars == <<now, onBattery, presenting, pref, cfg, sched, loop, handler, exiting,
          op, damaged, origin, events, fails>>
env  == <<now, onBattery, presenting>>
app  == <<cfg, sched, handler, exiting>>

NoOp   == [step |-> "none"]
Unused == [at |-> "off", settings |-> [darkOnBattery |-> FALSE, skipFullscreen |-> FALSE],
           stop |-> FALSE, until |-> 0]
Options(c) == [darkOnBattery |-> c.darkOnBattery, skipFullscreen |-> c.skipFullscreen]

TypeOK ==
    /\ now \in 0..MaxTime /\ onBattery \in BOOLEAN /\ presenting \in BOOLEAN
    /\ pref \in Pairs /\ origin \in Pairs
    /\ cfg \in Settings
    /\ sched \in Slots \cup {"nil"}
    /\ \A l \in Slots :
          /\ loop[l].at \in {"off", "check", "pause", "switch"}
          /\ loop[l].stop \in BOOLEAN
          /\ loop[l].until <= now + Day    \* one transition ahead, never two
    /\ handler \in {"ready", "stopping", "exited"} /\ exiting \in BOOLEAN
    /\ \A p \in Procs :
          op[p].step \in {"none", "lock", "apps", "system", "verify", "applied", "again"}
    /\ damaged \in BOOLEAN
    /\ events \in 0..MaxEvents /\ fails \in 0..MaxFails
-----------------------------------------------------------------------------
(* The policy *)

\* Current: the apps value, or what Windows shows when there is none
Current == IF pref["apps"] = "absent" THEN "light" ELSE pref["apps"]

Other(mode) == IF mode = "dark" THEN "light" ELSE "dark"

Today(minute) == (now \div Day) * Day + minute

\* HoldManualOverride: the first transition that is still to come
NextTransition ==
    LET Coming(minute) == IF Today(minute) > now THEN Today(minute) ELSE Today(minute) + Day
    IN  IF Coming(LightAt) < Coming(DarkAt) THEN Coming(LightAt) ELSE Coming(DarkAt)

\* check: the theme of the hour, the light time itself not included in the day
Target ==
    IF LightAt < DarkAt
    THEN IF now > Today(LightAt) /\ now < Today(DarkAt) THEN "light" ELSE "dark"
    ELSE IF now > Today(DarkAt) \/ now < Today(LightAt) THEN "dark" ELSE "light"

\* Mutant of Wanted: the user's choice before the battery rule
WantedHoldFirst(l) ==
    IF loop[l].until > now THEN "any"
    ELSE IF loop[l].settings.darkOnBattery /\ onBattery THEN "dark"
    ELSE Target

\* The theme the scheduler of slot l asks for now, "any" for none: the battery
\* rule comes before the user's choice, the user's choice before the clock
Wanted(l) ==
    IF loop[l].settings.darkOnBattery /\ onBattery THEN "dark"
    ELSE IF loop[l].until > now THEN "any"
    ELSE Target

\* onReady has started the scheduler
Start ==
    /\ onBattery \in BOOLEAN /\ presenting = FALSE
    /\ pref \in FirstPairs
    /\ origin = pref
    /\ cfg \in {c \in Files : c.supported /\ c.enabled}
    /\ sched = "slot1"
    /\ loop = [l \in Slots |-> IF l = sched THEN [Unused EXCEPT !.at = "check", !.settings = Options(cfg)]
                               ELSE Unused]
    /\ handler = "ready" /\ exiting = FALSE
    /\ op = [p \in Procs |-> NoOp]
    /\ damaged = FALSE
-----------------------------------------------------------------------------
(* The environment *)

Event == events < MaxEvents /\ events' = events + 1

Tick ==
    /\ now < MaxTime
    /\ now' = now + 1
    /\ UNCHANGED <<onBattery, presenting, pref, app, loop, op, damaged, origin, events, fails>>

\* The charger, or a fullscreen program, comes or goes
Surroundings ==
    /\ Event
    /\ \/ onBattery' = ~onBattery /\ UNCHANGED presenting
       \/ presenting' = ~presenting /\ UNCHANGED onBattery
    /\ UNCHANGED <<now, pref, app, loop, op, damaged, origin, fails>>

\* The mutex: held by the one process past its Lock
Busy == \E p \in Procs : op[p].step \notin {"none", "lock"}

\* The user picks a mode in Windows' own settings, not during a switch
WindowsSettings ==
    /\ Event /\ ~Busy
    /\ \E m, n \in Modes : pref' = [apps |-> m, system |-> n]
    /\ pref' # pref
    /\ origin' = pref'
    /\ damaged' = FALSE
    /\ UNCHANGED <<env, app, loop, op, fails>>
-----------------------------------------------------------------------------
(* Switch and Refresh, under themeOperationMu *)

Set(p, step) == op' = [op EXCEPT ![p].step = step]

\* The operation is over, and a scheduler thread goes on
Done(p) ==
    /\ op' = [op EXCEPT ![p] = NoOp]
    /\ loop' = IF p \in Slots THEN [loop EXCEPT ![p].at = "check"] ELSE loop

Fault == fails < MaxFails /\ fails' = fails + 1

\* The lock, and the values before the operation; either read may fail
Acquires == ~Busy

Lock(p) ==
    /\ op[p].step = "lock" /\ Acquires
    /\ \/ /\ op' = [op EXCEPT ![p] = IF p = "repair" THEN [step |-> "applied", prev |-> pref]
                                   ELSE [step |-> "apps", mode |-> @.mode, prev |-> pref]]
          /\ IF p = "repair" THEN \E m, n \in Modes : pref' = [apps |-> m, system |-> n]
             ELSE UNCHANGED pref
          /\ UNCHANGED <<loop, fails>>
       \/ /\ Fault
          /\ Done(p) /\ UNCHANGED pref
       \/ /\ p = "repair"    \* before Windows 11 there is only the broadcast
          /\ Done(p) /\ UNCHANGED <<pref, fails>>
    /\ UNCHANGED <<env, app, damaged, origin, events>>

\* Mutant of PutBack: only the value that failed is restored
PutBackFailed(p, names) ==
    pref' = [v \in Values |->
               IF v \in names /\ (v = "system" \/ "system" \notin names)
               THEN op[p].prev[v] ELSE pref[v]]

\* themeModeUpdateError: the values written so far are put back
PutBack(p, names) ==
    pref' = [v \in Values |-> IF v \in names THEN op[p].prev[v] ELSE pref[v]]

Undo(p, attempted) ==
    /\ \E lost \in SUBSET attempted :
          /\ fails + 1 + Cardinality(lost) <= MaxFails
          /\ fails' = fails + 1 + Cardinality(lost)
          /\ PutBack(p, attempted \ lost)
          /\ damaged' = (damaged \/ lost # {})
    /\ Done(p)

SetApps(p) ==
    /\ op[p].step = "apps"
    /\ \/ /\ pref' = [pref EXCEPT !["apps"] = op[p].mode]
          /\ Set(p, "system")
          /\ UNCHANGED <<loop, damaged, fails>>
       \/ Undo(p, {"apps"})
    /\ UNCHANGED <<env, app, origin, events>>

SetSystem(p) ==
    /\ op[p].step = "system"
    /\ \/ /\ pref' = [pref EXCEPT !["system"] = op[p].mode]
          /\ Set(p, "verify")
          /\ UNCHANGED <<loop, damaged, fails>>
       \/ Undo(p, {"apps", "system"})
    /\ UNCHANGED <<env, app, origin, events>>

\* Both values are read back; the broadcast that follows changes nothing here
Verify(p) ==
    /\ op[p].step = "verify"
    /\ \/ /\ \A v \in Values : pref[v] = op[p].mode
          /\ Done(p)
          /\ UNCHANGED <<pref, damaged, fails>>
       \/ Undo(p, Values)
    /\ UNCHANGED <<env, app, origin, events>>

\* refreshDWMColorization has applied a theme file that may have set the values
\* to anything, and puts the modes it read back, each on its own; an error in
\* the first attempt makes the deferred one try again
Mode(value) == IF value = "absent" THEN "light" ELSE value

RestoreModes(p) ==
    /\ op[p].step \in {"applied", "again"}
    /\ \E lost \in SUBSET Values :
          /\ fails + Cardinality(lost) <= MaxFails
          /\ fails' = fails + Cardinality(lost)
          /\ \E other \in [lost -> Modes] :
                pref' = [v \in Values |-> IF v \in lost THEN other[v] ELSE Mode(op[p].prev[v])]
          /\ IF lost = {} \/ op[p].step = "again"
             THEN /\ Done(p)
                  /\ damaged' = (damaged \/ lost # {})
             ELSE Set(p, "again") /\ UNCHANGED <<loop, damaged>>
    /\ UNCHANGED <<env, app, origin, events>>
-----------------------------------------------------------------------------
(* The scheduler's thread *)

Begin(l, mode) ==
    /\ op' = [op EXCEPT ![l] = [step |-> "lock", mode |-> mode]]
    /\ loop' = [loop EXCEPT ![l].at = "switch"]

\* A tick, a wake or the first pass finds another theme than the one wanted.
\* A closed stop channel does not come first: select takes any ready case
Check(l) ==
    /\ loop[l].at = "check"
    /\ Wanted(l) \notin {"any", Current}
    /\ IF loop[l].settings.skipFullscreen
       THEN /\ loop' = [loop EXCEPT ![l].at = "pause"]
            /\ op' = [op EXCEPT ![l] = [step |-> "none", mode |-> Wanted(l)]]
       ELSE Begin(l, Wanted(l))
    /\ UNCHANGED <<env, pref, app, damaged, origin, events, fails>>

\* DetectThemeSwitchPause: two samples of the foreground program, given up when
\* the scheduler is stopped; when they cannot be taken, the switch goes on
Pause(l) ==
    /\ loop[l].at = "pause"
    /\ \/ /\ presenting \/ loop[l].stop
          /\ loop' = [loop EXCEPT ![l].at = "check"]
          /\ op' = [op EXCEPT ![l] = NoOp]
          /\ UNCHANGED fails
       \/ ~presenting /\ Begin(l, op[l].mode) /\ UNCHANGED fails
       \/ presenting /\ Fault /\ Begin(l, op[l].mode)
    /\ UNCHANGED <<env, pref, app, damaged, origin, events>>

\* The loop takes stopCh
Leave(l) ==
    /\ loop[l].at = "check" /\ loop[l].stop
    /\ loop' = [loop EXCEPT ![l].at = "off"]
    /\ UNCHANGED <<env, pref, app, op, damaged, origin, events, fails>>
-----------------------------------------------------------------------------
(* The request loop *)

Ready == Event /\ handler = "ready"

\* Mutant of Stopped: Stop closes the channel and does not wait
StoppedAtOnce(slots) == TRUE

\* Stop has returned: doneCh is closed
Stopped(slots) == \A l \in slots : loop[l].at = "off"

\* stopThemeScheduler, up to the wait, with the settings that come after it
Stopping(c, quit) ==
    /\ cfg' = c
    /\ exiting' = quit
    /\ handler' = "stopping"
    /\ loop' = [l \in Slots |-> IF l = sched THEN [loop[l] EXCEPT !.stop = TRUE] ELSE loop[l]]
    /\ UNCHANGED <<env, pref, sched, op, damaged, origin, fails>>

NewScheduler == [Unused EXCEPT !.at = "check", !.settings = Options(cfg)]
Forgotten    == [l \in Slots |-> IF loop[l].at = "off" THEN Unused ELSE loop[l]]

\* The rest of stopThemeScheduler, and of startThemeScheduler
Replace ==
    /\ handler = "stopping"
    /\ Stopped({sched} \cap Slots)
    /\ handler' = IF exiting THEN "exited" ELSE "ready"
    /\ IF ~exiting /\ cfg.enabled /\ cfg.supported
       THEN /\ sched' = CHOOSE l \in Slots : loop[l].at = "off"
            /\ loop' = [Forgotten EXCEPT ![sched'] = NewScheduler]
       ELSE /\ sched' = "nil"
            /\ loop' = Forgotten
    /\ UNCHANGED <<env, pref, cfg, exiting, op, damaged, origin, events, fails>>

\* An option of a running scheduler; without one only the setting changes
Restart(c) ==
    IF c.enabled THEN Stopping(c, FALSE)
    ELSE cfg' = c /\ UNCHANGED <<env, pref, sched, loop, handler, exiting, op,
                                 damaged, origin, fails>>

ThemeToggle ==
    Ready /\ cfg.supported /\ Stopping([cfg EXCEPT !.enabled = ~@], FALSE)

BatteryToggle ==
    Ready /\ cfg.supported /\ Restart([cfg EXCEPT !.darkOnBattery = ~@])

FullscreenToggle ==
    Ready /\ cfg.supported /\ Restart([cfg EXCEPT !.skipFullscreen = ~@])

\* reloadConfig: the file's settings, the system looked at anew
Reload ==
    Ready /\ \E c \in Files : Stopping(c, FALSE)

Exit ==
    handler = "ready" /\ UNCHANGED events /\ Stopping(cfg, TRUE)

\* ActSwitchTheme: the hold first, the switch in a goroutine
FreeSwitch == {p \in {"switch1", "switch2"} : op[p].step = "none"}

SwitchTheme ==
    /\ Ready /\ cfg.supported
    /\ FreeSwitch # {}
    /\ op' = [op EXCEPT ![CHOOSE p \in FreeSwitch : TRUE] =
                 [step |-> "lock", mode |-> Other(Current)]]
    /\ IF sched # "nil"
       THEN loop' = [loop EXCEPT ![sched].until = NextTransition]
       ELSE UNCHANGED loop
    /\ UNCHANGED <<env, pref, app, damaged, origin, fails>>

\* ActRepairTheme
Repair ==
    /\ Ready /\ cfg.supported
    /\ op["repair"].step = "none"
    /\ op' = [op EXCEPT !["repair"] = [step |-> "lock"]]
    /\ UNCHANGED <<env, pref, app, loop, damaged, origin, fails>>
-----------------------------------------------------------------------------
Operation(p) ==
    Lock(p) \/ SetApps(p) \/ SetSystem(p) \/ Verify(p) \/ RestoreModes(p)

Thread(l) == Check(l) \/ Pause(l) \/ Leave(l)

Environment == Tick \/ Surroundings \/ WindowsSettings

\* The handlers that concern nothing but the theme
Handlers == ThemeToggle \/ BatteryToggle \/ FullscreenToggle \/ SwitchTheme \/ Repair
-----------------------------------------------------------------------------
(* Properties *)

\* The two values are one setting (switching.go:85-87): between operations they
\* are equal, or what the user had set in Windows, unless a value that was to
\* be restored could not be; a Switch that fails half way, with others and a
\* repair waiting for the mutex, leaves no mixture behind.  A repair may turn
\* an absent value into the mode it stands for.
NeverTorn ==
    Busy \/ damaged \/ pref["apps"] = pref["system"]
         \/ \A v \in Values : Mode(pref[v]) = Mode(origin[v])

\* No replaced scheduler goes on switching: outside a stop, the threads that
\* may still write are those of s.themeSched, with the settings in force, and
\* there is one exactly if the theme switch is on; after the exit there is none
\* (theme.go:28-52, scheduler.go:107-120).
SettingsInForce ==
    handler # "stopping" =>
      /\ {l \in Slots : loop[l].at # "off"} = {sched} \cap Slots
      /\ (sched # "nil") <=> (handler = "ready" /\ cfg.enabled /\ cfg.supported)
      /\ sched # "nil" => loop[sched].settings = Options(cfg) /\ ~loop[sched].stop

\* What the settings in force, the power, the user and the clock ask for: of the
\* two scheduled times, the hour belongs to the one that passed last
Since(minute) == (now + Day - minute) % Day

Asked ==
    IF exiting \/ ~cfg.enabled \/ ~cfg.supported THEN "any"
    ELSE IF cfg.darkOnBattery /\ onBattery THEN "dark"
    ELSE IF sched # "nil" /\ now < loop[sched].until THEN "any"
    ELSE IF Since(LightAt) < Since(DarkAt) THEN "light" ELSE "dark"

\* Whatever the user clicked and whatever failed before: if the settings ask
\* for one theme from some time on, and no program holds the switch up, Windows
\* ends up with it.  The battery rule wins over the user's choice
\* (scheduler.go:160-161), the clock does once the choice has run out.  A Stop
\* that never returned would break it too: the settings would ask in vain.
ThemeConverges ==
    \A m \in Modes : <>[](Asked = m /\ ~presenting) => <>[](Current = m)

=============================================================================
