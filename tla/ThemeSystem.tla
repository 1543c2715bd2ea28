---------------------------- MODULE ThemeSystem -----------------------------
(***************************************************************************)
(* The theme scheduler and the lookup of the location it computes sunrise  *)
(* and sunset from, composed: a location that is found replaces the        *)
(* scheduler, a scheduler takes the location the cache holds when it is    *)
(* made, and the settings, the control panel and the exit drive both       *)
(* (src/internal/app/theme.go, theme_location.go, status.go, app.go).      *)
(* Lookups and time pass while the request loop waits in Scheduler.Stop.   *)
(***************************************************************************)
EXTENDS ThemeScheduler

CONSTANTS
    Budgets,   \* what a behaviour may spend: [time, events, fails, turns]
    MaxTurns   \* bound: changes of the location setting

ASSUME BudgetsAssumption ==
    /\ MaxTurns \in Nat
    /\ Budgets \subseteq [time : 0..MaxTime, events : 0..MaxEvents,
                          fails : 0..MaxFails, turns : 0..MaxTurns]

VARIABLES
    generation, retried, retry, lookups, cache, posted,
    wanted,   \* ipLocationLookupEnabled: asked for, in sunrise mode, none given
    place,    \* where the scheduler in force takes the computer to be
    due,      \* what the handler does to the cycle once Stop has returned
    turns

Loc == INSTANCE ThemeLocation

locVars == <<generation, retried, retry, lookups, cache, posted>>
setting == <<wanted, place, due, turns>>
allVars == <<vars, locVars, setting>>

\* themeIPLocationLookupEnabled
Eligible == wanted /\ cfg.supported

LocationTypeOK ==
    /\ TypeOK /\ Loc!TypeOK
    /\ wanted \in BOOLEAN
    /\ place \in {"zone", "ip"}
    /\ due \in {"nothing", "start", "stop"}
    /\ turns \in 0..MaxTurns

Init ==
    /\ Start
    /\ \E b \in Budgets :
          /\ now = MaxTime - b.time /\ events = MaxEvents - b.events
          /\ fails = MaxFails - b.fails /\ turns = MaxTurns - b.turns
          /\ wanted = (b.turns > 0)
          /\ wanted => ~onBattery    \* bound: the charger is in while lookups are tried
    /\ place = "zone" /\ due = "nothing"
    \* onReady: startIPLocationCycle
    /\ generation = 1 /\ retried = FALSE /\ retry = Loc!NoTimer
    /\ lookups = IF wanted THEN {[gen |-> 1, step |-> "begin"]} ELSE {}
    /\ cache = [info |-> "none", cool |-> FALSE, querying |-> FALSE]
    /\ posted = {}
-----------------------------------------------------------------------------
(* The request loop *)

Turn == turns < MaxTurns /\ turns' = turns + 1

\* What happens to the cycle, with the setting that holds afterwards
ChangeCycle(what) ==
    CASE what = "start"   -> Loc!StartCycle(wanted' /\ cfg.supported)
      [] what = "stop"    -> Loc!StopCycle
      [] what = "nothing" -> UNCHANGED locVars

\* ActIPLocationToggle: the scheduler first, then the cycle
IPLocationToggle ==
    /\ handler = "ready" /\ cfg.supported
    /\ Turn /\ UNCHANGED <<events, place>>
    /\ wanted' = ~wanted
    /\ Restart(cfg)
    /\ LET next == IF wanted THEN "stop" ELSE "start"
       IN  IF handler' = "stopping" THEN due' = next /\ UNCHANGED locVars
           ELSE ChangeCycle(next) /\ UNCHANGED due

\* syncIPLocationCycle
Sync(wasEligible, isEligible) ==
    CASE ~isEligible                -> "stop"
      [] isEligible /\ ~wasEligible -> "start"
      [] isEligible /\ wasEligible  -> "nothing"

\* reloadConfig: the settings that were in force are looked at first
ReloadFile ==
    /\ Reload
    /\ \/ UNCHANGED <<wanted, turns>>
       \/ Turn /\ wanted' = ~wanted
    /\ due' = Sync(Eligible, wanted' /\ cfg'.supported)
    /\ UNCHANGED <<locVars, place>>

\* onExit: the cycle, then the scheduler
ExitProgram ==
    /\ Exit /\ Loc!StopCycle
    /\ UNCHANGED setting

\* themeLocationInfo(false): what the cache holds, without asking
Located == wanted /\ cache.info = "fresh"

\* A scheduler that is made takes its location; then the cycle's turn
ReplaceScheduler ==
    /\ Replace
    /\ place' = IF sched' # "nil" /\ Located THEN "ip" ELSE "zone"
    /\ due' = "nothing"
    /\ UNCHANGED <<wanted, turns>>
    /\ ChangeCycle(due)

\* A lookup's result: one that is found replaces the scheduler
Result(m) ==
    /\ handler = "ready"
    /\ Loc!TakeResult(m, Eligible)
    /\ IF m.what = "found" /\ Loc!IsAnswer(m, Eligible)
       THEN Restart(cfg) /\ UNCHANGED events
       ELSE UNCHANGED vars
    /\ UNCHANGED setting

Retry(m) ==
    /\ handler = "ready"
    /\ Loc!TakeRetry(m)
    /\ UNCHANGED <<vars, setting>>
-----------------------------------------------------------------------------
Theme(A)  == A /\ UNCHANGED <<locVars, setting>>
Search(A) == A /\ UNCHANGED <<vars, setting>>

Next ==
    \/ Theme(Environment \/ Handlers)
    \/ \E p \in Procs : Theme(Operation(p))
    \/ \E l \in Slots : Theme(Thread(l))
    \/ Search(Loc!Background) \/ Search(Loc!Time)
    \/ IPLocationToggle \/ ReloadFile \/ ExitProgram \/ ReplaceScheduler
    \/ \E m \in posted : Result(m) \/ Retry(m)

\* Threads and goroutines run, tickers tick, a timer fires, Stop returns once
\* the thread has ended and the loop takes what is posted; a select between a
\* tick and a closed stop channel takes the stop in the end, and a request ends.
\* No user acts and nothing in Windows changes unless it wants to
Spec ==
    /\ Init /\ [][Next]_allVars
    /\ WF_allVars(Theme(Tick)) /\ WF_allVars(ReplaceScheduler)
    /\ WF_allVars(Search(Loc!Background)) /\ WF_allVars(Search(Loc!HalfHour))
    /\ WF_allVars(Search(Loc!TimerFires))
    /\ WF_allVars(\E m \in posted : Result(m) \/ Retry(m))
    /\ \A p \in Procs : WF_allVars(Theme(Operation(p)))
    /\ \A l \in Slots : WF_allVars(Theme(Thread(l))) /\ SF_allVars(Theme(Leave(l)))
-----------------------------------------------------------------------------
(* Properties *)

\* However quickly cycles follow each other: the service is asked by one
\* lookup at a time (location.go:70-72, "an in-flight lookup is still shared
\* instead of duplicated"), and the lock of the cache knows of it.
OneRequest ==
    LET asking == {l \in lookups : l.step = "asking"}
    IN  Cardinality(asking) <= 1 /\ (cache.querying <=> asking # {})

\* The state is well typed, the scheduler that runs is the one in force, and one
\* lookup at most asks.
OneOfEach == LocationTypeOK /\ SettingsInForce /\ OneRequest

\* A lookup is begun for the cycle in force and for settings that ask for it,
\* never by a timer that fired before its cycle was stopped or replaced
\* (theme_location.go:88-96).  The setting goes over the network: it must be
\* off when it is off.
SilentAfterStop ==
    [][\A l \in lookups' \ lookups :
          l.step = "begin" => l.gen = generation' /\ wanted' /\ cfg'.supported]_allVars

\* A location that was found is used: if the cache holds one and the settings
\* ask for it from some time on, the scheduler in force has it in the end,
\* whichever cycle's lookup brought it and whatever was toggled meanwhile.
FoundIsUsed ==
    <>[](cache.info = "fresh" /\ Eligible /\ cfg.enabled /\ ~exiting) => <>[](place = "ip")
=============================================================================
