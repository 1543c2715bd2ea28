----------------------------- MODULE RequestLoop -----------------------------
(***************************************************************************)
(* Who waits for whom.  Every change of runtimeState is a closure sent to  *)
(* requestCh, a channel of bounded capacity, and run by one goroutine, the *)
(* request loop (src/internal/app/app.go).  A closure may stop and start   *)
(* the threads that send closures themselves - the idle monitor, the hot   *)
(* keys, the automation runner and the battery poll - and a stop waits for *)
(* its thread to end; it may also show a modal error dialog.  The monitor  *)
(* waits for the tray's UI thread before it acts (trayicon.PostAndWait),   *)
(* and the UI thread waits for the request loop when the automation        *)
(* manager saves and when the program exits.                               *)
(*                                                                         *)
(* A closure is represented by what it makes the loop wait for: a plan of  *)
(* stops, starts and dialogs.  What it computes is in PowerRuntime,        *)
(* AutomationEvents and the other modules.  The theme scheduler's thread   *)
(* sends nothing, and waits for other threads only in broadcasts with a    *)
(* time limit: its stop always returns and is left out.  Program composes  *)
(* these actions with the clients of the pipe.                             *)
(***************************************************************************)
EXTENDS Naturals, SequencesExt

CONSTANTS
    Capacity,  \* of requestCh (64)
    Sends      \* thread -> the closures it sends in this instance

Workers == {"monitor", "hotkey", "runner", "battery"}
Threads == Workers \cup {"ui", "other"}

Kinds == {"plain", "reconcile", "hotkeys", "automation", "reload", "save",
          "refresh", "open", "shutdown"}

ASSUME LoopAssumption ==
    /\ Capacity \in Nat \ {0}
    /\ Sends \in [Threads -> SUBSET (Kinds \ {"refresh", "open", "shutdown"})]
    /\ Sends["monitor"] \subseteq {"plain"}
    /\ \A t \in Threads \ {"ui"} : "save" \notin Sends[t]

VARIABLES
    requests,  \* requestCh
    senders,   \* the threads blocked in a send, in order, with their closures
    startup,   \* onReady: "before", "running" or "done" (stateReady is closed)
    serving,   \* what the loop, or onReady before it, carries out
    work,      \* the rest of its plan
    ui,        \* the UI thread: "idle", "reply", "closing", "lock", "call", "gone"
    hide,      \* the monitor's task waits for the UI thread
    at,        \* the workers: "off", "wait", the monitor's "ask" and "act", and
               \* the hot keys' "register" and "cleanup"
    stopped    \* their stop channels are closed

vars == <<requests, senders, startup, serving, work, ui, hide, at, stopped>>

\* The steps of a plan
Stop(t)  == <<"stop", t>>
Start(t) == <<"start", t>>      \* if it is wanted
Sync     == <<"choose", "battery">>
Resume   == <<"choose", "monitor">>
MayFail  == <<"choose", "user">>
Dialog   == <<"ask", "user">>
Icon     == <<"set", "icon">>

TypeOK ==
    /\ requests \in Seq(Kinds) /\ Len(requests) <= Capacity
    /\ senders \in Seq([from: Threads, kind: Kinds])
    /\ startup \in {"before", "running", "done"}
    /\ serving \in Kinds \cup {"none", "startup"}
    /\ work \in Seq({"stop", "start"} \X Workers \cup {Sync, Resume, MayFail, Dialog, Icon})
    /\ ui \in {"idle", "reply", "closing", "lock", "call", "gone"}
    /\ hide \in BOOLEAN
    /\ at \in [Workers -> {"off", "wait", "ask", "act", "register", "cleanup"}]
    /\ stopped \in [Workers -> BOOLEAN]
    \* a thread waits in one send at a time, and only if the channel is full
    /\ \A i, j \in DOMAIN senders :
          i # j /\ senders[i].from # "other" => senders[i].from # senders[j].from
    /\ senders # <<>> => Len(requests) = Capacity

-----------------------------------------------------------------------------
(* What a closure makes the loop do *)

\* What a choice stands for: syncBatteryLoop's two cases, the end of
\* reconcileRuntime, which starts the monitor or may be refused Stay Awake, and
\* an error that is shown if there is one
Outcomes(step) ==
    CASE step = Sync    -> {<<Start("battery")>>, <<Stop("battery")>>}
      [] step = Resume  -> {<<Start("monitor")>>, <<Dialog>>}
      [] step = MayFail -> {<<>>, <<Dialog>>}

\* reconcileRuntime
Reconcile == <<Sync, Stop("monitor"), Resume>>

\* restartAutomation
RestartAutomation == <<Stop("runner"), Start("runner")>> \o Reconcile \o <<Icon>>

\* startHotkeys, which shows what is in conflict with another program
StartHotkeys == <<Start("hotkey"), MayFail>>

\* reloadConfig; refreshBatteryPolicy may have reconciled before
Reload ==
    <<Stop("monitor"), Stop("hotkey"), Stop("runner"), Icon>>
        \o Reconcile \o StartHotkeys \o <<Start("runner")>> \o Reconcile \o <<Icon>>

\* onReady
Startup == Reconcile \o <<Icon>> \o StartHotkeys \o <<Start("runner")>>

\* Mutant: the hot keys are forgotten at exit
PlansKeepingHotkeys(kind) ==
    CASE kind = "plain"      -> {<<MayFail>>}
      [] kind = "reconcile"  -> {<<>>, Reconcile \o <<Icon, MayFail>>}
      [] kind = "hotkeys"    -> {<<Stop("hotkey")>> \o StartHotkeys}
      [] kind = "automation" -> {RestartAutomation \o <<MayFail>>}
      [] kind = "reload"     -> {<<>>, Reload}
      [] kind = "save"       -> {<<>>, RestartAutomation, Reload}
      [] kind = "refresh"    -> {<<Icon>>}
      [] kind = "open"       -> {<<>>}
      [] kind = "shutdown"   ->
            {<<Stop("monitor"), Stop("runner"), Stop("battery")>>}

\* The empty plans are those of closures that find nothing to do or an error
\* that is only logged; the last MayFail is a failed save.
Plans(kind) ==
    CASE kind = "plain"      -> {<<MayFail>>}
      [] kind = "reconcile"  -> {<<>>, Reconcile \o <<Icon, MayFail>>}
      [] kind = "hotkeys"    -> {<<Stop("hotkey")>> \o StartHotkeys}
      [] kind = "automation" -> {RestartAutomation \o <<MayFail>>}
      [] kind = "reload"     -> {<<>>, Reload}
      [] kind = "save"       -> {<<>>, RestartAutomation, Reload}
      [] kind = "refresh"    -> {<<Icon>>}
      [] kind = "open"       -> {<<>>}
      [] kind = "shutdown"   ->
            {<<Stop("monitor"), Stop("hotkey"), Stop("runner"), Stop("battery")>>}
-----------------------------------------------------------------------------
(* The channel *)

Blocked(t) == \E i \in DOMAIN senders : senders[i].from = t

\* post and call: a send to a full channel blocks its thread
Send(t, kind) ==
    IF Len(requests) < Capacity
    THEN requests' = Append(requests, kind) /\ UNCHANGED senders
    ELSE /\ senders' = Append(senders, [from |-> t, kind |-> kind])
         /\ UNCHANGED requests

\* requestLoop takes a closure; the first blocked sender gets its place.
Take ==
    /\ startup = "done" /\ serving = "none" /\ requests # <<>>
    /\ serving' = Head(requests)
    /\ work' \in Plans(Head(requests))
    /\ IF senders = <<>>
       THEN requests' = Tail(requests) /\ UNCHANGED senders
       ELSE /\ requests' = Append(Tail(requests), Head(senders).kind)
            /\ senders' = Tail(senders)
    /\ UNCHANGED <<startup, ui, hide, at, stopped>>
-----------------------------------------------------------------------------
(* The request loop, and onReady before it *)

\* onReady begins, unless the program is already shutting down
BeginStartup ==
    /\ startup = "before"
    /\ startup' = "running"
    /\ serving' = "startup"
    /\ work' = Startup
    /\ UNCHANGED <<requests, senders, ui, hide, at, stopped>>

Stopping(t) == work # <<>> /\ Head(work) = Stop(t)

CloseStop(t) ==
    /\ Stopping(t) /\ at[t] # "off" /\ ~stopped[t]
    /\ stopped' = [stopped EXCEPT ![t] = TRUE]
    /\ UNCHANGED <<requests, senders, startup, serving, work, ui, hide, at>>

StopReturns(t) ==
    /\ Stopping(t) /\ at[t] = "off"
    /\ work' = Tail(work)
    /\ stopped' = [stopped EXCEPT ![t] = FALSE]
    /\ UNCHANGED <<requests, senders, startup, serving, ui, hide, at>>

StartWorker(t) ==
    /\ t # "hotkey"
    /\ work # <<>> /\ Head(work) = Start(t)
    /\ work' = Tail(work)
    /\ \/ at' = [at EXCEPT ![t] = IF @ = "off" THEN "wait" ELSE @]
       \/ UNCHANGED at
    /\ UNCHANGED <<requests, senders, startup, serving, ui, hide, stopped>>

\* hotkey.Manager.Start, which waits for what its thread could register
StartHotkeyThread ==
    /\ work # <<>> /\ Head(work) = Start("hotkey")
    /\ at["hotkey"] = "off"
    /\ \/ at' = [at EXCEPT !["hotkey"] = "register"] /\ UNCHANGED work
       \/ work' = Tail(work) /\ UNCHANGED at
    /\ UNCHANGED <<requests, senders, startup, serving, ui, hide, stopped>>

\* Register: without its window the thread has nothing to wait for
HotkeyRegisters ==
    /\ at["hotkey"] = "register"
    /\ work' = Tail(work)
    /\ \E next \in {"wait", "cleanup"} : at' = [at EXCEPT !["hotkey"] = next]
    /\ UNCHANGED <<requests, senders, startup, serving, ui, hide, stopped>>

\* After the message loop: the hot keys, the window and its class are given back
HotkeyCleansUp ==
    /\ at["hotkey"] = "cleanup"
    /\ at' = [at EXCEPT !["hotkey"] = "off"]
    /\ UNCHANGED <<requests, senders, startup, serving, work, ui, hide, stopped>>

Choose ==
    /\ work # <<>> /\ Head(work) \in {Sync, Resume, MayFail}
    /\ \E chosen \in Outcomes(Head(work)) : work' = chosen \o Tail(work)
    /\ UNCHANGED <<requests, senders, startup, serving, ui, hide, at, stopped>>

\* updateIcon
Paint ==
    /\ work # <<>> /\ Head(work) = Icon
    /\ work' = Tail(work)
    /\ UNCHANGED <<requests, senders, startup, serving, ui, hide, at, stopped>>

\* The closure, or onReady, is over; the UI thread may have waited for it.
Finish ==
    /\ serving # "none" /\ work = <<>>
    /\ serving' = "none"
    /\ startup' = "done"
    /\ ui' = CASE serving = "save"     -> "idle"
               [] serving = "shutdown" -> "gone"
               [] OTHER                -> ui
    /\ UNCHANGED <<requests, senders, work, hide, at, stopped>>

\* The user closes the error dialog
CloseDialog ==
    /\ work # <<>> /\ Head(work) = Dialog
    /\ work' = Tail(work)
    /\ UNCHANGED <<requests, senders, startup, serving, ui, hide, at, stopped>>
-----------------------------------------------------------------------------
(* The idle monitor, the hot keys, the runner and the battery poll *)

\* Mutant: the UI thread stops taking tasks only after onExit
ClosingLate == ui = "gone"

Closing == ui \in {"closing", "lock", "call", "gone"}   \* uiClosing
Exiting == ui \in {"lock", "call", "gone"}              \* exiting

\* onTrigger, by a tick that may win over a closed stop channel: the warning's
\* window must be gone, so the monitor waits for the UI thread unless that is
\* closing.
MonitorTrigger ==
    /\ at["monitor"] = "wait" /\ ~Blocked("monitor") /\ ~Exiting
    /\ IF Closing
       THEN at' = [at EXCEPT !["monitor"] = "act"] /\ UNCHANGED hide
       ELSE at' = [at EXCEPT !["monitor"] = "ask"] /\ hide' = TRUE
    /\ UNCHANGED <<requests, senders, startup, serving, work, ui, stopped>>

\* Mutant: only the task itself ends the wait
MonitorReleasedByTask ==
    /\ at["monitor"] = "ask" /\ ~hide /\ ~Closing
    /\ at' = [at EXCEPT !["monitor"] = "act"]
    /\ UNCHANGED <<requests, senders, startup, serving, work, ui, hide, stopped>>

\* waitForUITask: the task is done, or the UI thread has stopped
MonitorReleased ==
    /\ at["monitor"] = "ask" /\ (~hide \/ Closing)
    /\ at' = [at EXCEPT !["monitor"] = "act"]
    /\ UNCHANGED <<requests, senders, startup, serving, work, ui, hide, stopped>>

\* The action, whose failure is shown by the request loop
MonitorActs ==
    /\ at["monitor"] = "act"
    /\ at' = [at EXCEPT !["monitor"] = "wait"]
    /\ \/ UNCHANGED <<requests, senders>>
       \/ ~Exiting /\ \E kind \in Sends["monitor"] : Send("monitor", kind)
    /\ UNCHANGED <<startup, serving, work, ui, hide, stopped>>

\* A hot key's callback; the poll's and the runner's closures
WorkerSends(t, kind) ==
    /\ at[t] = "wait" /\ ~Blocked(t)
    /\ t = "runner" => ~stopped[t]
    /\ Send(t, kind)
    /\ UNCHANGED <<startup, serving, work, ui, hide, at, stopped>>

\* postUntil and batteryLoop: a blocked send is given up when its thread is to
\* stop.
GivesUp(t) ==
    /\ t \in {"runner", "battery"}
    /\ stopped[t]
    /\ \E i \in DOMAIN senders :
          senders[i].from = t /\ senders' = RemoveAt(senders, i)
    /\ UNCHANGED <<requests, startup, serving, work, ui, hide, at, stopped>>

\* The thread sees its closed stop channel, or WM_QUIT
Leaves(t) ==
    /\ at[t] = "wait" /\ stopped[t] /\ ~Blocked(t)
    /\ at' = [at EXCEPT ![t] = IF t = "hotkey" THEN "cleanup" ELSE "off"]
    /\ UNCHANGED <<requests, senders, startup, serving, work, ui, hide, stopped>>

\* The configuration watcher, power events, the location lookup: nobody
\* waits for these threads.  At most one of them at a time is blocked.
OtherSends(kind) ==
    /\ startup # "before" /\ ~Blocked("other")
    /\ Send("other", kind)
    /\ UNCHANGED <<startup, serving, work, ui, hide, at, stopped>>
-----------------------------------------------------------------------------
(* The UI thread *)

UIFree == ui = "idle" /\ ~Blocked("ui")

\* A click in the panel or in a warning; there is a panel only after onReady
UIPosts(kind) ==
    /\ UIFree
    /\ startup = "done" \/ (kind = "reconcile" /\ at["monitor"] # "off")
    /\ Send("ui", kind)
    /\ ui' = IF kind = "save" THEN "reply" ELSE ui
    /\ UNCHANGED <<startup, serving, work, hide, at, stopped>>

\* drainUITasks runs the monitor's task
UITask ==
    /\ UIFree /\ hide
    /\ hide' = FALSE
    /\ UNCHANGED <<requests, senders, startup, serving, work, ui, at, stopped>>

\* The window is destroyed or the session ends: shutdown drops the tasks and
\* ends the waits for them,
UICloses ==
    /\ UIFree
    /\ ui' = "closing"
    /\ hide' = FALSE
    /\ UNCHANGED <<requests, senders, startup, serving, work, at, stopped>>

\* and onExit marks the program as exiting
UIExits ==
    /\ ui = "closing"
    /\ ui' = "lock"
    /\ UNCHANGED <<requests, senders, startup, serving, work, hide, at, stopped>>

\* onExit waits for onReady to be over, or keeps it from beginning, and has the
\* loop stop everything.
UICalls ==
    /\ ui = "lock" /\ startup # "running"
    /\ startup' = "done"
    /\ Send("ui", "shutdown")
    /\ ui' = "call"
    /\ UNCHANGED <<serving, work, hide, at, stopped>>
-----------------------------------------------------------------------------
Loop ==
    \/ Take \/ BeginStartup \/ Choose
    \/ \E t \in Workers : CloseStop(t) \/ StopReturns(t) \/ StartWorker(t)
    \/ StartHotkeyThread \/ HotkeyRegisters \/ HotkeyCleansUp

Monitor == MonitorReleased \/ MonitorActs

UI == UITask \/ UICalls

\* What the workers, the other threads and the user do of their own accord
Senders ==
    \/ MonitorTrigger
    \/ \E t \in Workers \ {"monitor"} : \E kind \in Sends[t] : WorkerSends(t, kind)
    \/ \E kind \in Sends["other"] : OtherSends(kind)
    \/ \E kind \in Sends["ui"] : UIPosts(kind)
-----------------------------------------------------------------------------
(* Properties *)

UIWaits == Blocked("ui") \/ ui \in {"reply", "call"}

\* The loop waits for a thread that waits, itself or through the UI thread, for
\* the loop.
CircularWait ==
    \E t \in Workers :
        /\ Stopping(t) /\ at[t] # "off"
        /\ \/ Blocked(t) /\ t \in {"monitor", "hotkey"}
           \/ t = "monitor" /\ at[t] = "ask" /\ hide /\ UIWaits

\* The only circular waits are of a thread that found the channel full and of a
\* UI thread that waits for the manager's save: neither a dialog, a reload, an
\* exit nor the monitor's wait for the UI thread makes one by itself.
OnlyKnownCycles == CircularWait => Len(requests) = Capacity \/ ui = "reply"
=============================================================================
