-------------------------- MODULE AutomationEvents --------------------------
(***************************************************************************)
(* What becomes of the events the automation runner hands over: the queue  *)
(* and the warning of runtimeState (src/internal/app/automation.go) and    *)
(* the countdown window (src/internal/ui/actionwarning/actionwarning.go).  *)
(*                                                                         *)
(* Three kinds of threads take part.  The request loop runs the closures   *)
(* posted to requestCh, one at a time and in order; the tray's UI thread   *)
(* runs the tasks posted to it, in order, and the window's messages; and   *)
(* every warning has a countdown goroutine of its own, which nothing stops *)
(* when its window goes.  A closure or a task is one step: it shares its   *)
(* thread's state with nobody.                                             *)
(*                                                                         *)
(* An event stands for one occurrence of one rule, so the sequence number  *)
(* of a warning and its event name each other.  Window texts are left out, *)
(* and with them the countdown's ticks that only change the text.  The     *)
(* request channel's capacity is not modelled here.                        *)
(***************************************************************************)
EXTENDS Integers, Sequences

CONSTANTS
    Events,        \* the occurrences that come due
    Once,          \* those of one-time rules
    Seconds,       \* event -> length of its countdown
    MaxInterrupts, \* bound on rule changes, reloads and language switches
    MaxFaults      \* bound on windows that fail and on failed saves

ASSUME EventsAssumption ==
    /\ Once \subseteq Events /\ Seconds \in [Events -> Nat]
    /\ MaxInterrupts \in Nat /\ MaxFaults \in Nat

None == [event |-> {}, generation |-> 0]

VARIABLES
    generation,    \* automationGeneration
    runner,        \* a runner of this generation is up
    queue,         \* automationEvents
    open,          \* automationWarningOpen
    enabled,       \* the one-time rules still enabled, in memory and on disk
    requests,      \* requestCh
    tasks,         \* the UI thread's tasks
    window,        \* the active window's warning or None
    countdown,     \* event -> seconds left, -1: never shown
    exiting,
    interrupts, faults,
    fate,          \* history: what became of the event
    executions,    \* history: how often its action was carried out
    answer,        \* history: how its window was answered
    lost           \* history: a window went without an answer or a restart

thread == <<generation, runner, queue, open, enabled>>
vars == <<thread, requests, tasks, window, countdown, exiting,
          interrupts, faults, fate, executions, answer, lost>>

\* The seconds a countdown takes; one of none is over at once, as after a last
\* tick.
Length(e) == IF Seconds[e] = 0 THEN 1 ELSE Seconds[e]

Final == {"cancelled", "executed", "cleared", "dropped"}

\* The closures of the request loop and the tasks of the UI thread
Closures ==
    [kind: {"event", "cancel", "execute"}, event: Events, generation: Nat]
        \cup [kind: {"restart"}, enable: BOOLEAN]
        \cup [kind: {"language", "shutdown"}]
Tasks ==
    [kind: {"show"}, event: Events, generation: Nat]
        \cup [kind: {"complete"}, event: Events] \cup [kind: {"hide"}]

StateOK ==
    /\ generation \in Nat
    /\ runner \in BOOLEAN
    /\ queue \in Seq(Events)
    /\ open \in BOOLEAN
    /\ enabled \subseteq Once
    /\ requests \in Seq(Closures)
    /\ tasks \in Seq(Tasks)
    /\ window \in [event: Events, generation: Nat] \cup {None}
    /\ \A e \in Events : countdown[e] \in -1..Length(e)
    /\ exiting \in BOOLEAN
    /\ interrupts \in 0..MaxInterrupts
    /\ faults \in 0..MaxFaults
    /\ fate \in [Events -> {"none", "posted", "queued", "warned"} \cup Final]
    /\ answer \in [Events -> {"none", "cancelled", "confirmed", "elapsed"}]
    /\ lost \in BOOLEAN

TypeOK == StateOK /\ executions \in [Events -> Nat]

Init ==
    /\ generation = 1
    /\ runner = TRUE
    /\ queue = <<>>
    /\ open = FALSE
    /\ enabled = Once
    /\ requests = <<>> /\ tasks = <<>>
    /\ window = None
    /\ countdown = [e \in Events |-> -1]
    /\ exiting = FALSE
    /\ interrupts = 0 /\ faults = 0
    /\ fate = [e \in Events |-> "none"]
    /\ executions = [e \in Events |-> 0]
    /\ answer = [e \in Events |-> "none"]
    /\ lost = FALSE

Post(closure) == requests' = Append(requests, closure)

Fault == faults < MaxFaults /\ faults' = faults + 1

\* Events with one of these fates get the new one
Turn(old, new) ==
    fate' = [e \in Events |-> IF fate[e] \in old THEN new ELSE fate[e]]
-----------------------------------------------------------------------------
(* Those who post closures *)

\* OnEvent: the runner never hands an occurrence over twice (AutoRules).
RunnerEvent(e) ==
    /\ runner /\ fate[e] = "none"
    /\ Post([kind |-> "event", event |-> e, generation |-> generation])
    /\ fate' = [fate EXCEPT ![e] = "posted"]
    /\ UNCHANGED <<thread, tasks, window, countdown, exiting, interrupts, faults,
                   executions, answer, lost>>

\* The manager saves rules, the panel turns automation on or off, or the
\* configuration is reloaded.
PostRestart(enable) ==
    /\ ~exiting /\ interrupts < MaxInterrupts
    /\ interrupts' = interrupts + 1
    /\ Post([kind |-> "restart", enable |-> enable])
    /\ UNCHANGED <<thread, tasks, window, countdown, exiting, faults, fate,
                   executions, answer, lost>>

PostLanguage ==
    /\ ~exiting /\ interrupts < MaxInterrupts
    /\ interrupts' = interrupts + 1
    /\ Post([kind |-> "language"])
    /\ UNCHANGED <<thread, tasks, window, countdown, exiting, faults, fate,
                   executions, answer, lost>>
-----------------------------------------------------------------------------
(* The request loop *)

\* Mutant: a countdown has a tick too many
ShowNextLate(pending) ==
    IF pending = <<>>
    THEN /\ queue' = pending /\ open' = FALSE
         /\ UNCHANGED <<tasks, countdown>>
    ELSE LET e == Head(pending)
         IN  /\ queue' = Tail(pending)
             /\ open' = TRUE
             /\ tasks' = Append(tasks, [kind |-> "show", event |-> e,
                                        generation |-> generation])
             /\ countdown' = [countdown EXCEPT ![e] = Length(e) + 1]

\* showNextAutomationEvent with `pending` as the queue, while no warning is
\* outstanding: Show posts the window's task and starts the countdown.
ShowNext(pending) ==
    IF pending = <<>>
    THEN /\ queue' = pending /\ open' = FALSE
         /\ UNCHANGED <<tasks, countdown>>
    ELSE LET e == Head(pending)
         IN  /\ queue' = Tail(pending)
             /\ open' = TRUE
             /\ tasks' = Append(tasks, [kind |-> "show", event |-> e,
                                        generation |-> generation])
             /\ countdown' = [countdown EXCEPT ![e] = Length(e)]

\* enqueueAutomationEvent, if the closure is of this generation
RunEvent(c) ==
    /\ c.kind = "event"
    /\ IF c.generation = generation /\ ~exiting
       THEN IF open
            THEN /\ queue' = Append(queue, c.event)
                 /\ fate' = [fate EXCEPT ![c.event] = "queued"]
                 /\ UNCHANGED <<open, tasks, countdown>>
            ELSE LET pending == Append(queue, c.event)
                 IN  /\ ShowNext(pending)
                     /\ fate' = [fate EXCEPT ![c.event] = "queued",
                                             ![Head(pending)] = "warned"]
       ELSE /\ fate' = [fate EXCEPT ![c.event] = "dropped"]
            /\ UNCHANGED <<queue, open, tasks, countdown>>
    /\ UNCHANGED <<generation, runner, enabled, faults, executions>>

\* Mutant: a warning of an earlier generation is accepted
AcceptsAnyGeneration(c) == ~exiting /\ open

\* acceptAutomationWarning
Accepts(c) == ~exiting /\ c.generation = generation /\ open

\* finishOneTimeRule: the rule is switched off, or back on if that cannot be
\* saved.
FinishOneTimeRule(e) ==
    \/ enabled' = enabled \ {e} /\ UNCHANGED faults
    \/ e \in enabled /\ Fault /\ UNCHANGED enabled

\* An answer that came too late
Ignore(c) ==
    /\ ~Accepts(c)
    /\ UNCHANGED <<queue, open, tasks, countdown, enabled, faults, fate, executions>>

\* Mutant: after a cancellation nothing is shown
RunCancelSilently(c) ==
    /\ c.kind = "cancel"
    /\ \/ Ignore(c)
       \/ /\ Accepts(c)
          /\ FinishOneTimeRule(c.event)
          /\ open' = FALSE
          /\ fate' = [fate EXCEPT ![c.event] = "cancelled"]
          /\ UNCHANGED <<queue, tasks, countdown, executions>>
    /\ UNCHANGED <<generation, runner>>

\* The closure of OnCancel
RunCancel(c) ==
    /\ c.kind = "cancel"
    /\ \/ Ignore(c)
       \/ /\ Accepts(c)
          /\ FinishOneTimeRule(c.event)
          /\ ShowNext(queue)
          /\ fate' = [e \in Events |->
                 IF e = c.event THEN "cancelled"
                 ELSE IF queue # <<>> /\ e = Head(queue) THEN "warned"
                 ELSE fate[e]]
          /\ UNCHANGED executions
    /\ UNCHANGED <<generation, runner>>

Execute(c, remaining) ==
    /\ c.kind = "execute"
    /\ \/ Ignore(c)
       \/ /\ Accepts(c)
          /\ FinishOneTimeRule(c.event)
          /\ open' = FALSE
          /\ queue' = remaining
          /\ executions' = [executions EXCEPT ![c.event] = @ + 1]
          /\ fate' = [e \in Events |->
                 IF e = c.event THEN "executed"
                 ELSE IF fate[e] = "queued" THEN "cleared" ELSE fate[e]]
          /\ UNCHANGED <<tasks, countdown>>
    /\ UNCHANGED <<generation, runner>>

\* The closure of OnExecute: the action is carried out and what waited behind
\* it is cleared.
RunExecute(c) == Execute(c, <<>>)

\* Mutant: the window of the stopped generation is left open
StopAutomationLeaving(up) ==
    /\ generation' = generation + 1
    /\ runner' = up
    /\ queue' = <<>> /\ open' = FALSE
    /\ Turn({"queued", "warned"}, "dropped")
    /\ UNCHANGED <<tasks, countdown, enabled, faults, executions>>

\* stopAutomation, and the new runner's start if there is one.  A task posted
\* to a closing tray is refused.
StopAutomation(up) ==
    /\ generation' = generation + 1
    /\ runner' = up
    /\ queue' = <<>> /\ open' = FALSE
    /\ tasks' = IF exiting THEN tasks ELSE Append(tasks, [kind |-> "hide"])
    /\ Turn({"queued", "warned"}, "dropped")
    /\ UNCHANGED <<countdown, enabled, faults, executions>>

RunRestart(c) == c.kind = "restart" /\ StopAutomation(c.enable)

\* onExit's closure
RunShutdown(c) == c.kind = "shutdown" /\ StopAutomation(FALSE)

\* switchLanguage: the window is closed and nothing else happens to automation
RunLanguage(c) ==
    /\ c.kind = "language"
    /\ tasks' = IF exiting THEN tasks ELSE Append(tasks, [kind |-> "hide"])
    /\ UNCHANGED <<thread, countdown, faults, fate, executions>>

RequestLoop ==
    /\ requests # <<>>
    /\ requests' = Tail(requests)
    /\ LET c == Head(requests)
       IN  \/ RunEvent(c) \/ RunCancel(c) \/ RunExecute(c)
           \/ RunRestart(c) \/ RunLanguage(c) \/ RunShutdown(c)
    /\ UNCHANGED <<window, exiting, interrupts, answer, lost>>
-----------------------------------------------------------------------------
(* The UI thread and the countdowns *)

\* Whether the window that is up still has an answer to give
Outstanding == window # None /\ window.generation = generation /\ open

\* showNow: the new window replaces one that is up, or cannot be made
RunShow(t) ==
    /\ t.kind = "show"
    /\ \/ /\ window' = [event |-> t.event, generation |-> t.generation]
          /\ UNCHANGED <<faults, lost>>
       \/ Fault /\ window' = None /\ lost' = TRUE
    /\ UNCHANGED <<requests, answer>>

\* hideNow, from Hide
RunHide(t) ==
    /\ t.kind = "hide"
    /\ window' = None
    /\ lost' = (lost \/ Outstanding)
    /\ UNCHANGED <<requests, answer, faults>>

\* Mutant: the window stays up and may be answered again
CompleteLeaving(kind, how) ==
    /\ answer' = [answer EXCEPT ![window.event] = how]
    /\ Post([kind |-> kind, event |-> window.event,
             generation |-> window.generation])
    /\ UNCHANGED <<window, faults, lost>>

\* complete: the window goes and its callback posts the answer
Complete(kind, how) ==
    /\ window' = None
    /\ answer' = [answer EXCEPT ![window.event] = how]
    /\ Post([kind |-> kind, event |-> window.event,
             generation |-> window.generation])
    /\ UNCHANGED <<faults, lost>>

\* Mutant: the end of any countdown answers the window that is up
RunCompleteAny(t) ==
    /\ t.kind = "complete"
    /\ IF window # None THEN Complete("execute", "elapsed")
       ELSE UNCHANGED <<window, requests, answer, faults, lost>>

\* complete(seq, true), posted by a countdown that may be of an earlier window
RunComplete(t) ==
    /\ t.kind = "complete"
    /\ IF window # None /\ window.event = t.event
       THEN Complete("execute", "elapsed")
       ELSE UNCHANGED <<window, requests, answer, faults, lost>>

UITask ==
    /\ tasks # <<>> /\ ~exiting
    /\ tasks' = Tail(tasks)
    /\ LET t == Head(tasks) IN RunShow(t) \/ RunHide(t) \/ RunComplete(t)
    /\ UNCHANGED <<thread, countdown, exiting, interrupts, fate, executions>>

\* wndProc: a button or the close box
Click(execute) ==
    /\ window # None /\ ~exiting
    /\ IF execute THEN Complete("execute", "confirmed")
       ELSE Complete("cancel", "cancelled")
    /\ UNCHANGED <<thread, tasks, countdown, exiting, interrupts, fate, executions>>

\* WM_DPICHANGED whose frame cannot be committed closes the window
DpiFailure ==
    /\ window # None /\ ~exiting
    /\ Fault
    /\ window' = None
    /\ lost' = (lost \/ Outstanding)
    /\ UNCHANGED <<thread, requests, tasks, countdown, exiting, interrupts, fate,
                   executions, answer>>

\* Show's goroutine, once a second; its last tick posts complete
CountdownTick(e) ==
    /\ countdown[e] > 0 /\ ~exiting
    /\ countdown' = [countdown EXCEPT ![e] = @ - 1]
    /\ tasks' = IF countdown[e] = 1
                THEN Append(tasks, [kind |-> "complete", event |-> e])
                ELSE tasks
    /\ UNCHANGED <<thread, requests, window, exiting, interrupts,
                   faults, fate, executions, answer, lost>>

\* The tray shuts down: its tasks are discarded, and onExit posts the rest
Exit ==
    /\ ~exiting
    /\ exiting' = TRUE
    /\ tasks' = <<>>
    /\ Post([kind |-> "shutdown"])
    /\ UNCHANGED <<thread, window, countdown, interrupts, faults,
                   fate, executions, answer, lost>>
-----------------------------------------------------------------------------
Countdowns == \E e \in Events : CountdownTick(e)

Next ==
    \/ \E e \in Events : RunnerEvent(e)
    \/ \E enable \in BOOLEAN : PostRestart(enable)
    \/ PostLanguage
    \/ RequestLoop
    \/ UITask
    \/ \E execute \in BOOLEAN : Click(execute)
    \/ DpiFailure
    \/ Countdowns
    \/ Exit

\* The two loops and the tickers keep running; nobody has to click.
Spec == Init /\ [][Next]_vars /\ WF_vars(RequestLoop) /\ WF_vars(UITask)
             /\ WF_vars(Countdowns)
-----------------------------------------------------------------------------
(* Properties *)

\* Events wait only behind a warning that is outstanding: whatever ends one
\* warning either shows the next event or leaves none.
QueueWaitsForOne == queue # <<>> => open

\* A warning whose answer nobody gave was up for its whole countdown: the
\* ticker of an earlier warning, which outlives its window, never answers a
\* later one.
OwnCountdown == \A e \in Events : answer[e] = "elapsed" => countdown[e] = 0

\* What was decided of an event stays decided: the action of a cancelled,
\* cleared or dropped one is not carried out any more, that of an executed one
\* not again, and none is warned of anew, however late the answer of a window
\* arrives and whatever restarts in between.
FatesAreFinal ==
    [][\A e \in Events :
          /\ fate[e] \in Final =>
                fate'[e] = fate[e] /\ executions'[e] = executions[e]
          /\ executions'[e] # executions[e] =>
                fate'[e] = "executed" /\ executions'[e] = executions[e] + 1]_vars

\* A window on the screen is the outstanding warning of the live generation,
\* or about to be closed.
WindowBelongs ==
    window # None /\ ~exiting =>
        \/ Outstanding /\ fate[window.event] = "warned"
        \/ \E i \in DOMAIN tasks : tasks[i].kind = "hide"

\* The state is well typed, and the queue, the countdowns and the window on the
\* screen agree on which warning is outstanding.
WarningsAreSound == TypeOK /\ QueueWaitsForOne /\ OwnCountdown /\ WindowBelongs

\* An event that was accepted is settled in the end, as long as no window was
\* lost without an answer.
EventSettled ==
    \A e \in Events :
        fate[e] \in {"queued", "warned"} ~> fate[e] \in Final \/ exiting \/ lost

=============================================================================
