----------------------------- MODULE IdleMonitor -----------------------------
(***************************************************************************)
(* The idle monitor: one goroutine that polls Windows' last-input time,    *)
(* warns WarningOffset before the threshold and acts at the threshold      *)
(* (src/internal/feature/idle/idle.go, poll.go), with the warning window   *)
(* its callbacks show and hide through the tray's UI thread and the        *)
(* restarts of the runtime (startMonitor and stopMonitor in                *)
(* src/internal/app/idle.go).                                              *)
(*                                                                         *)
(* Input may arrive between any two steps of a poll, and a stop may find   *)
(* the goroutine in the middle of one; of its steps only an action takes   *)
(* time.                                                                   *)
(*                                                                         *)
(* Times are in units of the poll interval.  GetTickCount and the time of  *)
(* the last input are Width-bit counters: of both only the age matters,    *)
(* the counter's difference to the present modulo 2^Width.  Windows' own   *)
(* clock and the monotonic clock of time.Since run alike.                  *)
(***************************************************************************)
EXTENDS Integers, Sequences

CONSTANTS
    Threshold, WarningOffset,
    MinInterval, MaxInterval, Tolerance, Required,  \* periodicInput...
    CountCap,      \* bound on periodic.count, which only weighs an average
    Width,         \* bits of a tick
    Gaps,          \* the intervals of a device that sends input of its own
    MaxInputs,     \* bound on the user's inputs
    MaxRestarts,   \* bound on the runtime's restarts and stops
    MaxFaults      \* bound on failed readings, late polls and late UI tasks

Wrap == 2 ^ Width

\* "IdleTrigger's maximum configured timeout is far below the signed tick
\* interval"
ASSUME IdleAssumption ==
    /\ {Threshold, MinInterval, MaxInterval, Width, Required} \subseteq Nat \ {0}
    /\ {WarningOffset, Tolerance, MaxInputs, MaxRestarts, MaxFaults} \subseteq Nat
    /\ CountCap \in Nat /\ CountCap >= Required
    /\ Required <= 3    \* periodicInputRequired: see IgnoredIsPeriodic
    /\ Threshold < Wrap \div 2
    /\ Gaps \subseteq 1..(Wrap \div 2 - 1)

VARIABLES
    pc,            \* the goroutine: "off", "wait", "observe", "sample",
                   \* "evaluate", "hiding" and "acting"
    due,           \* the poll ticker has fired
    stopping,      \* "no", or the stop channel is closed: "stop", "restart"
    enhanced,      \* ignorePeriodic
    age,           \* age of the last input
    seenInput, seenAge,         \* seenInputTick, and the age of lastInputTick
    sinceStart,    \* time since startedAt, at most Threshold
    count, baseline, logical,   \* periodic
    warned, triggered,
    available, idle,            \* the poll's findings, while it lasts
    tasks,         \* the UI thread's tasks: "show", "hide", and "awaited", the
                   \* Hide the goroutine waits for
    screen,        \* the warning window is up
    dismissed,     \* the user closed it and its closure is posted
    device,        \* time until the device's next input, 0: no device
    inputs, restarts, faults,
    quiet,         \* history: time since any input, at most Threshold
    sampledQuiet,  \* history: the same, when idle was sampled
    sinceWindow,   \* history: time since the monitor was started or has acted
    gaps,          \* history: in the enhanced mode, the last Required
                   \* intervals between inputs seen
    raced          \* history: a warning was posted behind a stop's Hide

periodic == <<count, baseline, logical>>
machine  == <<due, age, device, inputs, quiet>>
monitor  == <<enhanced, seenInput, seenAge, sinceStart, periodic, warned, triggered>>
ui       == <<tasks, screen, dismissed, raced>>
idleVars == <<pc, stopping, machine, monitor, available, idle, ui, restarts,
          faults, sampledQuiet, sinceWindow, gaps>>

Capped(n) == IF n > Threshold THEN Threshold ELSE n

Ages == 0..Wrap - 1

IdleTypes ==
    /\ pc \in {"off", "wait", "observe", "sample", "evaluate", "hiding", "acting"}
    /\ due \in BOOLEAN
    /\ stopping \in {"no", "stop", "restart"}
    /\ enhanced \in BOOLEAN
    /\ age \in Ages /\ seenInput \in BOOLEAN /\ seenAge \in Ages
    /\ sinceStart \in 0..Threshold
    /\ count \in 0..CountCap /\ baseline \in 0..MaxInterval
    /\ {logical, warned, triggered, available} \subseteq BOOLEAN
    /\ idle \in 0..Threshold
    /\ tasks \in Seq({"show", "hide", "awaited"})
    /\ {screen, dismissed, raced} \subseteq BOOLEAN
    /\ device \in 0..Wrap
    /\ inputs \in 0..MaxInputs
    /\ restarts \in 0..MaxRestarts /\ faults \in 0..MaxFaults
    /\ {quiet, sampledQuiet, sinceWindow} \subseteq 0..Threshold
    /\ gaps \in Seq(Ages) /\ Len(gaps) <= Required

\* A new Monitor, started
Fresh ==
    /\ pc' = "wait"
    /\ due' = FALSE
    /\ seenInput' = FALSE /\ seenAge' = 0
    /\ sinceStart' = 0
    /\ count' = 0 /\ baseline' = 0 /\ logical' = FALSE
    /\ warned' = FALSE /\ triggered' = FALSE
    /\ sinceWindow' = 0
    /\ gaps' = <<>>

\* The monitor starts on a machine whose user may have been away for long.
IdleInit ==
    /\ pc = "wait"
    /\ due = FALSE
    /\ stopping = "no"
    /\ enhanced \in BOOLEAN
    /\ age = Threshold
    /\ seenInput = FALSE /\ seenAge = 0
    /\ sinceStart = 0
    /\ count = 0 /\ baseline = 0 /\ logical = FALSE
    /\ warned = FALSE /\ triggered = FALSE
    /\ available = FALSE /\ idle = 0
    /\ tasks = <<>>
    /\ screen = FALSE /\ dismissed = FALSE /\ raced = FALSE
    /\ device \in {0} \cup Gaps
    /\ inputs = 0 /\ restarts = 0 /\ faults = 0
    /\ quiet = Threshold /\ sampledQuiet = 0 /\ sinceWindow = 0
    /\ gaps = <<>>

Fault == faults < MaxFaults /\ faults' = faults + 1
-----------------------------------------------------------------------------
(* The machine *)

\* Time goes on by one poll interval, between polls or during an action.  That a
\* tick or a UI task is late by more is a fault.  When the device's time has
\* come, its input makes the age zero again.
Elapse ==
    /\ pc \notin {"observe", "sample", "evaluate"}
    /\ IF tasks # <<>> \/ (due /\ pc # "off") THEN Fault ELSE UNCHANGED faults
    /\ due' = TRUE
    /\ \/ /\ device = 1
          /\ device' \in Gaps
          /\ age' = 0 /\ quiet' = 0
       \/ /\ device # 1
          /\ device' = IF device = 0 THEN 0 ELSE device - 1
          /\ age' = (age + 1) % Wrap /\ quiet' = Capped(quiet + 1)
    /\ seenAge' = IF seenInput THEN (seenAge + 1) % Wrap ELSE seenAge
    /\ sinceStart' = Capped(sinceStart + 1)
    /\ sinceWindow' = Capped(sinceWindow + 1)
    /\ UNCHANGED <<pc, stopping, enhanced, seenInput, periodic, warned, triggered,
                   available, idle, ui, inputs, restarts, sampledQuiet, gaps>>

\* The user's input, or an injected one whose time stamp lies ahead
UserInput(ahead) ==
    /\ inputs < MaxInputs
    /\ inputs' = inputs + 1
    /\ age' = IF ahead THEN Wrap - 1 ELSE 0
    /\ quiet' = 0
    /\ UNCHANGED <<pc, due, stopping, monitor, available, idle, ui, device,
                   restarts, faults, sampledQuiet, sinceWindow, gaps>>
-----------------------------------------------------------------------------
(* One poll *)

\* Mutant: the difference is taken as it is
ElapsedUnsigned(ticks) == ticks % Wrap

\* Mutant: a negative difference is not caught
ElapsedSigned(ticks) ==
    LET delta == ticks % Wrap IN IF delta < Wrap \div 2 THEN delta ELSE delta - Wrap

\* elapsedSinceLastInput: the difference as a signed number, or none
ElapsedTicks(ticks) ==
    LET delta == ticks % Wrap IN IF delta < Wrap \div 2 THEN delta ELSE 0

WarnAt == IF WarningOffset > Threshold THEN 0 ELSE Threshold - WarningOffset

Distance(a, b) == IF a > b THEN a - b ELSE b - a

\* Mutant: an irregular input does not end the pattern
ClassifyLoose(interval) ==
    IF ~enhanced
    THEN [count |-> 0, baseline |-> 0, ignored |-> FALSE]
    ELSE IF interval < MinInterval \/ interval > MaxInterval
    THEN [count |-> count, baseline |-> baseline, ignored |-> FALSE]
    ELSE IF count = 0 \/ Distance(interval, baseline) > Tolerance
    THEN [count |-> 1, baseline |-> interval, ignored |-> FALSE]
    ELSE [count |-> IF count = CountCap THEN count ELSE count + 1,
          baseline |-> (baseline * count + interval) \div (count + 1),
          ignored |-> count + 1 >= Required]

\* classifyInputReset
Classify(interval) ==
    IF ~enhanced
    THEN [count |-> 0, baseline |-> 0, ignored |-> FALSE]
    ELSE IF interval < MinInterval \/ interval > MaxInterval
    THEN [count |-> 0, baseline |-> 0, ignored |-> FALSE]
    ELSE IF count = 0 \/ Distance(interval, baseline) > Tolerance
    THEN [count |-> 1, baseline |-> interval, ignored |-> FALSE]
    ELSE [count |-> IF count = CountCap THEN count ELSE count + 1,
          baseline |-> (baseline * count + interval) \div (count + 1),
          ignored |-> count + 1 >= Required]

\* resetSession
ResetSession ==
    /\ sinceStart' = 0
    /\ warned' = FALSE /\ triggered' = FALSE
    /\ logical' = FALSE

PostTask(task) == tasks' = Append(tasks, task)

\* The ticker's case of the loop's select, which may win over a closed stop
\* channel.
Poll ==
    /\ pc = "wait" /\ due
    /\ pc' = "observe"
    /\ due' = FALSE
    /\ UNCHANGED <<stopping, age, device, inputs, quiet, monitor, available,
                   idle, ui, restarts, faults, sampledQuiet, sinceWindow, gaps>>

\* Mutant: the session is reset before it is asked whether it had warned
ObserveChangeQuietly ==
    LET interval == ElapsedTicks(seenAge - age)
        verdict == Classify(interval)
    IN  /\ seenInput /\ seenAge # age
        /\ count' = verdict.count /\ baseline' = verdict.baseline
        /\ gaps' = IF ~enhanced THEN gaps
                   ELSE IF Len(gaps) = Required THEN Append(Tail(gaps), interval)
                   ELSE Append(gaps, interval)
        /\ IF verdict.ignored
           THEN /\ logical' = TRUE
                /\ pc' = "sample"
                /\ UNCHANGED <<sinceStart, warned, triggered, tasks>>
           ELSE /\ ResetSession
                /\ pc' = "wait"
                /\ IF warned' THEN PostTask("hide") ELSE UNCHANGED tasks
        /\ UNCHANGED faults

\* observeInputTimestamp finds a new time stamp: it is ignored as periodic, or
\* ends the session and the poll with it.
ObserveChange ==
    LET interval == ElapsedTicks(seenAge - age)
        verdict == Classify(interval)
    IN  /\ seenInput /\ seenAge # age
        /\ count' = verdict.count /\ baseline' = verdict.baseline
        /\ gaps' = IF ~enhanced THEN gaps
                   ELSE IF Len(gaps) = Required THEN Append(Tail(gaps), interval)
                   ELSE Append(gaps, interval)
        /\ IF verdict.ignored
           THEN /\ logical' = TRUE
                /\ pc' = "sample"
                /\ UNCHANGED <<sinceStart, warned, triggered, tasks>>
           ELSE /\ ResetSession
                /\ pc' = "wait"
                /\ IF warned THEN PostTask("hide") ELSE UNCHANGED tasks
        /\ UNCHANGED faults

\* The time stamp is the one known, the first, or cannot be read
ObserveSame(readable) ==
    /\ IF readable THEN (seenInput => seenAge = age) /\ UNCHANGED faults ELSE Fault
    /\ pc' = "sample"
    /\ UNCHANGED <<sinceStart, periodic, warned, triggered, tasks, gaps>>

ObserveInput(readable) ==
    /\ pc = "observe"
    /\ IF readable THEN seenInput' = TRUE /\ seenAge' = age
       ELSE UNCHANGED <<seenInput, seenAge>>
    /\ (readable /\ ObserveChange) \/ ObserveSame(readable)
    /\ available' = (readable /\ pc' = "sample")
    /\ UNCHANGED <<due, stopping, enhanced, age, device, inputs, quiet, idle,
                   screen, dismissed, raced, restarts, sampledQuiet, sinceWindow>>

\* Mutant: the idle time may predate the monitor
EffectiveIdleUnclamped ==
    IF logical /\ enhanced THEN sinceStart ELSE Capped(ElapsedTicks(age))

\* sample's idle time, within the monitor's own window
EffectiveIdle ==
    LET raw == Capped(ElapsedTicks(age))
    IN  IF (logical /\ enhanced) \/ raw > sinceStart THEN sinceStart ELSE raw

Sample(readable) ==
    /\ pc = "sample"
    /\ IF readable
       THEN /\ idle' = EffectiveIdle
            /\ sampledQuiet' = quiet
            /\ pc' = "evaluate"
            /\ UNCHANGED <<available, faults>>
       ELSE /\ Fault
            /\ pc' = "wait"
            /\ available' = FALSE
            /\ UNCHANGED <<idle, sampledQuiet>>
    /\ UNCHANGED <<stopping, machine, monitor, ui, restarts, sinceWindow, gaps>>

\* onWarning
Warn ==
    /\ idle >= WarnAt /\ idle < Threshold
    /\ warned' = TRUE
    /\ IF warned THEN UNCHANGED <<tasks, raced>>
       ELSE PostTask("show") /\ raced' = (stopping # "no")
    /\ pc' = "wait"
    /\ UNCHANGED triggered

\* onTrigger begins: the window must be gone before the action
Trigger ==
    /\ idle >= Threshold
    /\ triggered' = TRUE
    /\ IF triggered THEN pc' = "wait" /\ UNCHANGED tasks
       ELSE pc' = "hiding" /\ PostTask("awaited")
    /\ UNCHANGED <<warned, raced>>

\* The rest of the session, which an unreadable time stamp ends by itself
Resume ==
    /\ idle < WarnAt
    /\ pc' = "wait"
    /\ IF available THEN UNCHANGED <<warned, triggered, tasks>>
       ELSE /\ warned' = FALSE /\ triggered' = FALSE
            /\ IF warned THEN PostTask("hide") ELSE UNCHANGED tasks
    /\ UNCHANGED raced

\* evaluateSample
Evaluate ==
    /\ pc = "evaluate"
    /\ Warn \/ Trigger \/ Resume
    /\ available' = FALSE /\ idle' = 0
    /\ sampledQuiet' = IF pc' = "hiding" THEN sampledQuiet ELSE 0
    /\ UNCHANGED <<stopping, machine, enhanced, seenInput, seenAge, sinceStart,
                   periodic, screen, dismissed, restarts, faults,
                   sinceWindow, gaps>>

\* PostAndWait(idlewarning.Hide) returns once that Hide has run, whatever was
\* posted behind it, and the action is carried out
BeginAction ==
    /\ pc = "hiding" /\ \A i \in DOMAIN tasks : tasks[i] # "awaited"
    /\ pc' = "acting"
    /\ UNCHANGED <<stopping, machine, monitor, available, idle, ui, restarts,
                   faults, sampledQuiet, sinceWindow, gaps>>

\* Mutant: the session goes on after the action
EndActionOnly ==
    /\ pc = "acting"
    /\ pc' = "wait"
    /\ sinceWindow' = 0 /\ sampledQuiet' = 0
    /\ UNCHANGED <<stopping, machine, monitor, available, idle, ui, restarts,
                   faults, gaps>>

\* The action is over: a fresh timeout window
EndAction ==
    /\ pc = "acting"
    /\ pc' = "wait"
    /\ ResetSession
    /\ sinceWindow' = 0 /\ sampledQuiet' = 0
    /\ UNCHANGED <<stopping, machine, enhanced, seenInput, seenAge, count, baseline,
                   available, idle, ui, restarts, faults, gaps>>

\* The stop channel's case of the loop's select
Leave ==
    /\ pc = "wait" /\ stopping # "no"
    /\ pc' = "off"
    /\ UNCHANGED <<stopping, machine, monitor, available, idle, ui, restarts,
                   faults, sampledQuiet, sinceWindow, gaps>>
-----------------------------------------------------------------------------
(* The runtime and the UI thread *)

\* stopMonitor, by a change of what the runtime wants or, through onDismiss's
\* closure, by the user: the window is told to go, then the monitor to stop.
Stop(how) ==
    /\ pc # "off" /\ stopping = "no"
    /\ IF dismissed
       THEN how = "restart" /\ UNCHANGED restarts
       ELSE restarts < MaxRestarts /\ restarts' = restarts + 1
    /\ stopping' = how
    /\ dismissed' = FALSE
    /\ PostTask("hide")
    /\ UNCHANGED <<pc, machine, monitor, available, idle, screen, raced,
                   faults, sampledQuiet, sinceWindow, gaps>>

\* Stop returns and startMonitor goes on
Start ==
    /\ pc = "off" /\ stopping = "restart"
    /\ stopping' = "no"
    /\ Fresh
    /\ UNCHANGED <<enhanced, age, device, inputs, quiet, available, idle, ui,
                   restarts, faults, sampledQuiet>>

\* Hide, or showNow, whose window may not come about
UITask ==
    /\ tasks # <<>>
    /\ \/ screen' = (Head(tasks) = "show") /\ UNCHANGED faults
       \/ Head(tasks) = "show" /\ screen' = FALSE
          /\ faults < MaxFaults /\ faults' = faults + 1
    /\ tasks' = Tail(tasks)
    /\ UNCHANGED <<pc, stopping, machine, monitor, available, idle, dismissed,
                   raced, restarts, sampledQuiet, sinceWindow, gaps>>

\* The user closes the window; while the monitor stops nobody is told
Dismiss ==
    /\ screen /\ inputs < MaxInputs
    /\ screen' = FALSE
    /\ dismissed' = (stopping = "no")
    /\ inputs' = inputs + 1
    /\ age' = 0 /\ quiet' = 0
    /\ UNCHANGED <<pc, due, stopping, monitor, available, idle, tasks, raced,
                   device, restarts, faults, sampledQuiet, sinceWindow, gaps>>
-----------------------------------------------------------------------------
Loop ==
    \/ Poll
    \/ \E readable \in BOOLEAN : ObserveInput(readable) \/ Sample(readable)
    \/ Evaluate \/ BeginAction \/ EndAction \/ Leave

IdleNext ==
    \/ Elapse
    \/ \E ahead \in BOOLEAN : UserInput(ahead)
    \/ Loop
    \/ \E how \in {"stop", "restart"} : Stop(how)
    \/ Start
    \/ UITask
    \/ Dismiss

\* Time, the goroutine, the UI thread and a request loop that has a closure to
\* run or a stop to wait for keep going; the user need do nothing.
IdleSpec == IdleInit /\ [][IdleNext]_idleVars
    /\ WF_idleVars(Elapse) /\ WF_idleVars(Loop) /\ WF_idleVars(UITask)
    /\ WF_idleVars(Start \/ (dismissed /\ Stop("restart")))
-----------------------------------------------------------------------------
(* Properties *)

Acts == pc \in {"hiding", "acting"}

\* The action is taken only after a whole Threshold since the monitor was
\* started or has last acted: it never acts on idle time of before.
FreshWindow == pc = "hiding" => sinceWindow = Threshold

\* In the standard mode the action is taken only if the user really gave no
\* input for a whole Threshold, with time stamps wrapping, lying ahead or
\* unreadable and input arriving at any point of a poll.
ActsWhenIdle == Acts /\ ~enhanced => sampledQuiet = Threshold

\* Input is passed over as periodic only in the enhanced mode and when the last
\* Required intervals all lie in the periodic window and near each other.  Each
\* is near the average of those before it, rounded down, which follows them: of
\* more than three intervals the first and the last might be further apart.
Spread == IF Tolerance = 0 THEN 0 ELSE 2 * Tolerance + 1

IgnoredIsPeriodic ==
    logical =>
        /\ enhanced
        /\ Len(gaps) = Required
        /\ \A i, j \in DOMAIN gaps :
              /\ gaps[i] \in MinInterval..MaxInterval
              /\ Distance(gaps[i], gaps[j]) <= Spread

\* The state is well typed, and the action is taken on real idleness of the
\* current window only, device input excepted.
ActsOnIdleness == IdleTypes /\ FreshWindow /\ ActsWhenIdle /\ IgnoredIsPeriodic

\* Once the UI thread has caught up, a warning on the screen belongs to a
\* session that warned and is still going on, unless a poll of the stopped
\* monitor overtook the Hide.
WarningIsLiveUnlessRaced ==
    screen /\ tasks = <<>> /\ ~dismissed /\ ~raced => warned /\ pc # "off"

\* The monitor keeps acting while nobody is there, and in the enhanced mode a
\* device whose input comes at regular intervals does not keep it from that.
KeepsActing ==
    enhanced \/ device = 0 => []<>(pc = "acting" \/ stopping = "stop")
=============================================================================
