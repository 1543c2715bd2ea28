------------------------------ MODULE AutoRules ------------------------------
(***************************************************************************)
(* The automation runner: one goroutine that wakes every second, scans the *)
(* process table every ScanInterval, smooths short absences, evaluates the *)
(* rules and hands events to the application, checkpointing each consumed  *)
(* occurrence in a state file so that a restart does not repeat it         *)
(* (src/internal/feature/autorules/runner.go, automation/statefile.go).    *)
(*                                                                         *)
(* A step is split where a stop, an exit or a crash can separate its       *)
(* effects: after the scan, between two rules, and between the checkpoint  *)
(* of an occurrence and the delivery of its event.                         *)
(*                                                                         *)
(* Times.  The runner's deadlines (scan interval, exit grace, pending wait)*)
(* use Go's monotonic clock and are kept as ages; schedules use the wall   *)
(* clock, which sleep, resume and clock changes move independently.  A     *)
(* calendar of Days days of DayLength units stands for it and ends at      *)
(* LastTime.  A rule's once, daily or weekly calendar is the set of its    *)
(* dates; process instance counts are kept as "more than none".  Which     *)
(* rules are enabled, and how time passes, is the setup a runner lives in. *)
(***************************************************************************)
EXTENDS Integers, FiniteSets, FiniteSetsExt

CONSTANTS
    Procs,         \* the process targets
    Rules,         \* the rules
    Trigger,       \* rule -> "started", "exited", "schedule", "running" or
                   \* "window"
    Targets,       \* rule -> its processes
    Logic,         \* rule -> "any", "all" or "none"
    Dates,         \* rule -> the dates it is due on or its window begins on
    At,            \* rule -> its time of day
    Until,         \* window rule -> the time of day its window ends
    Waits,         \* the rules with BlockedWait and a maximum wait
    ScanInterval, ExitGrace, DueGrace, MaxWait,
    Days, DayLength,
    Setups,        \* [rules: the enabled ones, elapsed: the <<monotonic,
                   \* wall>> time that may pass between two steps]
    MaxHalts,      \* bound on stops, exits and crashes
    MaxFaults      \* bound on failed scans, checkpoints and loads

ASSUME TimesAssumption ==
    /\ {ScanInterval, ExitGrace, DueGrace, MaxWait, Days, DayLength}
         \subseteq Nat \ {0}
    /\ \A s \in Setups : /\ s.rules \subseteq Rules
                          /\ s.elapsed \subseteq (Nat \ {0}) \X Int
ASSUME BoundsAssumption == MaxHalts \in Nat /\ MaxFaults \in Nat
ASSUME RulesAssumption ==
    /\ Trigger \in [Rules -> {"started", "exited", "schedule", "running",
                              "window"}]
    /\ Targets \in [Rules -> SUBSET Procs]
    /\ Logic \in [Rules -> {"any", "all", "none"}]
    /\ Dates \in [Rules -> SUBSET (0..Days)]
    /\ {At, Until} \subseteq [Rules -> 0..DayLength - 1]
    /\ Waits \subseteq Rules

\* Event rules and state rules (automation.IsEventAction, IsStateAction)
EventRules == {r \in Rules : Trigger[r] \notin {"running", "window"}}
StateRules == Rules \ EventRules
ScheduledRules == {r \in Rules : Trigger[r] = "schedule"}
ProcessRules == EventRules \ ScheduledRules
\* The processes whose exit some rule waits for
Watched == UNION {Targets[r] : r \in {x \in Rules : Trigger[x] = "exited"}}

NoDate  == 0           \* the rule never had an occurrence
Instant == Days + 1    \* a process event's time stamp, never compared
Occurrences == NoDate..Instant
LastTime == Days * DayLength - 1
Never    == LastTime + 1

NoEvent == [rule |-> {}, occurrence |-> NoDate]

VARIABLES
    setup,      \* the enabled rules and the passing of time
    pc,         \* "off", "start" or "tick" (a step is due), "wait", and the
                \* two loops of evaluateEvents, "pending" and "rules"
    todo,       \* the entries the current loop has still to visit
    firing,     \* an occurrence checkpointed, its event not yet delivered
    counts,     \* loopState.counts, and lastCounts: targets taken to be
                \* running, which are those seen and not yet given up
    absentAge,  \* loopState.absentSince as an age, -1: not set
    known,      \* loopState.processKnown
    previous,   \* loopState.previousRunning: "unset", "absent", "running"
    pendingFor, \* loopState.pending: the waiting occurrence or NoDate
    pendingAge, \* how long it has been waiting
    scanAge,    \* time since lastProcessScan
    effective,  \* the state rules in the last state handed to OnState
    next,       \* its NextOccurrence
    lastOcc,    \* Runner.lastOccurrences
    disk,       \* the state file
    present,    \* the processes that really run
    wall,       \* the wall clock
    halts, faults,
    delivered,  \* history: how often an occurrence reached the application
    dropped,    \* history: occurrences given up as blocked or expired
    observed,   \* history: the last two scans, per process rule
    gone,       \* history: time since the first scan that missed the process,
                \* -1: the last one saw it
    consumed,   \* history: the last occurrence that was consumed
    repeated,   \* history: an occurrence was consumed twice in a row
    unsaved,    \* history: the last checkpoint could not be written
    lost,       \* history: a halt or a load lost a checkpoint
    rewound     \* history: the clock was set back to an earlier date

clock == <<wall, rewound>>
ledger == <<consumed, repeated>>
loopState == <<counts, absentAge, known, previous, pendingFor,
               pendingAge, scanAge, effective, next, observed, gone>>
vars == <<setup, pc, todo, firing, loopState, lastOcc, disk, present, clock,
          halts, faults, delivered, dropped, ledger, unsaved, lost>>

Min2(n, top) == IF n > top THEN top ELSE n

Seen == {"unset", "absent", "running"}

\* collectTargets: the processes the enabled rules name
Scanned == UNION {Targets[r] : r \in setup.rules}

StateOK ==
    /\ setup \in Setups
    /\ pc \in {"off", "start", "tick", "wait", "pending", "rules"}
    /\ todo \subseteq EventRules
    /\ firing \in [rule: EventRules, occurrence: Occurrences \ {NoDate}]
                    \cup {NoEvent}
    /\ counts \subseteq Procs
    /\ absentAge \in [Procs -> -1..ExitGrace]
    /\ known \in BOOLEAN
    /\ previous \in [ProcessRules -> Seen]
    /\ pendingFor \in [ScheduledRules -> NoDate..Days]
    /\ pendingAge \in [ScheduledRules -> 0..MaxWait]
    /\ lastOcc \in [EventRules -> Occurrences]
    /\ disk \in [EventRules -> Occurrences]
    /\ scanAge \in 0..ScanInterval
    /\ effective \subseteq StateRules
    /\ next \in 0..Never
    /\ present \subseteq Procs
    /\ wall \in 0..LastTime
    /\ halts \in 0..MaxHalts /\ faults \in 0..MaxFaults
    /\ delivered \in [ScheduledRules \X (1..Days) -> 0..2]
    /\ dropped \subseteq ScheduledRules \X (1..Days)
    /\ observed \in [ProcessRules -> [before: Seen \cup {"unknown"},
                                 now: Seen \cup {"unknown"}]]
    /\ gone \in [Watched -> -1..ExitGrace]
    /\ {unsaved, lost, rewound} \subseteq BOOLEAN

LedgerOK == consumed \in [ScheduledRules -> NoDate..Days] /\ repeated \in BOOLEAN

TypeOK == StateOK /\ LedgerOK
-----------------------------------------------------------------------------
(* Pure functions *)

\* anyTargetRunning
AnyRunning(r, running) == Targets[r] \cap running # {}

\* processCondition: a rule without processes is never blocked
Condition(r, running) ==
    \/ Targets[r] = {}
    \/ Logic[r] = "any" /\ AnyRunning(r, running)
    \/ Logic[r] = "all" /\ Targets[r] \subseteq running
    \/ Logic[r] = "none" /\ ~AnyRunning(r, running)

DateOf(time) == (time \div DayLength) + 1

\* scheduledOccurrence: the candidate is on the current date, so a due window
\* never reaches past midnight.
Due(r, time) ==
    LET candidate == (DateOf(time) - 1) * DayLength + At[r]
    IN  /\ Trigger[r] = "schedule"
        /\ DateOf(time) \in Dates[r]
        /\ candidate <= time
        /\ time < candidate + DueGrace

\* Mutant: a window past midnight belongs to the date that it ends on
WithinOneDate(r, time) ==
    LET minute == time % DayLength
    IN  /\ DateOf(time) \in Dates[r]
        /\ \/ At[r] = Until[r]
           \/ At[r] < Until[r] /\ minute \in At[r]..(Until[r] - 1)
           \/ At[r] > Until[r] /\ (minute >= At[r] \/ minute < Until[r])

\* withinWindow: one whose end is not after its start goes on past midnight
Within(r, time) ==
    LET minute == time % DayLength
        today == DateOf(time) \in Dates[r]
    IN  \/ At[r] = Until[r] /\ today
        \/ At[r] < Until[r] /\ minute \in At[r]..(Until[r] - 1) /\ today
        \/ At[r] > Until[r] /\ minute >= At[r] /\ today
        \/ At[r] > Until[r] /\ minute < Until[r] /\ DateOf(time) - 1 \in Dates[r]

\* stateRuleActive
Active(r, time, running) ==
    /\ Trigger[r] = "window" => Within(r, time)
    /\ Condition(r, running)

\* Mutant: the candidates of the current date are passed over
NextAfterToday(time) ==
    LET dates == {x \in (ScheduledRules \cap setup.rules) \X (1..Days) :
                      x[2] \in Dates[x[1]] /\ x[2] > DateOf(time)}
    IN  Min({(x[2] - 1) * DayLength + At[x[1]] : x \in dates} \cup {Never})

\* nextScheduled: the first candidate after now of any enabled rule
NextScheduled(time) ==
    LET dates == {x \in (ScheduledRules \cap setup.rules) \X (1..Days) :
                      x[2] \in Dates[x[1]]}
        candidates == {(x[2] - 1) * DayLength + At[x[1]] : x \in dates}
    IN  Min({c \in candidates : c > time} \cup {Never})

\* Mutant: an absent process is given up at the first scan that misses it
GivenUpAtOnce(p, running) == p \in counts \ running

\* stabilizeCounts: an absent target counts as running until it has been
\* missed for ExitGrace.
GivenUp(p, running) ==
    p \in counts \ running /\ absentAge[p] >= ExitGrace

Stable(running) ==
    {p \in running \cup counts : ~GivenUp(p, running)}

\* The wall clock goes on by w units, or back, within the calendar
Elapse(w) ==
    /\ wall' = IF wall + w > LastTime THEN LastTime
               ELSE IF wall + w < 0 THEN 0 ELSE wall + w
    /\ rewound' = (rewound \/ DateOf(wall') < DateOf(wall))

\* One of the bounded failures happens
Fault == faults < MaxFaults /\ faults' = faults + 1
-----------------------------------------------------------------------------
(* Starting and stopping *)

Init ==
    /\ setup \in Setups
    /\ pc = "off"
    /\ todo = {}
    /\ firing = NoEvent
    /\ counts = {}
    /\ absentAge = [p \in Procs |-> -1]
    /\ known = FALSE
    /\ previous = [r \in ProcessRules |-> "unset"]
    /\ pendingFor = [r \in ScheduledRules |-> NoDate]
    /\ pendingAge = [r \in ScheduledRules |-> 0]
    /\ scanAge = ScanInterval
    /\ effective = {} /\ next = Never
    /\ observed = [r \in ProcessRules |-> [before |-> "unset", now |-> "unset"]]
    /\ gone = [p \in Watched |-> ExitGrace]
    /\ lastOcc = [r \in EventRules |-> NoDate]
    /\ disk = [r \in EventRules |-> NoDate]
    /\ present \in SUBSET Scanned
    /\ wall = 0
    /\ halts = 0 /\ faults = 0
    /\ delivered = [x \in ScheduledRules \X (1..Days) |-> 0]
    /\ dropped = {}
    /\ consumed = [r \in ScheduledRules |-> NoDate] /\ repeated = FALSE
    /\ unsaved = FALSE /\ lost = FALSE /\ rewound = FALSE

\* startAutomation: the state file is read, or the history is lost
Start(w, readable) ==
    /\ pc = "off"
    /\ pc' = "start"
    /\ Elapse(w)
    /\ IF readable
       THEN lastOcc' = disk /\ UNCHANGED <<faults, lost>>
       ELSE /\ Fault
            /\ lastOcc' = [r \in EventRules |-> NoDate]
            /\ lost' = TRUE
    /\ UNCHANGED <<setup, todo, firing, loopState, disk, present, halts, delivered,
                   dropped, ledger, unsaved>>

\* Stop (isStopping is asked before each rule), process exit or crash: what
\* only memory held is gone, an event not yet delivered with it.
Halt ==
    /\ pc # "off" /\ halts < MaxHalts
    /\ halts' = halts + 1
    /\ pc' = "off"
    /\ todo' = {} /\ firing' = NoEvent
    /\ counts' = {}
    /\ absentAge' = [p \in Procs |-> -1]
    /\ known' = FALSE
    /\ previous' = [r \in ProcessRules |-> "unset"]
    /\ pendingFor' = [r \in ScheduledRules |-> NoDate]
    /\ pendingAge' = [r \in ScheduledRules |-> 0]
    /\ scanAge' = ScanInterval
    /\ effective' = {} /\ next' = Never
    /\ observed' = [r \in ProcessRules |-> [before |-> "unset", now |-> "unset"]]
    /\ gone' = [p \in Watched |-> ExitGrace]
    /\ lastOcc' = [r \in EventRules |-> NoDate]
    /\ lost' = (lost \/ unsaved)
    /\ unsaved' = FALSE
    /\ UNCHANGED <<setup, disk, present, clock, faults, delivered, dropped, ledger>>
-----------------------------------------------------------------------------
(* The head of a step *)

\* The ticker fires after d units of running time; the wall clock moved by w
Tick(d, w) ==
    /\ pc = "wait"
    /\ pc' = "tick"
    /\ Elapse(w)
    /\ scanAge' = Min2(scanAge + d, ScanInterval)
    /\ absentAge' = [p \in Procs |->
           IF absentAge[p] = -1 THEN -1 ELSE Min2(absentAge[p] + d, ExitGrace)]
    /\ pendingAge' = [r \in ScheduledRules |->
           IF pendingFor[r] = NoDate THEN 0 ELSE Min2(pendingAge[r] + d, MaxWait)]
    /\ gone' = [p \in Watched |->
           IF gone[p] = -1 THEN -1 ELSE Min2(gone[p] + d, ExitGrace)]
    /\ UNCHANGED <<setup, todo, firing, counts, known, previous,
                   pendingFor, effective, next, observed, lastOcc, disk, present,
                   halts, faults, delivered, dropped, ledger, unsaved, lost>>

\* scanProcesses; a failed scan keeps everything it knew
Scan(succeeds) ==
    IF succeeds
    THEN /\ counts' = Stable(present)
         /\ absentAge' = [p \in Procs |->
                IF p \in present \/ p \notin Stable(present) THEN -1
                ELSE IF absentAge[p] = -1 THEN 0 ELSE absentAge[p]]
         /\ known' = TRUE
         /\ observed' = [r \in ProcessRules |->
                IF r \notin setup.rules THEN observed[r]
                ELSE [before |-> observed[r].now,
                      now |-> IF AnyRunning(r, counts') THEN "running"
                              ELSE "absent"]]
         /\ gone' = [p \in Watched |->
                IF p \in present THEN -1 ELSE IF gone[p] = -1 THEN 0 ELSE gone[p]]
         /\ UNCHANGED faults
    ELSE /\ Fault
         /\ observed' = [r \in ProcessRules |->
                IF observed[r].now = "unset"
                THEN [observed[r] EXCEPT !.now = "unknown"] ELSE observed[r]]
         /\ UNCHANGED <<counts, absentAge, known, gone>>

\* Mutant: only the first step scans
ScanDueOnce == pc = "start"

ScanDue == pc = "start" \/ scanAge >= ScanInterval

\* step, up to the call of evaluateEvents; a failed scan is a scan too
BeginStep(succeeds) ==
    /\ pc \in {"start", "tick"}
    /\ IF ScanDue
       THEN Scan(succeeds) /\ scanAge' = 0
       ELSE /\ succeeds
            /\ UNCHANGED <<counts, absentAge, known, observed,
                           gone, faults, scanAge>>
    /\ effective' = {r \in StateRules \cap setup.rules : Active(r, wall, counts')}
    /\ next' = NextScheduled(wall)
    /\ pc' = "pending"
    /\ todo' = {r \in ScheduledRules : pendingFor[r] # NoDate}
    /\ UNCHANGED <<setup, firing, previous, pendingFor, pendingAge, lastOcc, disk,
                   present, clock, halts, delivered, dropped, ledger, unsaved, lost>>
-----------------------------------------------------------------------------
(* evaluateEvents *)

\* What the history keeps of an occurrence that is consumed
Consume(r, occurrence) ==
    IF r \in ScheduledRules
    THEN /\ consumed' = [consumed EXCEPT ![r] = occurrence]
         /\ repeated' = (repeated \/ consumed[r] = occurrence)
    ELSE UNCHANGED ledger

\* Mutant: the saved copy is taken before the occurrence is entered
MarkOccurrenceLate(r, occurrence, saved) ==
    /\ lastOcc' = [lastOcc EXCEPT ![r] = occurrence]
    /\ IF saved THEN disk' = lastOcc /\ unsaved' = FALSE /\ UNCHANGED faults
       ELSE Fault /\ unsaved' = TRUE /\ UNCHANGED disk
    /\ Consume(r, occurrence)

\* markOccurrence, with SaveRuntimeState: the whole map replaces the file, or
\* the file stays as it was and the failure is only logged.
MarkOccurrence(r, occurrence, saved) ==
    /\ lastOcc' = [lastOcc EXCEPT ![r] = occurrence]
    /\ IF saved THEN disk' = lastOcc' /\ unsaved' = FALSE /\ UNCHANGED faults
       ELSE Fault /\ unsaved' = TRUE /\ UNCHANGED disk
    /\ Consume(r, occurrence)

\* fire, up to the call of OnEvent
Fire(r, occurrence, saved) ==
    /\ MarkOccurrence(r, occurrence, saved)
    /\ firing' = [rule |-> r, occurrence |-> occurrence]
    /\ UNCHANGED dropped

\* An occurrence that will not be executed is consumed all the same.
GiveUp(r, occurrence, saved) ==
    /\ MarkOccurrence(r, occurrence, saved)
    /\ dropped' = dropped \cup {<<r, occurrence>>}
    /\ UNCHANGED firing

\* The rule is looked at and nothing is consumed
Pass(saved) ==
    saved /\ UNCHANGED <<lastOcc, disk, faults, unsaved, firing, dropped, ledger>>

\* Mutant: a waiting occurrence never expires
VisitPendingForever(r, saved) ==
    /\ pc = "pending" /\ firing = NoEvent /\ r \in todo
    /\ todo' = todo \ {r}
    /\ IF Condition(r, counts)
       THEN /\ Fire(r, pendingFor[r], saved)
            /\ pendingFor' = [pendingFor EXCEPT ![r] = NoDate]
       ELSE Pass(saved) /\ UNCHANGED pendingFor
    /\ UNCHANGED <<setup, pc, counts, absentAge, known, previous,
                   pendingAge, scanAge, effective, next, observed, gone, present,
                   clock, halts, delivered, lost>>

\* The loop over state.pending
VisitPending(r, saved) ==
    /\ pc = "pending" /\ firing = NoEvent /\ r \in todo
    /\ todo' = todo \ {r}
    /\ \/ /\ pendingAge[r] >= MaxWait
          /\ GiveUp(r, pendingFor[r], saved)
          /\ pendingFor' = [pendingFor EXCEPT ![r] = NoDate]
       \/ /\ pendingAge[r] < MaxWait /\ Condition(r, counts)
          /\ Fire(r, pendingFor[r], saved)
          /\ pendingFor' = [pendingFor EXCEPT ![r] = NoDate]
       \/ /\ pendingAge[r] < MaxWait /\ ~Condition(r, counts)
          /\ Pass(saved)
          /\ UNCHANGED pendingFor
    /\ UNCHANGED <<setup, pc, counts, absentAge, known, previous,
                   pendingAge, scanAge, effective, next, observed, gone, present,
                   clock, halts, delivered, lost>>

EndPending ==
    /\ pc = "pending" /\ firing = NoEvent /\ todo = {}
    /\ pc' = "rules"
    /\ todo' = EventRules \cap setup.rules
    /\ UNCHANGED <<setup, firing, loopState, lastOcc, disk, present, clock, halts,
                   faults, delivered, dropped, ledger, unsaved, lost>>

\* Mutant: the first observation counts as a change
ChangedAny(r) ==
    \/ Trigger[r] = "started" /\ AnyRunning(r, counts) /\ previous[r] # "running"
    \/ Trigger[r] = "exited" /\ ~AnyRunning(r, counts) /\ previous[r] = "running"

\* A process rule fires on a change, once there is something to compare with
Changed(r) ==
    /\ known /\ previous[r] # "unset"
    /\ \/ Trigger[r] = "started" /\ AnyRunning(r, counts)
                                 /\ previous[r] = "absent"
       \/ Trigger[r] = "exited" /\ ~AnyRunning(r, counts)
                                /\ previous[r] = "running"

VisitProcessRule(r, saved) ==
    /\ r \in ProcessRules
    /\ previous' = [previous EXCEPT ![r] =
                        IF AnyRunning(r, counts) THEN "running" ELSE "absent"]
    /\ IF Changed(r) THEN Fire(r, Instant, saved) ELSE Pass(saved)
    /\ UNCHANGED <<pendingFor, pendingAge>>

VisitScheduledRule(r, saved) ==
    LET occurrence == DateOf(wall)
        open == /\ pendingFor[r] = NoDate
                /\ Due(r, wall)
                /\ lastOcc[r] # occurrence
    IN  /\ r \in ScheduledRules
        /\ \/ /\ open /\ Condition(r, counts)
              /\ Fire(r, occurrence, saved)
              /\ UNCHANGED <<pendingFor, pendingAge>>
           \/ /\ open /\ ~Condition(r, counts) /\ r \in Waits
              /\ pendingFor' = [pendingFor EXCEPT ![r] = occurrence]
              /\ pendingAge' = [pendingAge EXCEPT ![r] = 0]
              /\ Pass(saved)
           \/ /\ open /\ ~Condition(r, counts) /\ r \notin Waits
              /\ GiveUp(r, occurrence, saved)
              /\ UNCHANGED <<pendingFor, pendingAge>>
           \/ /\ ~open
              /\ Pass(saved)
              /\ UNCHANGED <<pendingFor, pendingAge>>
        /\ UNCHANGED previous

\* The loop over r.rules, which visits them in one fixed order
VisitRule(saved) ==
    /\ pc = "rules" /\ firing = NoEvent /\ todo # {}
    /\ LET r == CHOOSE x \in todo : TRUE
       IN  /\ todo' = todo \ {r}
           /\ VisitProcessRule(r, saved) \/ VisitScheduledRule(r, saved)
    /\ UNCHANGED <<setup, pc, counts, absentAge, known, scanAge,
                   effective, next, observed, gone, present, clock, halts,
                   delivered, lost>>

EndStep ==
    /\ pc = "rules" /\ firing = NoEvent /\ todo = {}
    /\ pc' = "wait"
    /\ UNCHANGED <<setup, todo, firing, loopState, lastOcc, disk, present, clock,
                   halts, faults, delivered, dropped, ledger, unsaved, lost>>

\* fire's call of OnEvent: the event enters the application's queue
Deliver ==
    /\ firing # NoEvent
    /\ firing' = NoEvent
    /\ delivered' =
           IF firing.rule \in ProcessRules THEN delivered
           ELSE [delivered EXCEPT ![<<firing.rule, firing.occurrence>>] =
                                 Min2(@ + 1, 2)]
    /\ UNCHANGED <<setup, pc, todo, loopState, lastOcc, disk, present, clock, halts,
                   faults, dropped, ledger, unsaved, lost>>
-----------------------------------------------------------------------------
\* The machine: a process starts or exits between two scans
ProcessChange(p) ==
    /\ pc \in {"off", "wait"}
    /\ present' = IF p \in present THEN present \ {p} ELSE present \cup {p}
    /\ UNCHANGED <<setup, pc, todo, firing, loopState, lastOcc, disk, clock, halts,
                   faults, delivered, dropped, ledger, unsaved, lost>>

Step ==
    \/ \E t \in setup.elapsed : Tick(t[1], t[2])
    \/ \E succeeds \in BOOLEAN : BeginStep(succeeds)
    \/ \E r \in ScheduledRules, saved \in BOOLEAN : VisitPending(r, saved)
    \/ EndPending
    \/ \E saved \in BOOLEAN : VisitRule(saved)
    \/ EndStep
    \/ Deliver

Next ==
    \/ Step
    \/ \E w \in {0} \cup {t[2] : t \in setup.elapsed}, readable \in BOOLEAN :
          Start(w, readable)
    \/ Halt
    \/ \E p \in Scanned : ProcessChange(p)

\* The ticker and the goroutine's own steps keep going while it runs.
Spec == Init /\ [][Next]_vars /\ WF_vars(Step)
-----------------------------------------------------------------------------
(* Properties *)

\* A scheduled occurrence is handed to the application at most once, and one
\* that was given up because its processes blocked it not at all, whatever
\* restarts, sleeps and changes of the clock within a date happen, unless a
\* checkpoint that could not be written was then lost with the process, or the
\* file with it.  (The state file is what "avoids repeated task execution".)
\* When the clock goes back to an earlier date, runner.go:329 compares with the
\* rule's last occurrence alone: none is then consumed twice in a row, but one
\* that came before another is handed over again when its date comes again.
HandedOnce ==
    \A x \in ScheduledRules \X (1..Days) :
        delivered[x] <= IF x \in dropped THEN 0 ELSE 1
AtMostOnce == ~lost => ~repeated /\ (~rewound => HandedOnce)

\* The next occurrence announced to the user is the first: until then, none
\* comes due but those that are consumed or waiting already, whatever the
\* blocked ones do.  It is nextScheduled's search through the coming days
\* against scheduledOccurrence's two minutes of the current one.
NextIsFirst ==
    pc = "wait" => \A r \in ScheduledRules \cap setup.rules, t \in 0..LastTime :
        wall <= t /\ t < next /\ Due(r, t) =>
            lastOcc[r] = DateOf(t) \/ pendingFor[r] # NoDate

\* A time window is in force from its start on each of its dates until its
\* next end, in one piece, past midnight too.  (One whose end is its start is
\* the calendar date.)
WindowIsWhole ==
    pc = "wait" => \A r \in setup.rules :
        Trigger[r] = "window" /\ At[r] # Until[r] =>
            (r \in effective <=>
                /\ Condition(r, counts)
                /\ \E d \in Dates[r] :
                      LET start == (d - 1) * DayLength + At[r]
                          length == (Until[r] - At[r]) % DayLength
                      IN  wall \in start..(start + length - 1))

\* What the calendar announces and puts in force
CalendarIsSound == TypeOK /\ NextIsFirst /\ WindowIsWhole

\* A process event means a change: scans missed every instance of every target
\* for the whole grace period before an exit, so a brief restart is none; and
\* the scan before the one that found a target running had found none, which
\* a runner whose first scan failed cannot know.
EventsAreChanges ==
    firing # NoEvent =>
        /\ Trigger[firing.rule] = "exited" =>
               \A p \in Targets[firing.rule] : gone[p] >= ExitGrace
        /\ Trigger[firing.rule] = "started"
             /\ observed[firing.rule].before # "unknown" =>
               observed[firing.rule] = [before |-> "absent", now |-> "running"]

\* A waiting occurrence is fired or given up in the end.
PendingResolves ==
    \A r \in Waits : pendingFor[r] # NoDate ~> pendingFor[r] = NoDate

\* A state rule follows its processes: if its condition comes to hold for
\* good while the runner stays up, the state handed out includes it for good.
StateCatchesUp ==
    \A r \in {x \in Rules : Trigger[x] = "running"} :
        <>[](pc # "off" /\ r \in setup.rules /\ Condition(r, present))
            => <>[](r \in effective)
=============================================================================
