# IdleTrigger in TLA+

IdleTrigger is a Windows tray program (Go, `src/`) that keeps the machine awake,
acts when its user is away, runs automation rules (schedules, process starts and
exits) and follows a light/dark theme schedule. This directory holds TLA+ models
of its logic, the TLC configurations that check them on small instances and the
theorems TLAPS proves about them. Every definition is a translation of the Go
code; `PROJECT.json` ("map") names the lines. Paths below are relative to
`src/internal/`.

## 1. The system

### Threads

| thread | started by | what it does | how it talks to others |
|---|---|---|---|
| request loop (`app/app.go` `requestLoop`) | `Run` | runs closures from `requestCh` (64 places) one at a time; owns `runtimeState` | stops and starts the workers and waits for them; posts UI tasks |
| tray UI thread (`ui/trayicon`) | `trayicon.Run` | Win32 message loop of every window; tasks posted with `Post` | `post`/`call` into `requestCh` |
| idle monitor (`feature/idle`) | `startMonitor` | polls `GetLastInputInfo` every second | callbacks post UI tasks; its action waits for one (`PostAndWait`) |
| automation runner (`feature/autorules`) | `startAutomation` | a step every second: process scan, state rules, events | `postUntil(Stopping)` into `requestCh`; writes the state file |
| keepawake worker (`feature/keepawake`) | `Enable` | one locked OS thread that holds the execution state | a command channel with replies |
| hot keys (`platform/windows/hotkey`) | `startHotkeys` | a message loop of its own | `post` |
| battery poll (`app/battery.go`) | `syncBatteryLoop` | every 3 s | a send that a stop gives up |
| theme scheduler (`feature/theme`) | `startThemeScheduler` | every 60 s or when nudged | none |
| IP location lookup (`app/theme_location.go`) | `startIPLocationCycle` | HTTP lookup, a timer for one retry | `post`; a cache with a lock |
| config watcher (`app/config_watch.go`) | `onReady` | looks at the file's time every 3 s | `post` |
| pipe server (`platform/windows/ipc`) | `onReady` | one goroutine per client | `call` |
| one goroutine per warning, per opening of the panel, per load of the picker, per theme notification | UI thread, loop | ticks; snapshot; process scan; icon refresh | UI tasks, `post` |

### Components: state, operations, what makes them correct

*Power side of the runtime* (`app/idle.go`, `battery.go`, `status.go`,
`controlpanel_actions.go`, `ipc.go`). State: configuration, effective automation
state, battery verdict, the idle session, the keepawake request. Operations: the
handlers of hot keys, panel, IPC, reload, battery poll, power broadcasts, and the
closures of the automation runner and of the idle warning. Correct when the
services that run are exactly those the configuration, the rules and the battery
call for, Stay Awake and the idle monitor never together. Hard: a dozen handlers
must each reconcile, and some closures carry what was true when they were posted.

*Idle monitor* (`feature/idle`, warning in `ui/idlewarning`). State: the observed
input time stamp, the start of the current window, periodic-input statistics,
`warned`/`triggered`. Correct when it acts only on real idleness of its own
window, and does act. Hard: 32-bit tick counters that wrap, input between any two
system calls of a poll, a stop in the middle of one, windows on another thread.

*Automation runner* (`feature/autorules`, `automation/statefile.go`). State: last
occurrence of each rule (also on disk), baselines, waiting occurrences, smoothed
process counts. Correct when each occurrence is carried out at most once, over
restarts, crashes, sleep and clock changes, and none is forgotten. Hard: a
checkpoint is written before its event is handed over; two clocks.

*Automation events* (`app/automation.go`, `ui/actionwarning`). State: queue of
events, the outstanding warning, generation; the window and its countdown
goroutine on other threads. Correct when each event is settled once and the queue
never stalls. Hard: answers, countdowns, restarts, language switches and windows
that cannot be made arrive in any order.

*Who waits for whom* (`app/app.go`, `ui/trayicon/queue_windows.go`, the `Stop`
functions). State: the channel, blocked senders, what the loop waits for. Correct
when nobody waits in a circle and an exit stops everything. Hard: bounded channel,
stops that join threads which send, UI thread waiting for the loop.

*Other processes* (`platform/windows/ipc`, `singleinstance`, `cmd/idletrigger`,
`cli`). State: the session's mutex, the ends of the pipe, each client's place.
Correct when one program at a time holds what only one may hold and the pipe goes
on serving. Hard: clients that break off, launches while the first program exits.

*Tray icon* (`ui/trayicon`, `app/tray.go`). State: the registration with Explorer,
the image, the size Explorer wants, a probe timer. Correct when Explorer shows the
image of the current theme in the right size. Hard: two threads set it; Explorer
goes and comes back.

*Configuration store* (`config`, `app/config_watch.go`, `status.go`): the file, its
backup, its revision, the watcher's time stamps; load with correction, save, save
at a revision. Correct when neither an external edit nor an own change is lost.
Hard: two writers, a watcher that must tell own writes from others'.

*Theme* (`feature/theme`, `app/theme*.go`): the schedule, manual override, battery
authority, a switch in several registry steps with rollback, repair; the cycle of
location lookups with cache, cooldown and retry. Correct when Windows has what is
asked for, never a mixture of the program's making, and nobody asks the network
when it is off. Hard: schedulers are replaced while they measure or switch.

*Windows* (`ui/controlpanel`, `ui/automationpanel`, `ui/processpicker`,
`ui/nativeform`): the control panel and its popups, the automation manager and
editor, the process picker. State: what is shown, what is being edited, what it was
read from. Correct when they show and change what the settings are, keep the user's
work and give the input back. Hard: the settings live on another thread, answers
come late, questions and DPI changes run nested message loops.

*Sunrise and sunset, CLI output, autostart, power status, system actions, process
catalogue, i18n, logging, developer tools*: mostly input and output.

The hazards of all of these, with their lines, are in `PROJECT.json`.

## 2. Modules

| module | models | role |
|---|---|---|
| `PowerRuntime` | power side of the runtime | every handler is one action; the services against demand |
| `AutoRules` | automation runner, calendars, state file | steps split where a stop or crash can fall |
| `AutomationEvents` | event queue, warning window, countdowns | three kinds of threads |
| `IdleMonitor` | idle monitor, its warning and restarts | polls split at each reading |
| `RequestLoop` | threads, channel, stops, exit | closures reduced to what they wait for |
| `PipeClients` | launches, commands, pipe, mutex | instantiated by `Program` |
| `TrayIcon` | tray icon, Explorer, theme notifications | instantiated by `Program` |
| `Program` | `RequestLoop` with `PipeClients` and `TrayIcon` | the composition, its fairness and properties |
| `ThemeScheduler` | theme scheduler, switch, repair, their handlers | one step per registry write and per wait |
| `ThemeLocation` | location lookups and their cache | instantiated by `ThemeSystem` |
| `ThemeSystem` | `ThemeScheduler` with `ThemeLocation` | the composition, its fairness and properties |
| `ConfigStore` | the file, loads, saves, watcher, a second process | one action per file operation |
| `RuleForm` | rule types and the editor's form | a rule from the file to the form and back |
| `ModalTree` | what windows that block their owner promise | abstract specification |
| `AutomationPanel` | manager and editor, and their half of the loop | implements `ModalTree` |
| `ProcessPicker` | process picker | UI thread, workers and the user |
| `PanelFrame` | window of the control panel under DPI and theme changes | operators `ControlPanel` uses |
| `ControlPanel` | control panel, popups, snapshots, actions | UI thread, loop and goroutines |
| `*_proofs` | | theorems about `PowerRuntime`, `ConfigStore`, `ThemeSystem`, `AutoRules`, `AutomationEvents`, `Program`, `AutomationPanel`; `PowerRuntime_proofs` has those about `IdleMonitor` as well, `Windows_proofs` those about `RuleForm`, `ProcessPicker` and `ControlPanel` with `PanelFrame` |
| `MC*` | | constants for TLC |

How they fit together: `RequestLoop` justifies the atomicity of the others. A
closure runs on one goroutine and shares `runtimeState` with nobody, so it is one
action in the modules that model its effect; what the loop waits for inside a
closure is the subject of `RequestLoop` alone. `AutoRules` shows that the runner
hands an occurrence over at most once, which `AutomationEvents` takes as its input
(`RunnerEvent`). `PowerRuntime` takes from the runner any effective state of a rule
set, and decides when a monitor is started and stopped, which `IdleMonitor` takes as
arbitrary stops and restarts. `ConfigStore` shows what a reload may find, which
`PowerRuntime` and `AutomationPanel` take as any file of a set. `RuleForm` has the
fields of the one rule that is a word in `AutomationPanel`.

### PowerRuntime

`cfg`, `auto`, `runner`, `blocked`, `loop`, `session`, `worker`, `enabled` are the
fields of `runtimeState`, of `idle.Monitor` and of package `keepawake` that the
handlers read and write. `Reconcile` is `reconcileRuntime` and every handler that
calls it does so in its action. `requests` holds only the closures that carry
something from the time they were posted: `OnState` (a state and a generation) and
`onDismiss`; the others read the state when they run and may run at any time.
`power` is what Windows would report now; `seen` and `failed` are history.

### AutoRules

`pc` is the position in `Runner.step`: the scan, the loop over waiting occurrences,
the loop over the rules; `firing` is an occurrence that is checkpointed and whose
event is not yet delivered. `Halt` may fall at any of these points and drops what
only memory held; `disk` is the state file. Deadlines on Go's monotonic clock are
ages, schedules use `wall`, which `Elapsed` moves independently. Dates are
occurrences; a process event's time stamp, which is never compared, is `Instant`.
`Within` and `NextScheduled` are `withinWindow` and `nextScheduled`, with the night
that began the day before. Which rules are enabled and how time passes is fixed for
a behaviour (`setup`), so that one instance covers four kinds of rule sets. A window
whose start and end are equal is its whole date, as in the code. `delivered` and
`dropped` are history: what was handed over and what was given up, `consumed` and
`repeated` the date each rule consumed last and whether one was consumed twice in a row.

### AutomationEvents

`requests` and `tasks` are the two FIFO queues (request loop, UI thread);
`countdown[e]` is the goroutine of e's warning, which nothing stops when the window
goes. `fate`, `answer` and `executions` are history: what became of an event, how its
window was answered, and how often its action was carried out.

### IdleMonitor

A poll is `Poll`, `ObserveInput`, `Sample`, `Evaluate` and the action's two halves,
so input, stops and UI tasks fall between the system calls. The action waits for the
Hide it posted (a task of its own kind), not for what is queued behind it. Time stamps are ages
modulo `2^Width`. `quiet`, `sampledQuiet`, `sinceWindow`, `gaps` and `raced` are
history variables: the truth the monitor's judgement is compared with.

### RequestLoop, PipeClients, TrayIcon and Program

`work` is the rest of the plan of the closure being run: stops, starts, icon updates
and dialogs in the code's order. `senders` are threads blocked in a send, in order of
arrival (Go serves blocked senders in that order). `ui` is the UI thread's position
in an exit (`closing`: the queue is closed, `lock`: `onExit` waits for `onReady`,
`call`: it waits for the loop) or in the manager's save (`reply`).

A client's place follows the code of one process: it takes the mutex or tries the
pipe, has an end, has its line with the loop, has its answer or gives up.
CreateNamedPipe is taken not to fail, a client that is connected writes its line or
breaks off, and the two seconds of a second launch are longer than the server needs
to make a new end.

`tray` has winTray's `nid` (registered or not, and its icon) and `trayIconKey`,
`shell` what Explorer shows and the size it asks for, `probe` the timer's count,
`job` an update that has asked for the size and not yet set the image (the loop's and
the UI thread's), `note` the goroutine of a theme notification. The queue of the
window is a set: equal messages coalesce here, and their handlers commute. Theme and
size are read in one step; the tooltip's text and the menu are left out.

`Program` runs either the program's own threads, or clients, or an Explorer that
comes and goes (`scene`), because each fills the state space by itself; all three
share the loop, the start and the exit.

### ThemeScheduler, ThemeLocation and ThemeSystem

`pref` are the two registry values, `op` the position of each Switch or Refresh
(`lock`, then one step per registry write), `loop` the scheduler objects with their
threads (`check`, `pause` for the measurement of the foreground program, `switch`),
`handler` the request loop, which waits in `Stop` (`stopping`). The mutex is held by
the one process past its `Lock`. Readers of the current theme take no lock, as in the
code. A tick of the scheduler and a wake by the battery poll are one action. A
measurement that fails lets the switch go on, whatever is in front. The user's
change in Windows' own settings is an action too, but not in the middle of a switch,
where no lock could help.

`ThemeLocation` keeps a timer as whose it is and whether it runs, and the cache's
times as `cool` and `info`; `HalfHour`, `DayLater` and `TimerFires` keep the order of
the real times, and no request outlasts half an hour. In `ThemeSystem` the location
found replaces the scheduler, and lookups go on while the loop waits in `Stop`.

### ConfigStore

A text is one plain setting, the state of the rules and whether its annotations are
current; its revision is the text. `task[p]` is a load or save of the program or of
a command-line process between two file operations. Modification times are what
their comparisons tell. `raced` and `refused` are history.

### RuleForm

`form` holds the controls' values, `shown` the fields that are visible, `options` the
offered triggers, `raw` a rule with an action or trigger the editor does not know.
`Normalized`, `Prepared`, `Faults` are `NormalizeRules`, `PrepareRules`, `validateDraft`;
`Meaning` is what the runner and the warnings read of a rule; of dates, times and numbers
the model knows only whether they can be read and are in range.
`TimeText` is `normalizeTimeEditText` over every text of up to `MaxText` characters.

### AutomationPanel and ModalTree

The control panel, the manager/editor window, the picker and a message box own each
other. `state`, `pending`, `draft`, `original`, `row`, `selected` are the panel's
fields, `store` is the loop's rules, `posts` the UI queue. A message box runs a nested
message loop, so posts are handled while it is open; what waited behind the box
(`ConfirmDelete`, `LeaveEditor`) runs after it. `ImplementsModalTree` maps open
windows to `owner` and those that take input to `enabled`: every step of the panel,
its closing by its owner's destruction included, is a step of `ModalTree` or changes
no window.

### ProcessPicker, ControlPanel and PanelFrame

`p` is the picker's struct, `loads` and `posts` its workers and their answers with
their generations. The list is its set of rows: order and drawing are left out. A
refresh older than 15 s is asked for only after the 1.5 s of the status text have
been handled. A new picker may know descriptions that the editor has found, and an
automatic load may begin while the file dialog is open.

`panel`, `choice`, `popups`, `frame` are the control panel's window; `starting`,
`calls`, `ready`, `tasks` a snapshot's way from the click through the loop to the UI
thread. `plain` stands for the nine switches no other depends on; the actions that
close the panel have no setting here. `PanelFrame` has the handlers of DPI and theme
messages as operators on the window record, `direct` for a handler called in place
because its message could not be posted.

## 3. Runs

Every passing run explores its whole state space. Deadlock is not checked where the
program may stop: it exits, or the bounds are used up.

| run | configuration | shows |
|---|---|---|
| `power` | `MCPowerRuntime.cfg` | the services match demand, never both at once; nothing they run with is stale; the battery is in the end honoured |
| `auto_rules` | `MCAutoRules.cfg` | at most once unless the clock goes back to an earlier date, given up stays given up, calendars over midnight, events are real changes, waiting ends, state rules catch up |
| `automation_events` | `MCAutomationEvents.cfg` | events are warned of, answered, settled and carried out once; the queue stalls only behind a lost window |
| `idle_monitor` | `MCIdleMonitor.cfg` | acts only on real idleness of its own window, and keeps acting |
| `program` | `MCProgram.cfg` | only the known circular waits, an exit completes, hands over to the next launch and takes the icon along, the pipe goes on serving, the icon converges |
| `theme_system` | `MCThemeSystem.cfg` | no mixture of the two values without a failed restore, Windows ends up with what is asked for, no lookup for a stopped cycle, a location found is used |
| `config_store` | `MCConfigStore.cfg` | revisions stand for what they were taken of, the user's edits come into force and are not overwritten unread, but for the exceptions under Findings |
| `rule_form` | `MCRuleForm.cfg` | form, choices and blamed fields fit; an untouched rule saves as it was; the time field's text is sound |
| `automation_panel` | `MCAutomationPanel.cfg` | refinement of `ModalTree`; saves, but for deletions, touch the rule they were made for; the editor's work is kept while its window lasts |
| `deleted_rule` | `MCAutomationDelete.cfg` | *violation*: a confirmed deletion removes another rule than the one named |
| `process_picker` | `MCProcessPicker.cfg` | late answers change nothing, the selection is the user's, the status line is true |
| `control_panel` | `MCControlPanel.cfg` | every frame appears, and fits once nothing is pending; switches, popups and texts agree with the settings |

Several invariants are conjunctions of named parts, which their modules comment one
by one: `StateIsCurrent`, `CalendarIsSound`, `WarningsAreSound`, `ActsOnIdleness`,
`OneOfEach`, `RevisionsAreHonest`, `FormFollowsChoices`, `PanelIsSound`,
`PickerIsSound`, `FramesArrive`, `PanelIsUpToDate`, `Handover`; the type invariant of
each module is one of the parts.

### Bounds, and why they are enough

* `power`: one queued closure (`MaxRequests`), two timeouts, two option sets, three
  battery states, four files, six effective states: one of each kind the handlers
  tell apart, in every combination. Closures of different kinds are handled
  independently of each other, so a second one adds only an order that two
  successive single ones give as well; the theorems below hold for any number.
* `auto_rules`: two days of three units and due windows of two, so that a due window
  is cut by midnight and a second occurrence follows; a tick of normal length, one
  after a sleep, one with the clock set back, one late; four rule sets (a waiting
  daily task; one that is given up beside it; a night window; the process triggers of
  two processes); one halt and one fault, at any point.
* `automation_events`: three events (one-time, repeated, without countdown), so two
  wait behind a warning; one interrupt, one fault and an exit, anywhere.
* `idle_monitor`: a threshold of three polls with the warning at two; counters of
  four bits, so they wrap during a run; a device of period three inside the periodic
  window of two to three; one user input, one restart and one fault, anywhere.
* `program`: a channel of one place, so a full one is ordinary and two threads can be
  blocked; each thread may send without end. Two launches and a command with two
  connections, so a client waits for a place and a second launch for the exit. Two
  sizes, two probes (the code's 16 are as good: only the last one must see Explorer's
  final size) and two changes of theme, display, Explorer or settings beside the start
  (Explorer there or not) and an exit at any time; with three, checked once for the
  icon alone, nothing new appears. Among clients only the hot key thread is wanted, and
  with Explorer no worker.
* `theme_system`: a day of four ticks with a night past midnight; the clock passes the
  light transition and stops before the dark one. A behaviour has one of three budgets:
  two events (a switch by hand, another file, a repair, a charger, a fullscreen
  program) and a failure while the clock runs; two failures, a write and its restore;
  two turns of the location setting and one event, with the charger in.
* `config_store`: three events (edits, settings, rules, reloads, commands, failures,
  crashes), three first texts and two edits.
* `rule_form`: twelve rules as a file may hold them, three edits, a week of two days.
* `automation_panel`: two waiting posts, one change from outside, one save, one click on
  the tray; three rule IDs, lists of up to two.
* `process_picker`: two loads, two pickers, two processes (one of them with a description)
  and a path, a limit of one.
* `control_panel`: four budgets: two DPI changes, a theme change and three failed posts
  or presentations with a click or a second opening; two or three clicks with a change
  of the settings from outside.

### Fairness

* Tickers and goroutines keep running: weak fairness of the battery tick
  (`power`), of the runner's steps (`AutoRules`), of both loops and of the countdowns
  (`AutomationEvents`), of time, monitor and UI thread (`IdleMonitor`), of each
  process's loads and saves, the watcher and the loop (`ConfigStore`).
* `Program`: weak fairness of the loop, the UI thread, the monitor, the pipe's server,
  a client's line, Explorer's layout and of a blocked send that is given up; strong
  fairness of `Leaves`, because a worker's `select` between a tick and a closed stop
  channel chooses at random, so a thread that comes back to it again and again leaves
  in the end.
* `ThemeSystem`: weak fairness of the clock, the threads, the lookups, the timer and
  `Stop`'s return; strong fairness of `Leave`, for the same random `select`.
* No fairness is assumed of the user, of Windows' broadcasts, of process changes, of
  halts, of faults, of Explorer's coming back or of whoever edits the configuration.

### Findings

`deleted_rule` is the one disagreement stated as a run. The others met while
modelling are exceptions named in the properties that hold:

* *Power and rules.* A process-started rule whose first scan fails reports a process
  that ran all along (`EventsAreChanges`; development.zh-CN.md:112). An effective
  state's idle minutes of 30 count as "unset", so two rules can be order dependent
  (`runner.go:277`). With the clock set back to an earlier date an occurrence is handed
  over again although user-guide.md:65 speaks of avoiding repeated execution: the code
  compares with the rule's last occurrence only (`runner.go:329`), and that is the later
  date's. `AtMostOnce` then says only that none is consumed twice in a row
  (`rewound`, `repeated`).
* *Warnings.* A window lost without an answer, as by a language switch, keeps the queue
  waiting (`lost` in `EventSettled`). A poll in progress can post a warning behind
  the Hide of a stop (`raced` in `WarningIsLiveUnlessRaced`).
* *Waits.* The manager's save, the loop and the monitor can wait for each other, and a
  full channel with a thread that is being stopped blocks as well (`CircularWait` in
  `OnlyKnownCycles` and `ExitCompletes`).
* *Configuration.* An edit that falls into one of the program's own operations is not
  noticed (`raced` in `EditNoticed`), one between the look and the rename is overwritten,
  and so is an unreadable file by the first setting saved after a start with defaults
  (`UserEditsKept`; `main.go:76`). GUI and CLI share one backup name. A settings save is
  refused while any rule is faulty.
* *Theme.* A failed restore leaves a mixture that nobody repairs (`damaged` in
  `NeverTorn`). Replacing the scheduler drops a hold. A second cycle begun while a
  request is in flight fails at once, and its one retry can fall into the cooldown;
  after 24 h a restarted scheduler falls back to the time zone.
* *Launch and exit.* A second launch ignores the answer of a program that exits; a
  command does not wait for a busy pipe; the mutex is free before the process ends.
* *Tray icon.* Without Explorer at the start onReady is never called and the process
  stays without icon, pipe or loop (`tray.started`). A modify refused while Explorer
  is away leaves an image after its return that the convergence takes for the right
  one, and a theme change can be told to nobody (`Misses`). A closure that updates
  the icon after its removal panics (`Crash`, only while exiting: `Handover`).
* *Automation panel.* Opening and cancelling an unusual rule asks about changes
  (`RuleForm`: hidden fields can be blamed, lists read back differently); a picker that
  confirms after an update has left the editor shows fields in the manager; a reload
  destroys the panel with unsaved work although a comment says it is preserved
  (automationpanel.go:391; `WindowGoes` in `WorkIsKept`); an update overtaken by a save regresses the list.
* *Picker and control panel.* A failed refresh's text survives an unchanged automatic
  one; the limit's message does not wait for the hold. A refused autostart, a hot key
  and an overtaken snapshot leave a switch that is not true (`overtaken`); a refresh can
  re-create a closed panel; a theme refresh between a DPI change and its commit shows
  the half-laid-out window.

## 4. Proofs

The theorems hold for every value of the constants that the ASSUMEs of the modules
allow: any number of rules, events, clients, threads' closures, files and changes, a
channel, a day and a countdown of any length, texts of any length, any set of DPIs and
languages. They assume nothing else. Each part of a `*_proofs` module has the same
shape: an inductive invariant (`IInv`; `IdleInv`, `PickerInv`, `PanelInv`, `FormInv`)
whose conjuncts are named, lemmas about the helpers (sequences, dates, the bag of
tasks), one lemma per action, a theorem `Spec => []IInv` (`...Invariance`), and the
properties as consequences. `IInv` was checked by TLC on the instance of the run before
it was proved. Every property of a passing run that is not a liveness property is the
consequence of a theorem.

| module | theorems | property of a run |
|---|---|---|
| `PowerRuntime_proofs` | `TypeCorrect`, `Exclusion`, `DemandMet`, `Currency`, `ManualExclusion`, `ActsOnRealIdleness`, `WarningIsLive` | `MutualExclusion`, `RuntimeMatchesDemand`, `StateIsCurrent`, `ActsOnIdleness`, `WarningIsLiveUnlessRaced` |
| `ConfigStore_proofs` | `HonestRevisions`, `EditsAreKept` | `RevisionsAreHonest`, `UserEditsKept` |
| `ThemeSystem_proofs` | `ValuesAreOneSetting`, `OneOfEachKind`, `NoUnwantedLookup` | `NeverTorn`, `OneOfEach`, `SilentAfterStop` |
| `AutoRules_proofs` | `OccurrencesAreHandedOnce`, `ProcessEventsAreChanges`, `CalendarIsKept` | `AtMostOnce`, `EventsAreChanges`, `CalendarIsSound` |
| `AutomationEvents_proofs` | `WarningsAgree`, `DecisionsAreFinal` | `WarningsAreSound`, `FatesAreFinal` |
| `Program_proofs` | `CirclesAreKnown`, `NothingIsLeftBehind` | `OnlyKnownCycles`, `Handover` |
| `AutomationPanel_proofs` | `StateIsSound`, `SavesTouchOneRule`, `TypedWorkIsKept`, `PanelImplementsModalTree` | `PanelIsSound`, `SaveTouchesOneRule`, `WorkIsKept`, `ImplementsModalTree` |
| `Windows_proofs` | `PickerIsAlwaysSound`, `StatusIsAlwaysTrue`, `SelectionIsAlwaysTheUsers`, `FramesAlwaysArrive`, `PanelIsAlwaysUpToDate`, `FormAlwaysFollowsChoices`, `UntouchedAlwaysKeepsMeaning`, `TimeTextIsAlwaysSound` | `PickerIsSound`, `StatusIsTrue`, `SelectionIsTheUsers`, `FramesArrive`, `PanelIsUpToDate`, `FormFollowsChoices`, `UntouchedKeepsMeaning`, `TimeTextIsSound` |

**PowerRuntime.** `IInv` is the type invariant, `ManualExclusive`,
`RuntimeMatchesDemand`, the parts of `StateIsCurrent` (`SessionIsCurrent`,
`BlockedFollowsPolicy`, `NoAutoWithoutRunner`), and two facts the runs do not check by
themselves: the poll runs exactly when something wants it, and without a runner every
queued state is a dead one. The last is what makes `NoAutoWithoutRunner` inductive: a
live queued state of a stopped runner would break it one step later.
`ReconcileEstablishes` shows that `Reconcile` brings about the services part of `IInv`
for any configuration, automation state and verdict, over any worker, also when the OS
refuses; `CommandStep` and `RestartStep` use it for the handlers.

**ConfigStore.** Neither property is inductive, as both speak of what a process read
some steps ago. `LoadsAreCareful` and `SavesAreCareful` say what holds at each step of a
load and a save: between the look at the file and the write, what is about to be
replaced is the text that was read, or was backed up, unless somebody wrote since.
`BaseIsRead` and `InForce` carry the revision through a load (corrected texts are
written and read again before they are accepted), `PanelFollows` the manager's copy.
`UserEditsKept` then follows from the conjunct that belongs to the step that writes.

**ThemeSystem.** `NeverTorn` needs that the operation that holds the mutex can put back
what was there (`Restorable`), that it alone holds it (`OneHolder`) and that a thread's
place and its operation go together. `OneOfEach` needs that no thread but that of
`s.themeSched` runs (`OneThread`) and that the cache's flag is the lookup that asks
(`OneAsks`); `SilentAfterStop` that a timer of the cycle in force belongs to settings
that ask for lookups, as soon as the cycle has been told of them (`TimerIsWanted`). The
proof found that two arms of a CASE in `ThemeLocation.TakeResult` overlapped, so that
TLC had only looked at the first: they are conjuncts with guards of their own now.

**AutoRules.** The heart is `BookIsKept`: the last occurrence in the state file, or in
memory while the runner is up, is not before any that was delivered or given up, not
after today, and before the one that waits; and the two books agree unless a write is
owed or was lost. `CalendarIsRead` says that what was handed out is what the wall clock
gives; `NextIsFirst` then follows from the definition of `NextScheduled` as a minimum
over the days. `GoneIsAbsent` and `MemoryIsSight` tie the counters of scans to what each
process rule remembers. Wrap-around at midnight is arithmetic on days of any length.
What holds also when the clock goes back is a second, smaller invariant (`LedgerIsKept`):
the book has what was consumed last, and what waits is another date.

**AutomationEvents.** An event is in one place: on its way (`PostedOnce`), in the queue
(`QueuedOnce`), or, for the live generation, in one of a task, the window and an answer
(`OnePlace`). `WarningsSound` says what a warning of any generation stands for, so an
answer that arrives late finds its event decided or its generation gone.
`ExecutionFacts` goes through the steps that carry an action out: each is the answer to the
warning that is outstanding, so its event was not decided before; `FatesAreFinal` follows,
its count of executions included. `HideComes` says that a window of an earlier generation has its
closing in the tasks, after it. The channels are sequences and bags without bounds here.

**Program.** Three parts. `LoopInv`: a worker or UI thread is blocked in at most one
send and only by a full channel; whoever waits for the UI thread or is on its way out is
not in a send (`SendsInTurn`); there is one save and the UI thread waits for it
(`SaveIsAwaited`); the exit's plan still holds the stop of each thread that runs
(`ExitStops`). `PipeInv`: among clients, the closures sent and not answered are as many
as the callers that wait (`CallersAreServed`), so an answer finds its caller. `TrayInv`:
Explorer shows the image of nid and `trayIconKey` unless it refused one, and the icon
goes before `exiting` is set. `OnlyKnownCycles` uses `SendsInTurn`: a task that waits
for the UI thread is dropped when that thread closes, so an exit makes no circle.

**AutomationPanel.** `ViewSound` ties a view to its controls, `DraftSound` says that the
draft keeps the identity of the rule it replaces, and `AskedSound` that a save on its
way to the loop differs from the rules it was made from in one rule; as the loop accepts
only a save made from the rules in force, `SaveTouchesOneRule` follows. Two facts are proved
on top of `IInv` (`Selections`): the remembered rule is the selected one between any two
messages, whichever list an update brings (`PopulateSelects`), and a save from the editor
holds the draft as it stands; the second is what `WorkIsKept` needs when its answer closes
the editor. `Blocking`
says which window takes input: the panel exactly when it owns nothing, the control panel
exactly when it owns no panel, and picker and box are never up together. That is what
the refinement needs: from `Blocking` each step is one of opening a window (`OpenStep`:
its owner stops taking input), closing one with all it owns (`CloseStep`: input goes
back to the owner) or neither (`StillStep`), through every way a panel may disappear.

**IdleMonitor.** `WindowKept` and `IdleIsReal` bound what a poll sampled by the
monitor's own window and by the true time since any input; the arithmetic of ticks is
that of any width, with a time stamp half a turn away or more counting as no idleness.
`WarningOwned` follows what will be on the screen once the posted tasks are done.
`PatternKept` follows the average of the enhanced mode: `AverageStep` says how far one
more interval moves it, and the last interval lies within the tolerance less that
much (`LastNear`), so the one before it is out by at most one unit of rounding
(`LastTwoNear`), and the one before that is still near the newest (`LastThreeNear`).
That is true of three intervals, which is what the code requires, and `IdleAssumption`
says so; of a longer pattern the ends may drift apart. The proof corrected the property:
it had said that no two intervals differ by more than twice the tolerance, but with the
average rounded down (11, 9 and 8 after 10, with a tolerance of 1) it is one unit more
(`Spread`; a nanosecond in the code). A tolerance of zero, as in the run, has no
rounding, so TLC had not seen it.

**ProcessPicker.** A picker can be replaced while workers of earlier ones still scan, so
the proof follows generations. `GenerationsAreTaken` says that nobody works for a
generation still to come; `AnswersComeInOrder` says, of the load in flight, which of its
answers is still with its worker and which waits as a post: its list before its
descriptions, one of each, and none once it has ended. `ViewFollowsLoad` ties phase,
buttons and the source of the rows to that, `HoldIsManual` the hold to a manual refresh.
`StatusIsReady` then says what the status line shows, or will show when the hold is over
and `pending` is taken: that is what makes `StatusIsTrue` inductive, as the text of a
list that arrives during a hold becomes visible much later. `SoundSelection` keeps marks,
selection and the confirm button together; it is broken and restored inside one handler
(`MarkedAsSelected` is what holds in between).

**PanelFrame and ControlPanel.** The frame's handlers are operators, and each has a lemma
that it keeps `FrameIsSound`: the two flags say which messages wait (`Flagged`, never the
same message twice), what has been built since the last change fits (`WorkedOff`), and a
change that is not worked off has a message or a call on its way (`Coming`), also after
a post or a presentation that failed. `CloakEnds` follows. For the panel, an opening's
number is at one place: its goroutine, its call, its snapshot, its task or the panel
(`NumbersDiffer`), so no click belongs to a panel that is still to come
(`ComingIsUnused`). A snapshot that nothing has overtaken is what the settings are
(`SnapshotsHold`); once it is shown, the switches are what the settings will be after
the panel's own clicks have been served in order (`SwitchesFollow`, with lemmas about
`After` for a call taken from the front and one put at the end). The automation switch
is told by the last update in the queue (`AutomationIsTold`), and texts in another
language have a refresh on its way (`TextsAreReplaced`).

**RuleForm.** The rule being edited came out of `Normalized` of a rule of the file, which
unless an issue is shown passes `Prepared` (`RuleIsKnown`); until the user does something
the form is that rule (`FormIsTheRule`), and a blamed control is visible (`BlameIsShown`).
`UntouchedAlwaysKeepsMeaning` is then a statement about the algorithms: for every rule
that is accepted, reading it into the form and back and normalizing again leaves what
the runner reads. The fields are compared group by group, for each trigger and action.

The text of a time field is a fold over its characters. `IsScan` names the values of the
fold, and each property of the fold is proved for every length by induction. The library's
induction theorems take an operator and cannot be used here, so the induction is over a
set: the least number at which a scan fails to be one of the nine shapes of a time
(`TimeShapes`) cannot exist (`LeastNumber`, from the well-founded order of the numbers).
Shapes are their own scans (`IsKept`), so a second normalization changes nothing, and
the caret, counted by the scan of what is before it, is within the text. The proof needed
that what a prefix gives is a prefix of the whole (`ScannedGrows`).

What was changed in models so that they could be reasoned about, without changing what
they say: `AutoRules` and `AutomationEvents` state that their bounds are numbers; tuple
patterns in `AutoRules` and the CASE above were rewritten; `RequestLoop.GivesUp` removes
the blocked send by its place, and the set of outcomes of a choice is `Outcomes`;
`AutomationPanel` states that there is some identity to give a draft, `ProcessPicker`
that selections are finite and `PanelFrame` that a DPI is a positive number;
`ControlPanel.After` serves the waiting calls by a recursive function; `RuleForm` finds
the first fault as the least of the set, and counts the digits of the minutes from the
length of the text.

Only model-checked is everything under fairness (`BatteryHonoured`, `PendingResolves`,
`StateCatchesUp`, `EventSettled`, `KeepsActing`, `ExitCompletes`, `PipeReturns`,
`IconConverges`, `ThemeConverges`, `FoundIsUsed`, `EditNoticed`): liveness and ENABLED are
out of the prover's reach.

## 5. Not modelled

* Texts, layout, painting, fonts, colours and icons of controls, sorting and scrolling:
  no property is about them, and they keep no state others read.
* Sunrise and sunset: floating-point trigonometry, out of TLC's reach.
* The keepawake worker's command channel: both calls hold one mutex and wait for the
  reply, so nothing can come between.
* Theme repair's files and colours, the tray menu's items, argument parsing and output
  of the command line, the framing of a pipe's line, process enumeration.
* System calls are nondeterministic where the code handles their failure
  (`SetThreadExecutionState`, process snapshots, input readings, window creation,
  file operations, Explorer's answers) and taken as successful where it does not.
* Data races on fields that are read without the loop (`theme_location.go:21` reads the
  settings on the UI thread): they are read in one step.
* Developer tools: excluded from the released program by a build tag.

## 6. What could follow

Every module has its theorems. An abstract "each occurrence is settled once" that
`AutoRules` and `AutomationEvents` implement together, with the refinement of each, would
join two results that are now stated apart. Models left: the keepawake worker's protocol
and the tray menu.
