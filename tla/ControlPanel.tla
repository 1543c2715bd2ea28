---------------------------- MODULE ControlPanel ----------------------------
(***************************************************************************)
(* The control panel (src/internal/ui/controlpanel): its window and popups *)
(* on the UI thread, the goroutine that fetches a snapshot of the settings *)
(* for each opening (app/controlpanel.go), and the request loop that owns  *)
(* the settings and performs what a click asks for                         *)
(* (app/controlpanel_actions.go).  The panel flips its own switch at once  *)
(* and sends the action; nothing tells it what became of it.               *)
(*                                                                         *)
(* `plain` stands for the nine switches that no other one depends on.      *)
(***************************************************************************)
EXTENDS PanelFrame, FiniteSets

CONSTANTS
    Languages,
    Minutes,          \* timeoutMinutes
    DefaultMinutes,   \* DefaultIdleTimeoutMinutes, one of them
    Settings,         \* what the configuration may hold at the start
    Budgets           \* bounds: how often each thing may happen in a run

ASSUME PanelAssumption ==
    /\ DefaultMinutes \in Minutes /\ Minutes \subseteq Nat \ {0}
    /\ Settings \subseteq [noSleep : BOOLEAN, minutes : Minutes \cup {0}, automation : BOOLEAN,
                           plain : BOOLEAN, language : Languages]
    /\ Budgets \subseteq [clicks : Nat, opens : Nat, outside : Nat, dpi : Nat, theme : Nat, faults : Nat]

VARIABLES
    cfg,          \* s.cfg
    starting,     \* goroutines that have not asked for their snapshot
    calls,        \* requestCh
    ready,        \* goroutines that have it
    tasks,        \* closures posted to the UI thread
    panel,        \* active, or NoPanel
    frame,        \* its window
    choice,       \* p.choice, with the serial number of the popup it holds
    popups,       \* popup windows, by serial number
    opens,        \* openings begun
    left          \* what is left of the budget

app == <<cfg, starting, calls, ready>>
ui == <<panel, frame, choice, popups>>
panelVars == <<app, tasks, ui, opens, left>>

NoPanel == [n |-> 0]
Visible == panel # NoPanel
NoChoice == [id |-> "none", popup |-> 0, serial |-> 0]
ChoiceTriggers == {"minutes", "language", "quick"}

Spend(what) == left[what] > 0 /\ left' = [left EXCEPT ![what] = @ - 1]
Spare(what, n) == left[what] >= n /\ left' = [left EXCEPT ![what] = @ - n]
Count(b) == IF b THEN 0 ELSE 1              \* of one failure

Do(what, value) == [what |-> what, value |-> value]
-----------------------------------------------------------------------------
(* The settings, and what the panel shows of them *)

NoSleepSet(c, on) == [c EXCEPT !.noSleep = on, !.minutes = IF on THEN 0 ELSE @]
MinutesSet(c, m) == [c EXCEPT !.minutes = m, !.noSleep = IF m > 0 THEN FALSE ELSE @]

Performed(c, action) ==                     \* handleControlPanelAction
    CASE action.what = "noSleep" -> NoSleepSet(c, ~c.noSleep)
      [] action.what = "idle" -> MinutesSet(c, IF c.minutes > 0 THEN 0 ELSE DefaultMinutes)
      [] action.what = "minutes" -> MinutesSet(c, action.value)
      [] action.what = "automation" -> [c EXCEPT !.automation = ~@]
      [] action.what = "plain" -> [c EXCEPT !.plain = ~@]
      [] action.what = "language" -> [c EXCEPT !.language = action.value]

Switches(c) == [noSleep |-> c.noSleep, idle |-> c.minutes > 0, automation |-> c.automation,
                plain |-> c.plain, language |-> c.language]

\* Mutant: staying awake and the idle monitor do not exclude each other
FlippedAlone(shown, id) == [shown EXCEPT ![id] = ~@]

Flipped(shown, id) ==                       \* toggleCommand
    LET s == [shown EXCEPT ![id] = ~@]
    IN  CASE id = "noSleep" /\ s.noSleep -> [s EXCEPT !.idle = FALSE]
          [] id = "idle" /\ s.idle -> [s EXCEPT !.noSleep = FALSE]
          [] OTHER -> s

\* Mutant: the value is taken as it is
SupportedAsIs(m) == m

\* supportedTimeout: a value that is not offered is shown as the default
Supported(m) == IF m \in Minutes THEN m ELSE DefaultMinutes

\* applyDependentStates: the controls of the idle monitor are off without it
Dim(shown) == ~shown.idle

\* createPanelForHost, and the end of build
Built(n, snap) ==
    [n |-> n, shown |-> Switches(snap.cfg), minutes |-> Supported(snap.cfg.minutes),
     caption |-> snap.cfg.language, dim |-> Dim(Switches(snap.cfg)), overtaken |-> snap.overtaken]
-----------------------------------------------------------------------------
(* Popups.  A popup window that closes reports to its OnClose, which knows  *)
(* the serial number it was opened under.                                   *)

\* closeChoice: an OnClose that comes now is that of a popup given up
GivenUp == IF choice.id = "none" THEN choice ELSE [NoChoice EXCEPT !.serial = choice.serial + 1]

\* Mutant: the popup is forgotten, its window stays
ForgetChoice == choice' = GivenUp /\ UNCHANGED popups

CloseChoice == choice' = GivenUp /\ popups' = popups \ {choice.popup}

\* The popup window closes by itself: choice after its OnClose
Reported(serial) == IF choice.serial = serial THEN [NoChoice EXCEPT !.serial = serial] ELSE choice

\* ShowChoicePopup: a popup that loses the focus while it is shown is gone
Window(serial, opened) == IF opened THEN {serial} ELSE {}

\* openPopup.  opened: ShowChoicePopup makes a window that keeps the focus
OpenPopup(id, opened) ==
    IF id = "minutes" /\ panel.dim THEN UNCHANGED <<choice, popups>>
    ELSE IF choice.id = id /\ choice.popup \in popups THEN CloseChoice
    ELSE LET serial == GivenUp.serial + 1
         IN  /\ choice' = IF opened THEN [id |-> id, popup |-> serial, serial |-> serial]
                                    ELSE [NoChoice EXCEPT !.serial = serial]
             /\ popups' = (popups \ {choice.popup}) \cup Window(serial, opened)
-----------------------------------------------------------------------------
(* The life of the window *)

Destroy ==                                  \* DestroyWindow, WM_DESTROY: clearPanel
    panel' = NoPanel /\ frame' = NoFrame /\ choice' = NoChoice /\ popups' = {}

(***************************************************************************)
(* createPanel, on the monitor of the cursor.  ok: window, fonts, controls *)
(* and first frame could be made.  When the cursor leaves the monitor in   *)
(* the meantime the window meets its first WM_DPICHANGED (moved) before it *)
(* is shown.                                                               *)
(***************************************************************************)
Create(task, dpi, moved, ok) ==
    IF ~ok THEN Destroy
    ELSE /\ panel' = Built(task.n, task)
         /\ frame' = IF moved = 0 THEN NewFrame(dpi)
                     ELSE [QueueDPI(NewFrame(dpi), moved, TRUE) EXCEPT !.cloaked = FALSE]
         /\ choice' = NoChoice /\ popups' = {}

PanelInit ==
    /\ cfg \in Settings /\ left \in Budgets
    /\ starting = {} /\ calls = <<>> /\ ready = {} /\ tasks = <<>>
    /\ panel = NoPanel /\ frame = NoFrame /\ choice = NoChoice /\ popups = {}
    /\ opens = 0

Begin(refresh) ==                           \* openControlPanel: go prepareControlPanel
    /\ opens' = opens + 1
    /\ starting' = starting \cup {[n |-> opens + 1, refresh |-> refresh]}

LeftClick ==                                \* showControlPanel, no editor being open
    /\ Spend("opens") /\ Begin(FALSE)
    /\ UNCHANGED <<cfg, calls, ready, tasks, ui>>

\* prepareControlPanel: the request for the snapshot, and the task with it
Ask(g) ==
    /\ starting' = starting \ {g}
    /\ calls' = Append(calls, [do |-> "snapshot", by |-> g.n, refresh |-> g.refresh])
    /\ UNCHANGED <<cfg, ready, tasks, ui, opens, left>>

Send(snap) ==
    /\ ready' = ready \ {snap}
    /\ tasks' = Append(tasks, snap)
    /\ UNCHANGED <<cfg, starting, calls, ui, opens, left>>
-----------------------------------------------------------------------------
(* The request loop *)

ShowAutomation(c) == [do |-> "automation", on |-> c.automation]   \* UpdateAutomationStatus

Overtaken(snap) == IF "overtaken" \in DOMAIN snap THEN [snap EXCEPT !.overtaken = TRUE] ELSE snap

(***************************************************************************)
(* The settings change, by a panel's action or (by = 0) from elsewhere:    *)
(* snapshots not yet shown, and a panel other than the one that asked, do  *)
(* not hold any more.  This is remembered; the program does not know it.   *)
(***************************************************************************)
Change(c, by, posted) ==
    /\ cfg' = c
    /\ ready' = {[snap EXCEPT !.overtaken = TRUE] : snap \in ready}
    /\ tasks' = [i \in DOMAIN tasks |-> Overtaken(tasks[i])] \o posted
    /\ panel' = IF Visible /\ panel.n # by THEN [panel EXCEPT !.overtaken = TRUE] ELSE panel

TakeSnapshot(call) ==
    /\ ready' = ready \cup {[do |-> IF call.refresh THEN "refresh" ELSE "show",
                             n |-> call.by, cfg |-> cfg, overtaken |-> FALSE]}
    /\ UNCHANGED <<cfg, tasks, panel, left>>

Perform(call) ==
    \/ /\ Change(Performed(cfg, call.action), call.by,
                 CASE call.action.what = "automation" -> <<ShowAutomation(Performed(cfg, call.action))>>
                   [] call.action.what = "language" /\ call.action.value # cfg.language -> <<[do |-> "reopen"]>>
                   [] OTHER -> <<>>)
       /\ UNCHANGED left
    \* autostart refuses: the switch keeps what the click made of it
    \/ /\ call.action.what = "plain" /\ Spend("faults")
       /\ panel' = IF Visible /\ panel.n = call.by THEN [panel EXCEPT !.overtaken = TRUE] ELSE panel
       /\ UNCHANGED <<cfg, ready, tasks>>

\* A hot key, a command or an automation event; reloadConfig
ChangeOutside(call) ==
    /\ UNCHANGED left
    /\ IF call.do = "hotkey" THEN Change(NoSleepSet(cfg, ~cfg.noSleep), 0, <<>>)
       ELSE \E c \in Settings : Change(c, 0, <<[do |-> "hide"]>>)

Serve ==
    /\ calls # <<>> /\ calls' = Tail(calls)
    /\ CASE Head(calls).do = "snapshot" -> TakeSnapshot(Head(calls))
         [] Head(calls).do = "action" -> Perform(Head(calls))
         [] OTHER -> ChangeOutside(Head(calls))
    /\ UNCHANGED <<starting, frame, choice, popups, opens>>

Outside(do) ==
    /\ Spend("outside")
    /\ calls' = Append(calls, [do |-> do])
    /\ UNCHANGED <<cfg, starting, ready, tasks, ui, opens>>
-----------------------------------------------------------------------------
(* The UI thread: tasks *)

Free == frame.direct = "none"               \* no handler of the frame is running

\* Mutant: Refresh leaves a panel that is there alone
KeepVisible(task) ==
    /\ UNCHANGED <<starting, opens, left>>
    /\ IF Visible THEN UNCHANGED ui
       ELSE \E dpi \in DPIs : Create(task, dpi, 0, TRUE)

\* drainUITasks.  Show makes the panel go if it is there, Refresh always makes one
ShowOrRefresh(task) ==
    /\ UNCHANGED <<starting, opens>>
    /\ IF task.do = "show" /\ Visible THEN Destroy /\ UNCHANGED left
       ELSE \E dpi \in DPIs, moved \in DPIs \cup {0}, ok \in BOOLEAN :
                /\ moved # 0 => moved # dpi /\ left.dpi > 0
                /\ ~ok => moved = 0 /\ left.faults > 0
                /\ Create(task, dpi, moved, ok)
                /\ left' = [left EXCEPT !.dpi = @ - (IF moved = 0 THEN 0 ELSE 1), !.faults = @ - Count(ok)]

UpdateAutomation(on) ==
    panel' = IF Visible THEN [panel EXCEPT !.shown.automation = on] ELSE panel

RunTask ==
    /\ Free /\ tasks # <<>> /\ tasks' = Tail(tasks)
    /\ LET task == Head(tasks)
       IN  CASE task.do \in {"show", "refresh"} -> ShowOrRefresh(task)
             [] task.do = "hide" -> Destroy /\ UNCHANGED <<starting, opens, left>>
             [] task.do = "automation" -> /\ UpdateAutomation(task.on)
                                          /\ UNCHANGED <<starting, frame, choice, popups, opens, left>>
             [] task.do = "reopen" -> Begin(TRUE) /\ UNCHANGED <<ui, left>>
    /\ UNCHANGED <<cfg, calls, ready>>
-----------------------------------------------------------------------------
(* The UI thread: the user *)

Act(what, value) ==
    calls' = Append(calls, [do |-> "action", by |-> panel.n, action |-> Do(what, value)])

ClickSwitch(id) ==                          \* handleCommand, toggleCommand
    /\ Free /\ Visible /\ Spend("clicks")
    /\ LET shown == Flipped(panel.shown, id)
       IN  panel' = [panel EXCEPT !.shown = shown,
                                  !.dim = IF id \in {"noSleep", "idle"} THEN Dim(shown) ELSE @]
    /\ CloseChoice                          \* WM_LBUTTONDOWN
    /\ Act(id, 0)
    /\ UNCHANGED <<cfg, starting, ready, tasks, frame, opens>>

\* WM_CLOSE, or a command that closes the panel; its action is none of ours
Leave ==
    /\ Free /\ Visible /\ Spend("clicks") /\ Destroy
    /\ UNCHANGED <<app, tasks, opens>>

ClickTrigger(id) ==                         \* closeOpenMenus, but for its own popup
    /\ Free /\ Visible /\ Spend("clicks")
    /\ IF id = "minutes" /\ panel.dim THEN CloseChoice
       ELSE \E opened \in BOOLEAN : OpenPopup(id, opened)
    /\ UNCHANGED <<app, tasks, panel, frame, opens>>

KeyOnTrigger(id) ==                         \* requestChoice; the focus is on the button
    /\ Free /\ Visible /\ popups = {} /\ Spend("clicks")
    /\ id = "minutes" => ~panel.dim
    /\ frame' = [frame EXCEPT !.msgs = Append(@, id)]
    /\ UNCHANGED <<app, tasks, panel, choice, popups, opens>>

OpenRequested ==                            \* wmOpenChoice
    /\ Free /\ frame.msgs # <<>> /\ Head(frame.msgs) \in ChoiceTriggers
    /\ frame' = [frame EXCEPT !.msgs = Tail(@)]
    /\ \E opened \in BOOLEAN : OpenPopup(Head(frame.msgs), opened)
    /\ UNCHANGED <<app, tasks, panel, opens, left>>

\* Escape, or the focus goes elsewhere
DismissPopup(serial) ==
    /\ Free /\ popups' = popups \ {serial} /\ choice' = Reported(serial)
    /\ UNCHANGED <<app, tasks, panel, frame, opens, left>>

ChosenMinutes(m) ==                         \* applyChoice, applyTimeoutChoice
    [panel EXCEPT !.minutes = m, !.dim = FALSE, !.shown.idle = TRUE, !.shown.noSleep = FALSE]

ChooseMinutes(m) ==                         \* the row in use does nothing
    /\ choice.id = "minutes" /\ panel.minutes # m
    /\ panel' = ChosenMinutes(m)
    /\ Act("minutes", m)

ChooseLanguage(l) ==
    /\ choice.id = "language" /\ panel.shown.language # l
    /\ panel' = [panel EXCEPT !.shown.language = l]
    /\ Act("language", l)

\* apply: the popup closes before what was chosen is done
ChooseRow(serial) ==
    /\ Free /\ Visible
    /\ popups' = popups \ {serial} /\ choice' = Reported(serial)
    /\ (\E m \in Minutes : ChooseMinutes(m)) \/ (\E l \in Languages : ChooseLanguage(l))
    /\ UNCHANGED <<cfg, starting, ready, tasks, frame, opens, left>>

\* a quick action: it closes the panel as well
ChooseQuick ==
    /\ Free /\ Visible /\ choice.id = "quick" /\ popups # {} /\ Destroy
    /\ UNCHANGED <<app, tasks, opens, left>>
-----------------------------------------------------------------------------
(* The UI thread: the frame *)

\* The window after a handler of the frame; every rebuilding closes the popup
Framed(f, closes) ==
    IF f = NoFrame THEN Destroy
    ELSE /\ frame' = f /\ UNCHANGED panel
         /\ IF closes THEN CloseChoice ELSE UNCHANGED <<choice, popups>>

ChangeDPI ==
    /\ Free /\ Visible
    /\ \E dpi \in DPIs, posted \in BOOLEAN :
           /\ dpi # frame.monitor /\ left.dpi > 0 /\ left.faults >= Count(posted)
           /\ left' = [left EXCEPT !.dpi = @ - 1, !.faults = @ - Count(posted)]
           /\ Framed(QueueDPI(frame, dpi, posted), FALSE)
    /\ UNCHANGED <<app, tasks, opens>>

Due(message) ==
    frame.direct = message \/ (Free /\ frame.msgs # <<>> /\ Head(frame.msgs) = message)

Apply ==
    /\ Due("apply")
    /\ \E lost \in SUBSET {"fonts", "place"}, nested \in DPIs \cup {0}, posted \in BOOLEAN :
           /\ left.faults >= Cardinality(lost) + Count(posted)
           /\ nested # 0 => nested # frame.monitor /\ left.dpi > 0 /\ posted /\ "place" \notin lost
           /\ left' = [left EXCEPT !.faults = @ - Cardinality(lost) - Count(posted),
                                   !.dpi = @ - (IF nested = 0 THEN 0 ELSE 1)]
           /\ Framed(ApplyDPI(frame, lost, nested, posted), frame.pending # 0)
    /\ UNCHANGED <<app, tasks, opens>>

Commit ==
    /\ Due("commit")
    /\ \E shown, posted \in BOOLEAN :
           /\ Spare("faults", Count(shown) + Count(posted))
           /\ Framed(CommitDPI(frame, shown, posted), FALSE)
    /\ UNCHANGED <<app, tasks, opens>>

ChangeTheme ==                              \* to another palette, or after a repair
    /\ Free /\ Visible
    /\ \E failing \in 0 .. 3 :
           /\ left.theme > 0 /\ left.faults >= failing
           /\ left' = [left EXCEPT !.theme = @ - 1, !.faults = @ - failing]
           /\ Framed(RefreshTheme(frame, failing), TRUE)
    /\ UNCHANGED <<app, tasks, opens>>
-----------------------------------------------------------------------------
PanelNext ==
    \/ LeftClick \/ Leave
    \/ \E g \in starting : Ask(g)
    \/ \E snap \in ready : Send(snap)
    \/ Serve \/ RunTask
    \/ Outside("hotkey") \/ Outside("reload")
    \/ \E id \in {"noSleep", "idle", "automation", "plain"} : ClickSwitch(id)
    \/ \E id \in ChoiceTriggers : ClickTrigger(id) \/ KeyOnTrigger(id)
    \/ OpenRequested \/ ChooseQuick
    \/ \E serial \in popups : DismissPopup(serial) \/ ChooseRow(serial)
    \/ ChangeDPI \/ Apply \/ Commit \/ ChangeTheme

PanelSpec == PanelInit /\ [][PanelNext]_panelVars
-----------------------------------------------------------------------------
(* Properties *)

\* The parts of the state keep their types.
PanelTypes ==
    /\ cfg \in [noSleep : BOOLEAN, minutes : Minutes \cup {0}, automation : BOOLEAN,
                plain : BOOLEAN, language : Languages]
    /\ starting \subseteq [n : 1 .. opens, refresh : BOOLEAN]
    /\ (Visible <=> frame # NoFrame) /\ (Visible => panel.minutes \in Minutes /\ panel.n \in 1 .. opens)
    /\ choice.id \in ChoiceTriggers \cup {"none"} /\ \A serial \in popups : serial <= choice.serial

\* A window that is hidden from the compositor, or laid out for the DPI of
\* the monitor it left, always has the message or call on its way that ends
\* this (shown, or destroyed after three attempts), and never the same
\* message twice, whatever could not be posted, made or shown meanwhile
\* (queueDPIChange, ensureDPIApplyPosted, ensureDPICommitPosted).
CloakEnds == OnItsWay(frame) /\ PostedOnce(frame)

\* Once nothing is pending, what is shown was made for the last DPI the window
\* was told, not for one that a nested or later change replaced
\* (commitPendingDPI, dpiFrameReady).
ShownFrameFits == Visible => Fits(frame)

\* There is never more than one popup window; the panel knows which trigger it
\* belongs to and forgets it exactly when it is gone (openPopup, closeChoice
\* and the serial number its OnClose compares).
OnePopup ==
    /\ popups = IF choice.id = "none" THEN {} ELSE {choice.popup}
    /\ choice.popup \in popups => choice.popup = choice.serial

\* The state is well typed, every frame is shown in the end and fits, and the
\* popups are the panel's.
FramesArrive == PanelTypes /\ CloakEnds /\ ShownFrameFits /\ OnePopup

\* c, when the calls in s have been served and nobody but panel n has clicked
Clicked(call, n) == call.do = "action" /\ call.by = n
Served(c, call, n) == IF Clicked(call, n) THEN Performed(c, call.action) ELSE c
After(c, s, n) ==
    LET f[i \in 0 .. Len(s)] == IF i = 0 THEN c ELSE Served(f[i - 1], s[i], n)
    IN  f[Len(s)]
NoClicks == \A i \in DOMAIN calls : ~Clicked(calls[i], panel.n)
NoUpdates == \A i \in DOMAIN tasks : tasks[i].do # "automation"

\* What the panel shows is what the settings will be when its own clicks have
\* been worked off, and the controls of the idle monitor are off exactly
\* while it shows that off; unless the settings were changed elsewhere after
\* its snapshot was taken, or autostart refused.  The automation switch is also set
\* by updates, which clicks may overtake, but the last one tells the truth.
PanelFollowsConfig ==
    Visible =>
    /\ panel.dim = ~panel.shown.idle
    /\ ~panel.overtaken =>
       LET c == Switches(After(cfg, calls, panel.n))
       IN  /\ [panel.shown EXCEPT !.automation = FALSE] = [c EXCEPT !.automation = FALSE]
           /\ NoClicks /\ NoUpdates => panel.shown.automation = c.automation

Quiet == starting = {} /\ calls = <<>> /\ ready = {} /\ tasks = <<>>

\* A language chosen on the panel reaches the texts of the panel: when
\* everything has settled, the panel that is shown has them in the language of the
\* settings, though another opening or closing may have come between.
TextsFollowLanguage == Visible /\ Quiet /\ ~panel.overtaken => panel.caption = cfg.language

\* What the user reads on the panel is up to date: its switches, and the
\* language of its texts.
PanelIsUpToDate == PanelFollowsConfig /\ TextsFollowLanguage
=============================================================================
