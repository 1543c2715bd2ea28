------------------------------ MODULE TrayIcon ------------------------------
(***************************************************************************)
(* The icon in the notification area (src/internal/ui/trayicon) and what   *)
(* the request loop shows in it (updateIcon, src/internal/app/tray.go).    *)
(* Two threads set it: the loop, when the theme or a status has changed,   *)
(* and the UI thread, which asks Explorer for two seconds after each       *)
(* change of the display what size it would like (the "convergence").      *)
(* Explorer may not be there, at the start or later, and takes every icon  *)
(* with it.                                                                *)
(*                                                                         *)
(* When the threads run, and when the program exits, is RequestLoop's;     *)
(* Program composes the two.                                               *)
(***************************************************************************)
EXTENDS Naturals, FiniteSets

CONSTANTS
    Sides,       \* the sizes Explorer asks for
    ProbeLimit,  \* trayIconProbeLimit (16)
    MaxMoves     \* bound: changes of the theme, of the display and of Explorer

Themes   == {"light", "dark"}
Fallback == "largest"                            \* 64: no Explorer to ask
Images   == Themes \X (Sides \cup {Fallback})    \* loadedImageKey
NoImage  == <<"none", "none">>

VARIABLES
    tray,   \* the icon as winTray has it: nid (life), its icon, trayIconKey
    shell,  \* Explorer: up, the icon it shows, the size it wants and will want
    probe,  \* trayIconProbeAttempt, or Off without the timer
    news,   \* messages in the window's queue
    job,    \* thread -> an update under way
    note,   \* themeChangePending: "none", "asked" (a goroutine) or "sent"
    theme,  \* theme.Current
    dark,   \* trayThemeDark: the theme of the last update
    seen    \* history: changes that are missed in the ways the code cannot avoid
            \* or does not (Misses), and the moves so far

trayVars == <<tray, shell, probe, news, job, note, theme, dark, seen>>

Off  == ProbeLimit + 1
Rest == [at |-> "rest", image |-> NoImage]

TypeOK ==
    /\ tray.life \in {"new", "there", "gone"} /\ tray.started \in BOOLEAN
    /\ {tray.icon, tray.key} \subseteq Images \cup {NoImage}
    /\ shell.up \in BOOLEAN /\ shell.shows \in Images \cup {<<"blank">>, NoImage}
    /\ {shell.side, shell.coming} \subseteq Sides
    /\ probe \in 0 .. ProbeLimit - 1 \cup {Off}
    /\ news \subseteq {"display", "theme", "taskbar", "start"}
    /\ job \in [{"loop", "ui"} -> [at: {"rest", "measure", "set", "tip"},
                                   image: (Themes \cup {"none"}) \X (Sides \cup {Fallback, "none"})]]
    /\ note \in {"none", "asked", "sent"}
    /\ theme \in Themes /\ dark \in Themes \cup {"none"}
    /\ seen.refused \in BOOLEAN /\ seen.lost \in BOOLEAN /\ seen.moves \in 0 .. MaxMoves

Init ==
    /\ tray = [life |-> "new", started |-> FALSE, icon |-> NoImage, key |-> NoImage]
    /\ \E up \in BOOLEAN, s \in Sides :
          shell = [up |-> up, shows |-> NoImage, side |-> s, coming |-> s]
    /\ probe = Off /\ news = {} /\ note = "none"
    /\ job = [t \in {"loop", "ui"} |-> Rest]
    /\ theme \in Themes /\ dark = "none"
    /\ seen = [refused |-> FALSE, lost |-> FALSE, moves |-> 0]

HasWindow == tray.life = "there"
UIRests   == job["ui"] = Rest
-----------------------------------------------------------------------------
(* The notification icon *)

\* Shell_NotifyIcon: Explorer takes an icon to add, or to modify if it has it
Shown(icon) == IF icon = NoImage THEN <<"blank">> ELSE icon

\* initInstance and registerSystray.  Without Explorer the icon is refused, and
\* onReady is never called.
Registers ==
    /\ tray.life = "new"
    /\ tray' = [tray EXCEPT !.life = "there", !.started = shell.up]
    /\ shell' = IF shell.up THEN [shell EXCEPT !.shows = Shown(NoImage)] ELSE shell
    /\ UNCHANGED <<probe, news, job, note, theme, dark, seen>>

\* desiredTrayIconSide
Side == IF shell.up THEN shell.side ELSE Fallback

\* setIconAtSizeLocked for another image than trayIconKey: the handle stays in
\* nid although Explorer may have no icon to modify
Recorded(image) ==
    /\ tray' = [tray EXCEPT !.icon = image, !.key = IF shell.shows = NoImage THEN @ ELSE image]
    /\ shell' = IF shell.shows = NoImage THEN shell ELSE [shell EXCEPT !.shows = image]
    /\ seen' = [seen EXCEPT !.refused = @ \/ shell.shows = NoImage]

Accepted == shell.shows # NoImage
SetImage(image) ==
    IF image = tray.key THEN UNCHANGED <<tray, shell, seen>> ELSE Recorded(image)
-----------------------------------------------------------------------------
(* The UI thread *)

\* startTrayIconConvergence
Converge == probe' = 0 /\ job' = [job EXCEPT !["ui"] = [at |-> "measure", image |-> NoImage]]

\* WM_DISPLAYCHANGE, WM_DPICHANGED, and setIcon's message
DisplayNews(n) ==
    /\ n \in news \cap {"display", "start"} /\ UIRests
    /\ news' = news \ {n}
    /\ Converge
    /\ UNCHANGED <<tray, shell, note, theme, dark, seen>>

\* WM_SETTINGCHANGE for the theme.  notifyThemeChange asks for one refresh at a
\* time; before onReady has set the callback nobody is told, and a change is
\* lost that falls between the refresh asked for and the end of its goroutine.
ThemeNews(hasCallback, waiting) ==
    /\ "theme" \in news /\ UIRests
    /\ news' = news \ {"theme"}
    /\ Converge
    /\ note' = IF hasCallback /\ note = "none" THEN "asked" ELSE note
    /\ seen' = [seen EXCEPT !.lost = @ \/ ~hasCallback \/ (note = "sent" /\ ~waiting)]
    /\ UNCHANGED <<tray, shell, theme, dark>>

\* TaskbarCreated: Explorer is back
TaskbarNews ==
    /\ "taskbar" \in news /\ UIRests
    /\ news' = news \ {"taskbar"}
    /\ shell' = IF shell.up THEN [shell EXCEPT !.shows = Shown(tray.icon)] ELSE shell
    /\ Converge
    /\ UNCHANGED <<tray, note, theme, dark, seen>>

\* Mutant of Probe: the first probe is the last
ProbeOnce ==
    /\ probe # Off /\ UIRests
    /\ probe' = Off
    /\ job' = [job EXCEPT !["ui"] = [at |-> "measure", image |-> NoImage]]
    /\ UNCHANGED <<tray, shell, news, note, theme, dark, seen>>

\* continueTrayIconConvergence.  Explorer has laid out its icons before the last
\* probe, two seconds after the change
Probe ==
    /\ probe # Off /\ UIRests
    /\ probe + 1 = ProbeLimit => shell.side = shell.coming
    /\ probe' = IF probe + 1 = ProbeLimit THEN Off ELSE probe + 1
    /\ job' = [job EXCEPT !["ui"] = [at |-> "measure", image |-> NoImage]]
    /\ UNCHANGED <<tray, shell, news, note, theme, dark, seen>>

\* refreshTrayIconFromShell: the size is asked for without the lock,
UIMeasures ==
    /\ job["ui"].at = "measure"
    /\ job' = [job EXCEPT !["ui"] = [at |-> "set", image |-> <<"none", Side>>]]
    /\ UNCHANGED <<tray, shell, probe, news, note, theme, dark, seen>>

\* and set with it, for the resource of trayIconKey
UISets ==
    /\ job["ui"].at = "set"
    /\ job' = [job EXCEPT !["ui"] = Rest]
    /\ IF tray.key = NoImage
       THEN UNCHANGED <<tray, shell, seen>>
       ELSE SetImage(<<tray.key[1], job["ui"].image[2]>>)
    /\ UNCHANGED <<probe, news, note, theme, dark>>

\* The window goes, with its timer and what is in its queue
Closes ==
    /\ HasWindow /\ UIRests
    /\ probe' = Off /\ news' = {}
    /\ UNCHANGED <<tray, shell, job, note, theme, dark, seen>>

\* Mutant of Removed: Explorer keeps the icon
RemovedHere ==
    /\ tray' = [tray EXCEPT !.life = "gone", !.icon = NoImage, !.key = NoImage]
    /\ shell' = shell

\* removeNotificationIcon, which also destroys the images
Removed ==
    /\ tray' = [tray EXCEPT !.life = "gone", !.icon = NoImage, !.key = NoImage]
    /\ shell' = [shell EXCEPT !.shows = NoImage]
Removes == Removed /\ UNCHANGED <<probe, news, job, note, theme, dark, seen>>
-----------------------------------------------------------------------------
(* The request loop *)

\* updateIcon, unless refreshTrayThemeIcon finds nothing new
Needed(asked) == asked => theme # dark
Measures ==
    /\ job["loop"] = Rest
    /\ job' = [job EXCEPT !["loop"] = [at |-> "set", image |-> <<theme, Side>>]]
    /\ UNCHANGED <<tray, shell, probe, news, note, theme, dark, seen>>

\* With the images gone, their map is nil and cannot be written to
Crashes == job["loop"].at # "rest" /\ tray.life = "gone"

\* setIcon.  After a failure no convergence is asked for; trayThemeDark is set
\* all the same
Sets(closing) ==
    /\ job["loop"].at = "set" /\ HasWindow
    /\ SetImage(job["loop"].image)
    /\ dark' = job["loop"].image[1]
    /\ job' = [job EXCEPT !["loop"].at = "tip"]
    /\ news' = IF closing \/ ~(Accepted \/ job["loop"].image = tray.key)
               THEN news ELSE news \cup {"start"}
    /\ UNCHANGED <<probe, note, theme>>

\* SetTooltip, whose text no thread else writes
Tips ==
    /\ job["loop"].at = "tip" /\ HasWindow
    /\ job' = [job EXCEPT !["loop"] = Rest]
    /\ UNCHANGED <<tray, shell, probe, news, note, theme, dark, seen>>
-----------------------------------------------------------------------------
(* The goroutine of notifyThemeChange *)

NoteSent ==
    /\ note = "asked" /\ note' = "sent"
    /\ UNCHANGED <<tray, shell, probe, news, job, theme, dark, seen>>

\* Its post has returned
NoteEnds ==
    /\ note = "sent" /\ note' = "none"
    /\ UNCHANGED <<tray, shell, probe, news, job, theme, dark, seen>>
-----------------------------------------------------------------------------
(* Explorer, the display and the theme *)

\* bound: MaxMoves
Move == seen.moves < MaxMoves /\ seen' = [seen EXCEPT !.moves = @ + 1]
Told(n, closing) == news' = IF HasWindow /\ ~closing THEN news \cup {n} ELSE news

ThemeChanges(closing) ==
    /\ Move
    /\ \E t \in Themes \ {theme} : theme' = t
    /\ Told("theme", closing)
    /\ UNCHANGED <<tray, shell, probe, job, note, dark>>

\* The windows are told before Explorer has laid out its icons
DisplayChanges(closing) ==
    /\ Move
    /\ \E s \in Sides \ {shell.coming} : shell' = [shell EXCEPT !.coming = s]
    /\ Told("display", closing)
    /\ UNCHANGED <<tray, probe, job, note, theme, dark>>

LaysOut ==
    /\ shell.side # shell.coming
    /\ shell' = [shell EXCEPT !.side = shell.coming]
    /\ UNCHANGED <<tray, probe, news, job, note, theme, dark, seen>>

ExplorerEnds ==
    /\ Move
    /\ shell.up /\ shell' = [shell EXCEPT !.up = FALSE, !.shows = NoImage]
    /\ UNCHANGED <<tray, probe, news, job, note, theme, dark>>

ExplorerStarts(closing) ==
    /\ ~shell.up /\ shell' = [shell EXCEPT !.up = TRUE]
    /\ Told("taskbar", closing)
    /\ UNCHANGED <<tray, probe, job, note, theme, dark, seen>>
-----------------------------------------------------------------------------
(* What the compositions say of it *)

\* An update that Explorer refused leaves nid, trayIconKey and trayThemeDark with
\* three images; a change of the theme may be told to nobody
Misses == seen.refused \/ seen.lost

Current == shell.shows = <<theme, shell.side>> /\ shell.side = shell.coming
=============================================================================
