------------------------------ MODULE Program -------------------------------
(***************************************************************************)
(* The program among other processes: the request loop with its threads,   *)
(* the clients of the pipe, whose lines are closures of the loop, and      *)
(* Explorer, in which the loop and the UI thread show the icon.  A         *)
(* behaviour has either the program's own threads at work, or clients, or  *)
(* an Explorer that comes and goes.                                        *)
(***************************************************************************)
EXTENDS RequestLoop, FiniteSets

CONSTANTS Launches, Commands, MaxConnections, Sides, ProbeLimit, MaxMoves

ASSUME ClientsAssumption == Launches \cap Commands = {} /\ MaxConnections \in Nat \ {0}
ASSUME TrayAssumption == ProbeLimit \in Nat \ {0} /\ MaxMoves \in Nat /\ Sides # {}

VARIABLES
    life, pipe, client, callers,
    tray, shell, probe, news, job, note, theme, dark, seen,
    scene   \* bound: "threads", "clients" or "shell"

Pipe == INSTANCE PipeClients
Tray == INSTANCE TrayIcon

pipeVars == <<life, pipe, client, callers>>
trayVars == <<tray, shell, probe, news, job, note, theme, dark, seen>>
allVars  == <<vars, pipeVars, trayVars, scene>>

Init ==
    /\ requests = <<>> /\ senders = <<>>
    /\ startup = "before"
    /\ serving = "none" /\ work = <<>>
    /\ ui = "idle" /\ hide = FALSE
    /\ at = [t \in Workers |-> "off"]
    /\ stopped = [t \in Workers |-> FALSE]
    /\ Pipe!Init /\ Tray!Init
    /\ scene \in {"threads", "clients", "shell"}
    \* the first theme and size are one of several that are alike
    /\ theme = "light" /\ shell.side = CHOOSE s \in Sides : TRUE
    /\ scene # "shell" => shell.up
-----------------------------------------------------------------------------
\* handleIPCState: "open", or a command that may do anything a reload does
Line(c) == IF c \in Launches THEN "open" ELSE "reload"

ClientKinds == {"open", "reload"}

Running == ui # "gone" /\ life # "ended"

\* handleIPC
Call(c) ==
    /\ scene = "clients" /\ Running
    /\ Pipe!Calls(c)
    /\ Send("other", Line(c))
    /\ UNCHANGED <<startup, serving, work, ui, hide, at, stopped, trayVars, scene>>

\* A closure, or onReady, is over: the server of the pipe has been started, or
\* the client that sent it has its answer
FinishCall ==
    /\ Finish
    /\ CASE serving = "startup"                             -> Pipe!ServerStarts
         [] scene = "clients" /\ serving \in ClientKinds -> Pipe!Answer
         [] OTHER                                           -> UNCHANGED pipeVars

\* The goroutines of the loop and of the pipe run until the process ends: a
\* client may still be told that the tray is not ready
LateAnswer ==
    /\ ui = "gone" /\ life # "ended"
    /\ callers # <<>> /\ Pipe!Answer

\* bound: among clients, the hot keys are the one thread that is wanted, and
\* with Explorer none is
Wanted ==
    \A t \in Workers : CASE scene = "threads" -> TRUE
                         [] scene = "clients" -> t = "hotkey" \/ at'[t] = "off"
                         [] scene = "shell"   -> at'[t] = "off"

Inside(A)  == Running /\ A /\ UNCHANGED <<pipeVars, trayVars, scene>>
Outside(A) == scene = "clients" /\ A /\ UNCHANGED <<vars, trayVars, scene>>
-----------------------------------------------------------------------------
(* The icon *)

Shell(A, B) == scene = "shell" /\ Running /\ A /\ B /\ UNCHANGED <<pipeVars, scene>>

\* registerSystray calls onReady only when the icon has been added
Starts == IF scene = "shell" THEN tray.started ELSE TRUE

\* updateIcon, in the loop or in onReady, and refreshTrayThemeIcon
Asked == serving = "refresh"
Painting == work # <<>> /\ Head(work) = Icon /\ job["loop"] = Tray!Rest

PaintStep ==
    \/ scene # "shell" /\ Inside(Paint)
    \/ Shell(Painting /\ ~Tray!Needed(Asked) /\ Paint, UNCHANGED trayVars)
    \/ Shell(Painting /\ Tray!Needed(Asked) /\ UNCHANGED vars, Tray!Measures)
    \/ Shell(UNCHANGED vars, Tray!Sets(Closing))
    \/ Shell(Paint, Tray!Tips)

\* A panic in the loop ends the process
Crash ==
    /\ scene = "shell" /\ Running /\ Tray!Crashes
    /\ life' = "ended"
    /\ UNCHANGED <<vars, pipe, client, callers, trayVars, scene>>

WindowStep ==
    /\ ~Closing
    /\ \/ Tray!Registers \/ Tray!TaskbarNews \/ Tray!Probe \/ Tray!UIMeasures \/ Tray!UISets
       \/ \E n \in {"display", "start"} : Tray!DisplayNews(n)
       \/ Tray!ThemeNews(startup = "done", Blocked("other"))

NoteStep ==
    \/ Shell(~Blocked("other") /\ Send("other", "refresh")
               /\ UNCHANGED <<startup, serving, work, ui, hide, at, stopped>>, Tray!NoteSent)
    \/ Shell(~Blocked("other") /\ UNCHANGED vars, Tray!NoteEnds)

\* A setting changed in the panel, which updates the icon in any case
Toggles ==
    /\ startup = "done" /\ ~Closing
    /\ OtherSends("reconcile")

ShellMoves ==
    \/ Tray!ThemeChanges(Closing) \/ Tray!DisplayChanges(Closing)
    \/ Tray!ExplorerEnds \/ Tray!ExplorerStarts(Closing)

\* shutdown: the icon is removed before onExit is called
CloseStep ==
    \/ scene # "shell" /\ Inside(UICloses)
    \/ Shell(UICloses, Tray!Closes)
ExitStep ==
    \/ scene # "shell" /\ Inside(UIExits)
    \/ Shell(UIExits, Tray!Removes)
-----------------------------------------------------------------------------
LoopStep ==
    \/ Inside(Loop /\ Wanted /\ (startup = "before" => Starts))
    \/ PaintStep \/ Crash
    \/ Running /\ FinishCall /\ UNCHANGED <<trayVars, scene>>

UIStep == Inside(UI) \/ ExitStep

ShellStep == Shell(UNCHANGED vars, WindowStep) \/ Shell(UNCHANGED vars, Tray!LaysOut) \/ NoteStep

Next ==
    \/ LoopStep \/ UIStep \/ CloseStep \/ ShellStep
    \/ Inside(CloseDialog) \/ Inside(Monitor)
    \/ Inside(\E t \in Workers : GivesUp(t) \/ Leaves(t))
    \/ scene = "threads" /\ Inside(Senders)
    \/ \E c \in Launches \cup Commands :
          Outside(Pipe!Client(c)) \/ Outside(Pipe!Breaks(c)) \/ Call(c)
    \/ Outside(Pipe!CreateEnd) \/ Outside(LateAnswer)
    \/ ui = "gone" /\ (Outside(Pipe!Release) \/ Outside(Pipe!Ends))
    \/ Shell(UNCHANGED vars, ShellMoves)
    \/ Shell(Toggles, Tray!Move /\ UNCHANGED <<tray, shell, probe, news, job, note, theme, dark>>)

\* The goroutines and the UI thread are scheduled, a client that has an end of the
\* pipe writes its line, and Explorer lays out its icons.  Go's select chooses at
\* random between a tick and a closed stop channel, and a thread's queue has an
\* end before its WM_QUIT, so a thread that is to stop and comes back to wait does
\* stop - the loop stops one thread at a time.  The user need not do anything.
Spec ==
    /\ Init /\ [][Next]_allVars
    /\ WF_allVars(LoopStep) /\ WF_allVars(Inside(Monitor)) /\ WF_allVars(UIStep)
    /\ WF_allVars(ShellStep)
    /\ WF_allVars(Inside(\E t \in Workers : GivesUp(t)))
    /\ SF_allVars(Inside(\E t \in Workers : Leaves(t)))
    /\ WF_allVars(Outside(Pipe!CreateEnd))
    /\ WF_allVars(\E c \in Launches \cup Commands : Call(c))
-----------------------------------------------------------------------------
(* Properties *)

Ended == ui = "gone" \/ life = "ended"
AsksUser == work # <<>> /\ Head(work) = Dialog

\* The state is well typed, and at most one program of a session has a hot key,
\* a monitor or a poll: when a launch has taken the mutex, each thread of the
\* program before it has been stopped, and so it has when the UI thread is gone
\* (main.go:66-83, app.go:195-212).  Its icon has gone, too; while it is there,
\* Explorer shows the image the two threads that set it last agreed on, and only
\* an exit that is under way can find it removed too early (icon_windows.go).
Handover ==
    /\ TypeOK /\ Pipe!TypeOK /\ Tray!TypeOK
    /\ (ui = "gone" \/ \E c \in Launches : client[c] = "primary") =>
           ui = "gone" /\ \A t \in Workers : at[t] = "off"
    /\ scene = "shell" =>
           /\ ui = "gone" => tray.life = "gone"
           /\ tray.life = "gone" => shell.shows = Tray!NoImage
           /\ shell.shows \in Tray!Images => seen.refused \/ shell.shows = tray.key
           /\ life = "ended" => Exiting

\* The pipe listens again and again, however many clients connect, break off or
\* wait for the loop, and whatever their commands make the loop do: unless the
\* program exits or a dialog of a command waits for the user, a next client is
\* served (ipc.go:104-139).
PipeReturns ==
    []<>(scene # "clients" \/ pipe = "listen" \/ ui # "idle" \/ CircularWait \/ AsksUser)

\* An exit is completed, at whatever moment it comes, unless an error dialog is
\* waiting for the user or threads already wait in a circle (app.go:195-212).
ExitCompletes == Exiting ~> Ended \/ CircularWait \/ AsksUser

\* However the theme, the display, Explorer and the settings change, in the end
\* the icon is that of the theme, in the size Explorer wants; it misses a change
\* only in the ways of Tray!Misses, or because Explorer was not there when the
\* program started (icon_windows.go:125-190, tray.go:15-30).
IconConverges ==
    <>[](\/ scene # "shell" \/ ~tray.started \/ Closing \/ Ended \/ AsksUser
         \/ ~shell.up \/ Tray!Misses \/ Tray!Current)
=============================================================================
