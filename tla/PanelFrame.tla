----------------------------- MODULE PanelFrame -----------------------------
(***************************************************************************)
(* The window of the control panel while its monitor's DPI or the theme    *)
(* changes (controlpanel/window_messages.go, theme.go and the frame        *)
(* transitions of nativeform/first_frame.go).  A change of DPI hides the   *)
(* window from the compositor ("cloaks" it) and is worked off by two       *)
(* messages the window posts to itself: wmApplyDPI builds fonts and        *)
(* bounds, wmCommitDPI shows the result.  When a message cannot be posted  *)
(* its handler is called in place: `direct` is that call.                  *)
(*                                                                         *)
(* The operators take the window to its next value, or to NoFrame when it  *)
(* is destroyed; the actions are those of ControlPanel.                    *)
(***************************************************************************)
EXTENDS Naturals, Sequences

CONSTANT DPIs             \* of the monitors

ASSUME DPIAssumption == DPIs \subseteq Nat \ {0}

NoFrame == [msgs |-> <<>>, direct |-> "none", cloaked |-> FALSE, pending |-> 0]

(***************************************************************************)
(* pending, generation, ready: pendingDPI, dpiGeneration and               *)
(* dpiReadyGeneration.  transition: dpiTransition # nil.  fonts and bounds *)
(* are the DPI that controls and outer frame have.  monitor is the last    *)
(* DPI Windows told, lost what the last wmApplyDPI failed at.              *)
(***************************************************************************)
NewFrame(dpi) ==
    [monitor |-> dpi, fonts |-> dpi, bounds |-> dpi, lost |-> {},
     pending |-> 0, generation |-> 0, ready |-> 0, failures |-> 0,
     applyPosted |-> FALSE, commitPosted |-> FALSE, transition |-> FALSE,
     cloaked |-> FALSE, msgs |-> <<>>, direct |-> "none"]

\* BeginFrameTransition and its Commit: the compositor leaves the window out
\* until it has been painted once
Cloaked(f) == [f EXCEPT !.cloaked = TRUE]
Presented(f) == [f EXCEPT !.cloaked = FALSE]

EnsureApply(f, posted) ==                                \* ensureDPIApplyPosted
    IF f.applyPosted THEN f
    ELSE IF posted THEN [f EXCEPT !.applyPosted = TRUE, !.msgs = Append(@, "apply")]
    ELSE [f EXCEPT !.direct = "apply"]

EnsureCommit(f, posted) ==                               \* ensureDPICommitPosted
    IF f.commitPosted THEN f
    ELSE IF posted THEN [f EXCEPT !.commitPosted = TRUE, !.msgs = Append(@, "commit")]
    ELSE [f EXCEPT !.direct = "commit"]

\* WM_DPICHANGED.  The system's bounds are those applyDPIWindowSize told it.
QueueDPI(f, dpi, posted) ==
    EnsureApply([(IF f.transition THEN f ELSE Cloaked(f)) EXCEPT
                    !.monitor = dpi, !.pending = dpi, !.generation = @ + 1,
                    !.transition = TRUE, !.bounds = dpi], posted)

\* The window a handler starts with: its message taken, or its call begun
Taken(f, message) ==
    LET g == IF f.direct = message THEN [f EXCEPT !.direct = "none"]
                                   ELSE [f EXCEPT !.msgs = Tail(@)]
    IN  IF message = "apply" THEN [g EXCEPT !.applyPosted = FALSE]
                             ELSE [g EXCEPT !.commitPosted = FALSE]

\* refreshFontsForDPI: all fonts and the controls' bounds, or none
Refonted(f, lost) ==
    [f EXCEPT !.fonts = IF "fonts" \in lost THEN @ ELSE f.pending, !.lost = lost]

\* positionForResolvedDPI: the frame around the fonts there are
Placed(f, lost) == [f EXCEPT !.bounds = IF "place" \in lost THEN @ ELSE f.fonts]

(***************************************************************************)
(* applyPendingDPI.  lost: what fails, the fonts or the placement.  Moving *)
(* the window may bring it to another monitor, whose WM_DPICHANGED is then *)
(* handled before the call returns: nested, 0 when there is none.          *)
(***************************************************************************)
ApplyDPI(f, lost, nested, posted) ==
    LET g == Taken(f, "apply")
        built == Placed(Refonted(g, lost), lost)
    IN  IF g.pending = 0 THEN g
        ELSE IF nested # 0 THEN QueueDPI(built, nested, TRUE)
        ELSE EnsureCommit([built EXCEPT !.ready = built.generation], posted)

Settled(f) == [Presented(f) EXCEPT !.transition = FALSE, !.pending = 0, !.failures = 0]

\* Mutant: what was built for an older change is shown
CommitAny(f, shown, posted) ==
    LET g == Taken(f, "commit")
    IN  IF g.pending = 0 THEN g
        ELSE IF shown THEN Settled(g)
        ELSE IF g.failures + 1 < 3 THEN EnsureCommit([g EXCEPT !.failures = @ + 1], posted)
        ELSE NoFrame

\* Mutant: a window that could not be shown is left to the next change
CommitOnce(f, shown, posted) ==
    LET g == Taken(f, "commit")
    IN  IF g.pending = 0 THEN g
        ELSE IF g.ready # g.generation THEN EnsureApply(g, posted)
        ELSE IF shown THEN Settled(g)
        ELSE [g EXCEPT !.failures = @ + 1]

\* commitPendingDPI.  shown: the compositor lets the window be seen again
CommitDPI(f, shown, posted) ==
    LET g == Taken(f, "commit")
    IN  IF g.pending = 0 THEN g
        ELSE IF g.ready # g.generation THEN EnsureApply(g, posted)
        ELSE IF shown THEN Settled(g)
        ELSE IF g.failures + 1 < 3 THEN EnsureCommit([g EXCEPT !.failures = @ + 1], posted)
        ELSE NoFrame

\* refreshTheme: its own transition, tried three times in the same call
RefreshTheme(f, failing) == IF failing = 3 THEN NoFrame ELSE Presented(Cloaked(f))
-----------------------------------------------------------------------------
(* What the window must never be left in *)

\* How often a message waits; the flags tell once or never
Waiting(f, message) ==
    \E i, j \in DOMAIN f.msgs : i # j /\ f.msgs[i] = message /\ f.msgs[j] = message

\* A window that is hidden, or laid out for the DPI before, is on its way
OnItsWay(f) == f.cloaked \/ f.pending # 0 =>
    f.direct # "none" \/ \E i \in DOMAIN f.msgs : f.msgs[i] \in {"apply", "commit"}

PostedOnce(f) == \A message \in {"apply", "commit"} : ~Waiting(f, message)

\* With nothing pending, controls and frame are those of the monitor, unless
\* Windows could not make the fonts
Fits(f) == f.pending = 0 =>
    /\ f.fonts = f.monitor \/ "fonts" \in f.lost
    /\ f.fonts = f.bounds \/ f.lost = {"fonts", "place"}
=============================================================================
