-------------------------- MODULE AutomationPanel --------------------------
(***************************************************************************)
(* The automation manager and editor: the window of                        *)
(* src/internal/ui/automationpanel on the UI thread, the control panel     *)
(* that owns it, the process picker and the message boxes it opens, and    *)
(* its other half in the request loop (src/internal/app/automation.go):    *)
(* the rules in s.cfg, the closures the loop posts to the UI thread        *)
(* (trayicon.Post) and the save the UI thread waits for.                   *)
(*                                                                         *)
(* A revision is a hash of the file's text: here it is what the file says. *)
(* What is in a rule is one word (RuleForm has the fields): "blank" and    *)
(* "wrong" drafts are refused by validateDraft, a "faulty" rule has an     *)
(* issue and makes PrepareRules refuse every list it is in, a "shy" one    *)
(* reads back from untouched controls as something else.                   *)
(***************************************************************************)
EXTENDS Naturals, Sequences, FiniteSets, SequencesExt

CONSTANTS
    Ids,            \* rule IDs
    FileRules,      \* rule lists somebody may write into the file
    MaxPosts,       \* bound: closures waiting for the UI thread
    MaxOutside,     \* bound: changes of the rules that do not come from the panel
    MaxSaves,       \* bound: saves by the panel
    MaxControls     \* bound: clicks on the tray icon

None == [kind |-> "none"]
Bodies == {"blank", "wrong", "plain", "edited", "shy", "faulty"}
Rules  == [id : Ids, on : BOOLEAN, body : Bodies]

ASSUME PanelAssumption ==
    /\ Ids # {}
    /\ \A rules \in FileRules : rules \in Seq(Rules)
    /\ MaxPosts \in Nat /\ MaxOutside \in Nat /\ MaxSaves \in Nat /\ MaxControls \in Nat

VARIABLES
    store,        \* s.cfg: [rules, other], other standing for every other setting
    posts,        \* uiTasks of the tray window
    runnerOwes,   \* a (re)started runner has not reported its first state
    asked,        \* clicks on their way through the request loop: "manager", "control"
    control,      \* the control panel: which one is open, 0 if none
    controlOn,    \* and whether it takes input
    view,         \* the window: "none", "manager", "editor", or "crashed" (the process)
    panelOn,      \* it takes input
    ownerOff,     \* ownerDisabled
    state,        \* p.state, whose Rules are p.rules
    pending,      \* pendingState
    editing,      \* index of the rule in the editor, 0 for a new one
    draft, original,
    row,          \* the selected row of the list, 0 for none
    selected,     \* selectedRuleID, a set of at most one
    box,          \* the message box and what it is about
    picker,       \* the process picker is open
    shown,        \* the views whose controls are visible
    saving,       \* onSave: "none", asked, or answered
    outside, saves, opened          \* what the bounds count

loop   == <<store, runnerOwes>>
window == <<view, panelOn, ownerOff, controlOn>>
data   == <<state, pending>>
form   == <<editing, draft, original>>
list   == <<row, selected>>
extras == <<box, picker>>
counts == <<outside, saves, opened>>
vars == <<loop, posts, asked, control, window, data, form, list, extras, shown, saving, counts>>
-----------------------------------------------------------------------------
(* Rules *)

Blank(id) == [id |-> id, on |-> TRUE, body |-> "blank"]          \* defaultRule
NoRule == Blank(CHOOSE id \in Ids : TRUE)
Faulty(rules) == \E i \in DOMAIN rules : rules[i].body = "faulty"  \* PrepareRules has issues
Refused(rule) == rule.body \in {"blank", "wrong"}                  \* validateDraft
ReadBack(rule) == IF rule.body = "shy" THEN [rule EXCEPT !.body = "plain"] ELSE rule  \* syncDraft

IndexOf(rules, ids) == {i \in DOMAIN rules : rules[i].id \in ids}
First(set) == CHOOSE i \in set : \A j \in set : i <= j
Snapshot(s) == [rules |-> s.rules, other |-> s.other, owner |-> control]   \* automationPanelState
Revision(s) == [rules |-> s.rules, other |-> s.other]

\* populateRules keeps the rule of the selected row, or the remembered one
PickRow(rules) ==
    LET wanted == IF row \in DOMAIN rules THEN {rules[row].id} ELSE selected
        found  == IndexOf(rules, wanted)
    IN  IF found # {} THEN First(found) ELSE IF rules = <<>> THEN 0 ELSE 1
Populate(rules) ==
    /\ row' = PickRow(rules)
    /\ selected' = IF rules = <<>> THEN selected ELSE {rules[PickRow(rules)].id}
-----------------------------------------------------------------------------
(* Views *)

ShowManager(rules) ==                \* what the editor held is not read again
    /\ view' = "manager" /\ shown' = {"manager"}
    /\ Populate(rules)
    /\ editing' = 0 /\ draft' = NoRule /\ original' = NoRule

\* Mutant: the manager's controls stay
ShowEditorOver(index, rule) ==
    /\ view' = "editor" /\ shown' = shown \cup {"editor"}
    /\ editing' = index /\ draft' = rule /\ original' = rule

ShowEditor(index, rule) ==           \* showEditorDraft
    /\ view' = "editor" /\ shown' = {"editor"}
    /\ editing' = index /\ draft' = rule /\ original' = rule

\* wmDestroy: the picker and the boxes go with the window, the owner comes back
Destroyed ==
    /\ view' = "none" /\ shown' = {} /\ panelOn' = FALSE /\ ownerOff' = FALSE
    /\ box' = None /\ picker' = FALSE
    /\ editing' = 0 /\ draft' = NoRule /\ original' = NoRule /\ row' = 0 /\ selected' = {}
    /\ state' = None /\ pending' = None

\* Mutant: the owner is enabled only while the manager is shown
DestroyPanelInEditor ==
    IF view = "none" THEN UNCHANGED <<window, data, form, list, extras, shown>>
    ELSE Destroyed /\ controlOn' = (IF ownerOff /\ view = "manager" THEN TRUE ELSE controlOn)

DestroyPanel ==
    IF view = "none" THEN UNCHANGED <<window, data, form, list, extras, shown>>
    ELSE Destroyed /\ controlOn' = (IF ownerOff THEN TRUE ELSE controlOn)

\* controlpanel.Hide, and Show of an open one: Windows destroys what it owns first
DestroyControl ==
    /\ control' = 0 /\ controlOn' = FALSE
    /\ IF view # "none" /\ ownerOff THEN Destroyed
       ELSE UNCHANGED <<view, panelOn, ownerOff, data, form, list, extras, shown>>
-----------------------------------------------------------------------------
(* The request loop *)

Post(closures) == Len(posts) + Len(closures) <= MaxPosts /\ posts' = posts \o closures
Update(s) == [kind |-> "update", state |-> Snapshot(s)]   \* publishAutomationPanelState
Hide(what) == [kind |-> what]

ui == <<control, window, data, form, list, extras, shown>>

\* The part of reloadConfig the panel sees: the file says s, its language
\* may be another one, and the control panel is closed in any case
Reloaded(s) ==
    /\ outside < MaxOutside /\ outside' = outside + 1
    /\ store' = s /\ runnerOwes' = (s.rules # <<>>)
    /\ \E text \in {Update(s), Hide("automation")} : Post(<<text, Hide("control")>>)

Reload == \* config_watch, or the command line's request
    /\ \E rules \in FileRules, other \in {0, 1} : Reloaded([rules |-> rules, other |-> other])
    /\ UNCHANGED <<ui, asked, saving, saves, opened>>

SaveSetting == \* any other setting: the new revision is not published
    /\ outside < MaxOutside /\ outside' = outside + 1
    /\ store' = [store EXCEPT !.other = 1 - @]
    /\ UNCHANGED <<ui, posts, runnerOwes, asked, saving, saves, opened>>

FinishOneTimeRule ==
    /\ outside < MaxOutside /\ outside' = outside + 1
    /\ ~Faulty(store.rules)                       \* else Validate refuses the save
    /\ \E i \in DOMAIN store.rules :
         /\ store.rules[i].on
         /\ store' = [store EXCEPT !.rules[i].on = FALSE]
         /\ Post(<<Update(store')>>)
    /\ UNCHANGED <<ui, runnerOwes, asked, saving, saves, opened>>

RunnerState == \* OnState of a runner that has rules
    /\ runnerOwes /\ runnerOwes' = FALSE
    /\ Post(<<Update(store)>>)
    /\ UNCHANGED <<ui, store, asked, saving, counts>>

HandleClick ==
    /\ \E what \in asked :
         /\ asked' = asked \ {what}
         /\ Post(<<IF what = "manager" THEN [kind |-> "show", state |-> Snapshot(store)]
                                       ELSE [kind |-> "toggle"]>>)
    /\ UNCHANGED <<ui, loop, saving, counts>>

Answer(ok) == [kind |-> "answered", ok |-> ok, what |-> saving.what, id |-> saving.id,
               state |-> Snapshot(store')]

\* saveAutomationRules refuses: the revision has moved on, a rule is faulty,
\* or the file cannot be written
RefuseSave ==
    /\ saving.kind = "asked"
    /\ store' = store /\ saving' = Answer(FALSE)
    /\ UNCHANGED <<ui, posts, runnerOwes, asked, counts>>

\* Mutant: the revision is left to the file
AcceptableAtAnyRevision(base, rules) == ~Faulty(rules)

Acceptable(base, rules) == base = Revision(store) /\ ~Faulty(rules)

\* SaveAtRevision finds another text in the file, which is then loaded
SaveMeetsEdit ==
    /\ saving.kind = "asked" /\ Acceptable(saving.base, saving.rules)
    /\ \E rules \in FileRules : Reloaded([rules |-> rules, other |-> store.other])
    /\ saving' = Answer(FALSE)
    /\ UNCHANGED <<ui, asked, saves, opened>>

DoSave ==
    /\ saving.kind = "asked" /\ Acceptable(saving.base, saving.rules)
    /\ store' = [store EXCEPT !.rules = saving.rules]
    /\ saving' = Answer(TRUE)
    /\ runnerOwes' = (saving.rules # <<>>)              \* restartAutomation
    /\ UNCHANGED <<ui, posts, asked, counts>>
-----------------------------------------------------------------------------
(* The UI thread runs a posted closure *)

Free == saving.kind = "none"         \* else the UI thread waits in requestAutomationSave

\* Mutant: news replace the draft
UpdateStateAnyway(new) ==
    IF Revision(new) = Revision(state)
    THEN UNCHANGED <<list, data, form, view, shown>>
    ELSE /\ state' = new /\ pending' = None /\ ShowManager(new.rules)

UpdateState(new) ==                  \* updateState
    CASE Revision(new) = Revision(state) ->
           /\ IF view = "manager" THEN Populate(state.rules) ELSE UNCHANGED list
           /\ UNCHANGED <<data, form, view, shown>>
      [] Revision(new) # Revision(state) /\ view = "editor" /\ ReadBack(draft) # original ->
           /\ pending' = new /\ draft' = ReadBack(draft)
           /\ UNCHANGED <<state, list, editing, original, view, shown>>
      [] OTHER ->
           LET here == IndexOf(new.rules, IF view = "editor" THEN {draft.id} ELSE {})
           IN  /\ state' = new /\ pending' = None
               /\ IF here # {} THEN ShowEditor(First(here), new.rules[First(here)]) /\ UNCHANGED list
                               ELSE ShowManager(new.rules)

RunUpdate(new) ==
    /\ IF view = "none" THEN UNCHANGED <<data, form, list, view, shown>> ELSE UpdateState(new)
    /\ UNCHANGED <<control, controlOn, panelOn, ownerOff, box, picker>>

\* Show and create: the owner is looked up when the state is taken, and may be
\* gone; without one the window is nobody's
RunShow(new) ==
    \/ /\ view = "none" /\ new.owner \in {0, control}
       /\ state' = new /\ pending' = None /\ panelOn' = TRUE
       /\ ownerOff' = (new.owner # 0) /\ controlOn' = (controlOn /\ new.owner = 0)
       /\ ShowManager(new.rules)
       /\ UNCHANGED <<control, box, picker>>
    \/ \* Focus, a dead owner, or no window, font or first frame
       UNCHANGED <<control, window, data, form, list, extras, shown>>

RunControl == \* controlpanel.Show: a second one closes the first; creating it may fail
    IF control # 0 THEN DestroyControl
    ELSE /\ \/ control' = opened + 1 /\ controlOn' = TRUE      \* its handle
            \/ UNCHANGED <<control, controlOn>>
         /\ UNCHANGED <<view, panelOn, ownerOff, data, form, list, extras, shown>>

RunPost ==
    /\ Free /\ posts # <<>> /\ view # "crashed"
    /\ posts' = Tail(posts)
    /\ LET post == Head(posts)
       IN  CASE post.kind = "update"     -> RunUpdate(post.state)
             [] post.kind = "show"       -> RunShow(post.state)
             [] post.kind = "toggle"     -> RunControl
             [] post.kind = "automation" -> DestroyPanel /\ UNCHANGED control
             [] OTHER                    -> DestroyControl
    /\ UNCHANGED <<loop, asked, saving, counts>>
-----------------------------------------------------------------------------
(* The user, outside the window *)

still == <<loop, posts, saving, counts>>

ClickTray == \* showControlPanel brings an open manager to the front instead
    /\ Free /\ view = "none" /\ opened < MaxControls /\ opened' = opened + 1
    /\ asked' = asked \cup {"control"}
    /\ UNCHANGED <<ui, loop, posts, saving, outside, saves>>

ClickAutomation == \* in the control panel
    /\ Free /\ control # 0 /\ controlOn /\ asked' = asked \cup {"manager"}
    /\ UNCHANGED <<ui, still>>
-----------------------------------------------------------------------------
(* The user, in the manager *)

Takes(v) == Free /\ view = v /\ panelOn

Select(i) ==
    /\ Takes("manager") /\ i \in DOMAIN state.rules /\ row # i
    /\ row' = i /\ selected' = {state.rules[i].id}
    /\ UNCHANGED <<still, asked, control, window, data, form, extras, shown>>

EditNew ==
    /\ Takes("manager")
    /\ \E id \in Ids \ ({state.rules[i].id : i \in DOMAIN state.rules}
                        \cup {store.rules[i].id : i \in DOMAIN store.rules}) :
         ShowEditor(0, Blank(id))
    /\ UNCHANGED <<still, asked, control, panelOn, ownerOff, controlOn, data, list, box, picker>>

EditSelected ==
    /\ Takes("manager") /\ row \in DOMAIN state.rules
    /\ ShowEditor(row, state.rules[row]) /\ selected' = {state.rules[row].id}
    /\ UNCHANGED <<still, asked, control, panelOn, ownerOff, controlOn, data, row, box, picker>>

\* notifySave: the UI thread waits until the loop has answered
NotifySave(rules, what, id) ==
    /\ saves < MaxSaves /\ saves' = saves + 1
    /\ saving' = [kind |-> "asked", what |-> what, id |-> id, rules |-> rules, base |-> Revision(state)]
    /\ UNCHANGED <<loop, posts, asked, control, data, shown, outside, opened>>

Toggle ==
    /\ Takes("manager") /\ row \in DOMAIN state.rules
    /\ NotifySave([state.rules EXCEPT ![row].on = ~@], "toggle", state.rules[row].id)
    /\ UNCHANGED <<window, form, list, extras>>

AskDelete ==
    /\ Takes("manager") /\ row \in DOMAIN state.rules
    /\ box' = [kind |-> "delete", index |-> row, id |-> state.rules[row].id]
    /\ panelOn' = FALSE
    /\ UNCHANGED <<still, asked, control, view, ownerOff, controlOn, data, form, list, picker, shown>>

\* The index is the one from before the question; a list that has become too
\* short for it ends the process
ConfirmDelete ==
    /\ Free /\ box.kind = "delete" /\ box' = None
    /\ IF box.index \in DOMAIN state.rules
       THEN /\ NotifySave(RemoveAt(state.rules, box.index), "delete", box.id)
            /\ selected' = {} /\ panelOn' = TRUE
            /\ UNCHANGED <<view, ownerOff, controlOn, row, form, picker>>
       ELSE /\ view' = "crashed" /\ control' = 0 /\ controlOn' = FALSE /\ shown' = {}
            /\ panelOn' = FALSE /\ ownerOff' = FALSE
            /\ UNCHANGED <<still, asked, data, form, list, picker>>

CloseManager ==
    /\ Takes("manager") /\ DestroyPanel
    /\ UNCHANGED <<still, asked, control>>
-----------------------------------------------------------------------------
(* The user, in the editor *)

inEditor == <<still, asked, control, view, ownerOff, controlOn, data, list>>

Type(body) ==
    /\ Takes("editor") /\ body \in {"edited", "wrong"} /\ draft.body # body
    /\ draft' = [draft EXCEPT !.body = body]
    /\ UNCHANGED <<inEditor, panelOn, editing, original, box, picker, shown>>

OpenPicker ==
    /\ Takes("editor") /\ draft' = ReadBack(draft)
    /\ picker' = TRUE /\ panelOn' = FALSE
    /\ UNCHANGED <<inEditor, editing, original, box, shown>>

\* OnConfirm writes into whatever the window shows by now
ClosePicker(confirmed) ==
    /\ Free /\ picker /\ picker' = FALSE /\ panelOn' = TRUE
    /\ IF confirmed
       THEN /\ draft' = IF view = "editor" THEN [draft EXCEPT !.body = "edited"] ELSE draft
            /\ shown' = shown \cup {"editor"}
       ELSE UNCHANGED <<draft, shown>>
    /\ UNCHANGED <<still, asked, control, view, ownerOff, controlOn, data, list, editing, original, box>>

OpenBox == \* whether to discard the changes, or the process details
    /\ Takes("editor") /\ panelOn' = FALSE
    /\ \/ draft' = ReadBack(draft) /\ draft' # original /\ box' = [kind |-> "discard"]
       \/ box' = [kind |-> "details"] /\ UNCHANGED draft
    /\ UNCHANGED <<inEditor, editing, original, picker, shown>>

Keep == \* a box is closed or answered with no
    /\ Free /\ box # None /\ box' = None /\ panelOn' = TRUE
    /\ UNCHANGED <<inEditor, form, picker, shown>>

\* Mutant: whatever is pending is accepted
LeaveEditorUnchecked == state' = pending /\ pending' = None /\ ShowManager(state.rules)

LeaveEditor == \* cancelEditor: what arrived meanwhile is accepted now
    LET now == IF pending # None THEN pending ELSE state
    IN  state' = now /\ pending' = None /\ ShowManager(now.rules)

Cancel ==
    /\ \/ Takes("editor") /\ ReadBack(draft) = original
       \/ Free /\ view = "editor" /\ box.kind = "discard"
    /\ LeaveEditor /\ box' = None /\ panelOn' = TRUE
    /\ UNCHANGED <<still, asked, control, ownerOff, controlOn, picker>>

SaveEditor ==
    LET rule  == ReadBack(draft)
        rules == IF editing \in DOMAIN state.rules THEN [state.rules EXCEPT ![editing] = rule]
                                                   ELSE Append(state.rules, rule)
    IN  /\ Takes("editor") /\ ~Refused(rule) /\ ~Faulty(rules)
        /\ draft' = rule /\ selected' = {rule.id}
        /\ NotifySave(rules, "edit", rule.id)
        /\ UNCHANGED <<window, editing, original, row, extras>>

\* Mutant: a refused save sets the editor back to the rule
TakeAnswerForgetting ==
    /\ saving.kind = "answered" /\ saving' = [kind |-> "none"]
    /\ CASE view = "manager" ->
              /\ state' = saving.state /\ pending' = None /\ Populate(saving.state.rules)
              /\ UNCHANGED <<view, shown, form>>
         [] view = "editor" /\ saving.ok ->
              state' = saving.state /\ pending' = None /\ ShowManager(saving.state.rules)
         [] OTHER ->
              /\ draft' = original
              /\ UNCHANGED <<data, view, shown, list, editing, original>>
    /\ UNCHANGED <<loop, posts, asked, control, panelOn, ownerOff, controlOn, box, picker, counts>>

\* The end of notifySave and of its caller
TakeAnswer ==
    /\ saving.kind = "answered" /\ saving' = [kind |-> "none"]
    /\ CASE view = "manager" ->
              /\ state' = saving.state /\ pending' = None /\ Populate(saving.state.rules)
              /\ UNCHANGED <<view, shown, form>>
         [] view = "editor" /\ saving.ok ->
              state' = saving.state /\ pending' = None /\ ShowManager(saving.state.rules)
         [] OTHER ->
              /\ pending' = IF Revision(saving.state) # Revision(state) THEN saving.state ELSE pending
              /\ UNCHANGED <<state, view, shown, list, form>>
    /\ UNCHANGED <<loop, posts, asked, control, panelOn, ownerOff, controlOn, box, picker, counts>>

\* The monitor's scale has changed, and the new frame cannot be presented
DpiChanged ==
    /\ Free /\ view \in {"manager", "editor"} /\ DestroyPanel
    /\ UNCHANGED <<still, asked, control>>
-----------------------------------------------------------------------------
Init ==
    /\ \E rules \in FileRules : store = [rules |-> rules, other |-> 0]
    /\ posts = <<>> /\ runnerOwes = (store.rules # <<>>) /\ asked = {}
    /\ control = 0 /\ controlOn = FALSE
    /\ view = "none" /\ panelOn = FALSE /\ ownerOff = FALSE
    /\ state = None /\ pending = None
    /\ editing = 0 /\ draft = NoRule /\ original = NoRule
    /\ row = 0 /\ selected = {} /\ box = None /\ picker = FALSE
    /\ shown = {} /\ saving = [kind |-> "none"]
    /\ outside = 0 /\ saves = 0 /\ opened = 0

LoopNext == Reload \/ SaveSetting \/ FinishOneTimeRule \/ RunnerState \/ HandleClick
              \/ RefuseSave \/ SaveMeetsEdit \/ DoSave
ManagerNext == EditNew \/ EditSelected \/ Toggle \/ AskDelete \/ ConfirmDelete \/ CloseManager
                 \/ \E i \in 1 .. Cardinality(Ids) : Select(i)
EditorNext == OpenPicker \/ OpenBox \/ Keep \/ Cancel \/ SaveEditor
                \/ (\E body \in Bodies : Type(body)) \/ (\E yes \in BOOLEAN : ClosePicker(yes))
Next == view # "crashed" /\
    (LoopNext \/ RunPost \/ ClickTray \/ ClickAutomation \/ ManagerNext \/ EditorNext
       \/ TakeAnswer \/ DpiChanged)

Spec == Init /\ [][Next]_vars
-----------------------------------------------------------------------------
(* Properties *)

TypeOK ==
    /\ store.rules \in Seq(Rules) /\ store.other \in {0, 1}
    /\ Len(posts) <= MaxPosts /\ asked \subseteq {"manager", "control"}
    /\ \A i \in DOMAIN posts : posts[i].kind \in {"update", "show", "toggle", "control", "automation"}
    /\ control \in 0 .. MaxControls + 1 /\ {controlOn, panelOn, ownerOff, picker} \subseteq BOOLEAN
    /\ view \in {"none", "manager", "editor", "crashed"}
    /\ view \in {"manager", "editor"} => state # None
    /\ {draft, original} \subseteq Rules /\ editing \in Nat /\ row \in Nat /\ selected \subseteq Ids
    /\ box.kind \in {"none", "delete", "discard", "details"}
    /\ shown \subseteq {"manager", "editor"}
    /\ saving.kind \in {"none", "asked", "answered"}

(* No way into a view leaves the controls of the other one over it (not     *)
(* said of the editor's in the manager: a picker that confirms late lays    *)
(* them out there), and what the window remembers agrees with the rules it  *)
(* shows: the draft is of the rule it will replace, the remembered rule is  *)
(* the selected one, and only the manager has a deletion to confirm.  The   *)
(* selection is in between while the UI thread waits for a save.            *)
PanelIsSound ==
    /\ TypeOK
    /\ view = "editor" =>
         /\ shown = {"editor"} /\ editing \in 0 .. Len(state.rules)
         /\ editing # 0 => state.rules[editing].id = draft.id
    /\ view = "manager" =>
         /\ "manager" \in shown /\ row \in 0 .. Len(state.rules)
         /\ Free => IF row = 0 THEN state.rules = <<>> ELSE selected = {state.rules[row].id}
    /\ box.kind = "delete" => view = "manager"
    /\ view \in {"none", "crashed"} => shown = {} /\ box = None /\ ~picker

(* The windows block each other as a tree: the owner of an open window, and *)
(* only it, takes no input, and whatever is closed, by whom and in whatever *)
(* order (Hide from the loop, a toggle, a lost display, a crash) takes what *)
(* it owns with it and gives the input back.                                *)
windows ==
    {w \in {"control", "panel", "picker", "box"} :
        CASE w = "control" -> control # 0
          [] w = "panel"   -> view \in {"manager", "editor"}
          [] w = "picker"  -> picker
          [] OTHER         -> box # None}
ownerOf ==
    [w \in windows |->
        CASE w = "control" -> "nobody"
          [] w = "panel"   -> IF ownerOff THEN "control" ELSE "nobody"
          [] OTHER         -> "panel"]
takesInput ==
    (windows \cap {"picker", "box"}) \cup (IF controlOn THEN {"control"} ELSE {})
                                    \cup (IF panelOn THEN {"panel"} ELSE {})
Tree == INSTANCE ModalTree WITH Windows <- {"control", "panel", "picker", "box"}, Nobody <- "nobody",
                                owner <- ownerOf, enabled <- takesInput
ImplementsModalTree == Tree!Spec

(* A save the loop accepts changes the rule it was made for and no other: a *)
(* list that has moved on meanwhile is refused, whatever the window shows.  *)
(* (Not said of a deletion: ConfirmedIsDeleted.)                            *)
RulesOf(rules, id) == {rules[i] : i \in IndexOf(rules, {id})}
Accepts == saving.kind = "asked" /\ saving'.kind = "answered" /\ saving'.ok
SaveTouchesOneRule ==
    [][Accepts /\ saving.what # "delete" =>
         \A id \in Ids \ {saving.id} : RulesOf(store'.rules, id) = RulesOf(store.rules, id)]_vars

(* What the user has entered in the editor is changed by the user alone     *)
(* until it is in the file, discarded on a question, or gone with its       *)
(* window: no news from the loop and no refused save touches it.  A window  *)
(* goes because its frame cannot be shown, because of a click on the tray   *)
(* icon that was on its way, and because the loop hides it after a reload:  *)
(* that Hide takes unsaved input away, which automationpanel.go:391-393     *)
(* says is preserved.                                                       *)
Work == view = "editor" /\ draft # original /\ draft.body \in {"edited", "wrong"}
OfTheUser == UNCHANGED <<loop, posts, saving>>
Holds(rules) == \E i \in DOMAIN rules : rules[i] = draft

Stays     == view' = "editor" /\ original' = original /\ (draft' = draft \/ OfTheUser)
Discarded == box.kind = "discard" /\ OfTheUser
Saved     == saving.kind = "answered" /\ saving.ok /\ Holds(saving.state.rules)
WindowGoes ==
    /\ view' = "none"
    /\ \/ OfTheUser
       \/ /\ posts # <<>> /\ posts' = Tail(posts)
          /\ Head(posts).kind \in {"toggle", "control", "automation"}
WorkIsKept == [][Work => Stays \/ Discarded \/ Saved \/ WindowGoes]_vars

(* en.json:228 asks "Delete <name>?": what goes is the rule of that name.   *)
ConfirmedIsDeleted ==
    [][Accepts /\ saving.what = "delete" => RulesOf(store'.rules, saving.id) = {}]_vars
=============================================================================
