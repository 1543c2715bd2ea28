--------------------------- MODULE ProcessPicker ---------------------------
(***************************************************************************)
(* The process picker of src/internal/ui/processpicker: the window on the  *)
(* UI thread, the goroutine each load starts (loading_model.go) and the    *)
(* closures it posts back (trayicon.Post, a queue).  p is the Go struct of *)
(* that name; its methods are operators from one value of it to the next.  *)
(*                                                                         *)
(* A target is a key: the name of an executable, which covers every        *)
(* process of that name, or a path, which a name of its executable covers. *)
(* A search text is the set of names it matches.  The order of the rows,   *)
(* the focused row and the layout are left out.                            *)
(***************************************************************************)
EXTENDS Naturals, Sequences, FiniteSets

CONSTANTS
    Names,        \* executables
    Paths,        \* paths of executables
    ExeOf,        \* the executable of a path
    Selections,   \* what a rule may hold when the picker is opened for it
    Snapshots,    \* what a scan may find running
    Texts,        \* search texts, as the names they match
    Described,    \* the keys whose file has a description that can be read
    Limit,        \* MaxProcessesPerRule
    MaxLoads,     \* bound: loads
    MaxFiles,     \* bound: chosen files whose description is on its way
    MaxShows      \* bound: pickers opened

Keys == Names \cup Paths
\* NormalizeTargets: a name covers the paths of that executable
Normal(keys) == {k \in keys : k \in Paths => ExeOf[k] \notin keys}

ASSUME PickerAssumption ==
    /\ \A keys \in Selections :
           keys \subseteq Keys /\ Normal(keys) = keys /\ IsFiniteSet(keys)
    /\ Described \subseteq Keys /\ Snapshots \subseteq SUBSET Names
    /\ Texts \subseteq SUBSET Names /\ Names \in Texts
    /\ Limit \in Nat /\ MaxLoads \in Nat /\ MaxFiles \in Nat /\ MaxShows \in Nat

VARIABLES
    p,          \* active, or NoPicker
    ownerOn,    \* the window that owns the picker takes input
    given,      \* the targets OnConfirm last handed over
    workers,    \* goroutines of loads, also of pickers that are gone
    posts,      \* closures waiting for the UI thread
    loads,      \* nextGeneration, without the numbers closing takes
    shows

pickerVars == <<p, ownerOn, given, workers, posts, loads, shows>>

NoPicker == [phase |-> "none"]
Open == p # NoPicker
Text(kind) == [kind |-> kind]
NoText == Text("none")
-----------------------------------------------------------------------------
(* Status line *)

NoHold(q) == [q EXCEPT !.hold = "none", !.pending = NoText]      \* clearStatusHold

\* Within the 1.5 seconds a manual refresh keeps its text, the next one waits
SetStatus(q, text) ==
    IF q.hold = "running" THEN [q EXCEPT !.pending = text] ELSE [NoHold(q) EXCEPT !.status = text]

Results(q) == [kind |-> "results", rows |-> Cardinality(DOMAIN q.marks),
                                   picked |-> Cardinality(q.selected)]

RefreshStatus(q) ==                  \* refreshViewStatus, updateSelectionStatus
    CASE q.phase \in {"loading", "error"} -> q
      [] q.phase = "enriching" -> SetStatus(q, Text("describing"))
      [] OTHER -> IF Cardinality(q.selected) > Limit THEN [q EXCEPT !.status = Text("refused")]
                                                     ELSE SetStatus(q, Results(q))

\* Mutant: what waits for the end of the hold is dropped
EndHoldSilently(q) == NoHold(q)

EndHold(q) ==                        \* finishStatusHold
    IF q.pending # NoText THEN [NoHold(q) EXCEPT !.status = q.pending]
                          ELSE RefreshStatus(NoHold(q))
-----------------------------------------------------------------------------
(* Selection *)

CanAdd(keys, k) == k \in keys \/ Cardinality(Normal(keys \cup {k})) <= Limit
Synced(q) == [q EXCEPT !.marks = [v \in DOMAIN @ |-> v \in q.selected]]   \* syncCheckStates
Previewed(q) == [q EXCEPT !.confirmOn = Cardinality(q.selected) \in 1 .. Limit]

Marked(q) == {v \in DOMAIN q.marks : q.marks[v]}
Take(q, keys) == Previewed(Synced([q EXCEPT !.selected = Normal(keys)]))

\* Mutant: the rows a search hides are not looked after
CapturedRows(q) == Take(q, Marked(q))

\* captureSelection reads the marks of the rows, and keeps what has none
Captured(q) == Take(q, (q.selected \ DOMAIN q.marks) \cup Marked(q))

Matching(q) == (q.items.live \cup q.items.gone) \cap q.typed          \* filterItems

\* insertItem, updateItem: a row is marked as it is selected
Rows(q) == [v \in Matching(q) |-> v \in q.selected]

Filtered(q) == RefreshStatus([q EXCEPT !.marks = Rows(q)])   \* applyFilter, reconcileVisible
-----------------------------------------------------------------------------
(* Loads *)

View(q, phase) ==                    \* transitionView, but for the text of an error
    [q EXCEPT !.phase = phase, !.refreshOn = TRUE,
              !.confirmOn = Cardinality(q.selected) \in 1 .. Limit]

\* Mutant: the generation is taken before it is counted on
StartedUncounted(q, mode, held) ==
    [NoHold(Captured(q)) EXCEPT !.mode = mode, !.inFlight = TRUE, !.gen = loads, !.phase = "loading",
        !.hold = IF mode = "manual" /\ held THEN "running" ELSE "none", !.refreshOn = FALSE]

\* startLoad.  held: the timer of the status could be set
Started(q, mode, held) ==
    LET asked == IF mode = "automatic" THEN q ELSE Captured(q)
        begun == [NoHold(asked) EXCEPT
                    !.mode = mode, !.inFlight = TRUE, !.gen = loads + 1,
                    !.hold = IF mode = "manual" /\ held THEN "running" ELSE "none"]
    IN  IF mode = "automatic" THEN begun
        ELSE [begun EXCEPT !.phase = "loading", !.status = Text("loading"),
                           !.refreshOn = FALSE, !.asked = loads + 1]

\* What the goroutine takes along: the descriptions it need not look for are
\* those known and, unless the user asks again, those looked for in vain
Worker(q) ==
    LET skip == IF q.mode = "manual" THEN q.tried \cap Described ELSE q.tried
    IN  [gen |-> q.gen, step |-> "scanning", skip |-> skip,
         wanted |-> (q.selected \cap Paths) \ skip, seen |-> {}]

BeginLoad(q) == loads < MaxLoads /\ loads' = loads + 1 /\ p' = q /\ workers' = workers \cup {Worker(q)}

\* descriptionCandidates
Wanted(w, seen) == w.wanted \cup (seen \ w.skip)

Scan(w) ==
    /\ w.step = "scanning"
    /\ \/ /\ posts' = Append(posts, [kind |-> "failed", gen |-> w.gen])
          /\ workers' = workers \ {w}
       \/ \E seen \in Snapshots :
            LET wanted == Wanted(w, seen)
            IN  /\ posts' = Append(posts, [kind |-> "list", gen |-> w.gen, seen |-> seen,
                                           final |-> wanted = {}])
                /\ workers' = (workers \ {w}) \cup
                     (IF wanted = {} THEN {}
                      ELSE {[w EXCEPT !.step = "describing", !.seen = seen, !.wanted = wanted]})
    /\ UNCHANGED <<p, ownerOn, given, loads, shows>>

Describe(w) ==
    /\ w.step = "describing" /\ workers' = workers \ {w}
    /\ posts' = Append(posts, [kind |-> "described", gen |-> w.gen, seen |-> w.seen,
                               wanted |-> w.wanted])
    /\ UNCHANGED <<p, ownerOn, given, loads, shows>>

\* buildItems: what runs, and what is selected by name and does not
Items(q, seen) == [live |-> seen, gone |-> (q.selected \cap Names) \ seen, named |-> seen \cap q.tried \cap Described]

\* Mutant: a refresh that fails is passed over in silence, whoever asked
FailedQuietly(q) == [q EXCEPT !.inFlight = FALSE]

Failed(q) ==
    LET over == [q EXCEPT !.inFlight = FALSE]
    IN  IF q.mode = "automatic" THEN over
        ELSE [NoHold(View(over, "error")) EXCEPT !.status = Text("error")]

\* samePickerItems.  same: the numbers of instances are
Unchanged(q, items, same) == same /\ items = q.items

\* finishLoad
Loaded(q, seen, final, same) ==
    LET next  == [q EXCEPT !.items = Items(q, seen),
                           !.inFlight = IF final THEN FALSE ELSE @]
        phase == IF ~final /\ q.mode # "automatic" THEN "enriching" ELSE "ready"
    IN  IF q.mode = "automatic" /\ Unchanged(q, next.items, same)
        THEN [next EXCEPT !.phase = phase]
        ELSE Previewed(Filtered(View(next, phase)))

Answered(q, post, same) ==
    CASE post.kind = "failed" -> Failed(q)
      [] post.kind = "list" -> Loaded([q EXCEPT !.age = "fresh", !.source = post.gen], post.seen, post.final, same)
      [] post.kind = "described" ->
           Loaded([q EXCEPT !.tried = @ \cup post.wanted, !.source = post.gen], post.seen, TRUE, same)
      [] OTHER ->                    \* the description of a file the user has chosen
           [q EXCEPT !.tried = @ \cup {post.key}]

\* Mutant: any answer is good enough for an open picker
AnyAnswer(post) == Open

\* closed, hwnd and generation; a chosen file's worker does not look at the last
Awaited(post) == Open /\ (IF post.kind = "browsed" THEN p.first = post.gen ELSE p.gen = post.gen)

RunPost ==
    /\ posts # <<>> /\ posts' = Tail(posts)
    /\ \E same \in BOOLEAN :
         p' = IF Awaited(Head(posts)) THEN Answered(p, Head(posts), same) ELSE p
    /\ UNCHANGED <<ownerOn, given, workers, loads, shows>>
-----------------------------------------------------------------------------
(* The window *)

\* known: what the editor has found of the descriptions of the rule's targets
\* (options.Descriptions; one found for a target replaced since is left out)
Fresh(known) ==
    [phase |-> "initial", mode |-> "initial", inFlight |-> FALSE, age |-> "never",
     gen |-> 0, first |-> loads + 1, source |-> 0, asked |-> 0,
     items |-> [live |-> {}, gone |-> {}, named |-> {}], marks |-> [v \in {} |-> FALSE],
     typed |-> Names, selected |-> given, tried |-> known,
     status |-> NoText, pending |-> NoText, hold |-> "none",
     refreshOn |-> TRUE, confirmOn |-> FALSE, dialog |-> FALSE]

\* What is left of create when the first frame cannot be revealed
\* Mutant: the owner is left disabled
AbortWithoutOwner == p' = NoPicker /\ ownerOn' = FALSE

AbortCreate == p' = NoPicker /\ ownerOn' = TRUE

Show ==
    /\ ~Open /\ shows < MaxShows /\ loads < MaxLoads
    /\ shows' = shows + 1 /\ loads' = loads + 1
    /\ \E known \in SUBSET (given \cap Described) :
       LET q == Started(Fresh(known), "initial", FALSE)
       IN  /\ workers' = workers \cup {Worker(q)}
           /\ \/ p' = q /\ ownerOn' = FALSE
              \/ AbortCreate
    /\ UNCHANGED <<given, posts>>

Release == p' = NoPicker /\ ownerOn' = TRUE          \* destroy, releaseResources

Close == \* Cancel, Hide, the owner is destroyed, or the frame is lost on a new DPI
    Open /\ Release /\ UNCHANGED <<given, workers, posts, loads, shows>>

AtHand == Open /\ ~p.dialog
Still == UNCHANGED <<ownerOn, given, workers, posts, loads, shows>>

Confirm ==
    /\ AtHand /\ p.confirmOn
    /\ given' = Captured(p).selected /\ Release
    /\ UNCHANGED <<workers, posts, loads, shows>>

Refresh ==
    /\ AtHand /\ p.refreshOn
    /\ \E held \in BOOLEAN : BeginLoad(Started(p, "manual", held))
    /\ UNCHANGED <<ownerOn, given, posts, shows>>

\* shouldAutoRefreshProcessPicker; the window is activated also behind its dialog
Activate ==
    /\ Open /\ ~p.inFlight /\ p.age = "old"
    /\ BeginLoad(Started(p, "automatic", FALSE))
    /\ UNCHANGED <<ownerOn, given, posts, shows>>

\* The list view marks the row itself and reports it, or the label is clicked
Toggle(v) ==
    /\ AtHand /\ v \in DOMAIN p.marks
    /\ p' = IF ~p.marks[v] /\ ~CanAdd(p.selected, v) THEN [p EXCEPT !.status = Text("refused")]
            ELSE RefreshStatus(Captured([p EXCEPT !.marks[v] = ~@]))
    /\ Still

TypeText(text) ==
    /\ AtHand /\ text # p.typed
    /\ p' = [p EXCEPT !.typed = text] /\ Still

\* The timer TypeText sets, or the head of a column is clicked
ApplyFilter == Open /\ p' = Filtered(p) /\ Still

OpenDialog == AtHand /\ p' = [p EXCEPT !.dialog = TRUE] /\ Still

\* The dialog is cancelled, or the file is none
DialogFails ==
    /\ Open /\ p.dialog
    /\ \E status \in {p.status, Text("refused")} : p' = [p EXCEPT !.dialog = FALSE, !.status = status]
    /\ Still

\* Mutant: the rows keep their marks
BrowsedUnmarked(q, path) ==
    Previewed([q EXCEPT !.selected = Normal((@ \ {ExeOf[path]}) \cup {path})])

\* A path replaces the name of its executable
Browsed(q, path) == Take(q, (q.selected \ {ExeOf[path]}) \cup {path})

Browse(path) ==
    /\ Open /\ p.dialog
    /\ IF CanAdd(p.selected \ {ExeOf[path]}, path)
       THEN /\ Len(SelectSeq(posts, LAMBDA post : post.kind = "browsed")) < MaxFiles
            /\ p' = RefreshStatus(Browsed([p EXCEPT !.dialog = FALSE], path))
            /\ posts' = Append(posts, [kind |-> "browsed", gen |-> p.first, key |-> path])
       ELSE /\ p' = [p EXCEPT !.dialog = FALSE, !.status = Text("refused")]
            /\ UNCHANGED posts
    /\ UNCHANGED <<ownerOn, given, workers, loads, shows>>

\* The 1.5 seconds pass; the 15 of processPickerRefreshAge, the timer handled
TimePasses ==
    /\ Open
    /\ \/ p.hold = "running" /\ p' = [p EXCEPT !.hold = "due"]
       \/ p.hold = "none" /\ p.age = "fresh" /\ p' = [p EXCEPT !.age = "old"]
    /\ Still

StatusTimer == Open /\ p.hold = "due" /\ p' = EndHold(p) /\ Still
-----------------------------------------------------------------------------
PickerInit ==
    /\ p = NoPicker /\ ownerOn = TRUE /\ given \in Selections
    /\ workers = {} /\ posts = <<>> /\ loads = 0 /\ shows = 0

WorkerNext == \E w \in workers : Scan(w) \/ Describe(w)
UserNext ==
    \/ Show \/ Close \/ Confirm \/ Refresh \/ Activate \/ OpenDialog \/ DialogFails
    \/ \E v \in Names : Toggle(v)
    \/ \E text \in Texts : TypeText(text)
    \/ \E path \in Paths : Browse(path)
PickerNext == WorkerNext \/ UserNext \/ RunPost \/ ApplyFilter \/ StatusTimer \/ TimePasses

PickerSpec == PickerInit /\ [][PickerNext]_pickerVars
-----------------------------------------------------------------------------
(* Properties *)

PickerTypes ==
    /\ Open =>
         /\ p.phase \in {"loading", "enriching", "ready", "error"}
         /\ p.mode \in {"initial", "automatic", "manual"} /\ p.age \in {"never", "fresh", "old"}
         /\ p.gen \in 1 .. loads /\ p.hold \in {"none", "running", "due"}
         /\ p.items.live \subseteq Names /\ p.items.gone \subseteq Names
         /\ DOMAIN p.marks \subseteq Names /\ p.typed \in Texts
         /\ p.selected \subseteq Keys /\ p.tried \subseteq Keys
         /\ {p.inFlight, p.refreshOn, p.confirmOn, p.dialog} \subseteq BOOLEAN
    /\ given \subseteq Keys /\ loads \in 0 .. MaxLoads /\ shows \in 0 .. MaxShows

(* What the picker lists was read after the user last asked for it: answers *)
(* of loads that were overtaken or whose picker is gone change nothing.     *)
AskedIsAnswered == Open /\ p.phase \in {"enriching", "ready"} => p.source >= p.asked

(* The selection is the user's: no refresh, no search and no late answer    *)
(* adds to it or takes from it, also not what a search hides, and OnConfirm *)
(* gets exactly it.                                                         *)
SelectionIsTheUsers ==
    [][/\ Open /\ p' # NoPicker /\ p'.selected # p.selected =>
             (\E v \in Names : Toggle(v)) \/ (\E path \in Paths : Browse(path))
       /\ Confirm => given' = p.selected
       /\ given' # given => Confirm]_pickerVars

(* The marks, the preview's button and the selection agree between any two  *)
(* messages, no path is selected beside its name, and the selection does    *)
(* not grow past what a rule may hold.                                      *)
SelectionIsSound ==
    Open => /\ \A v \in DOMAIN p.marks : p.marks[v] = (v \in p.selected)
            /\ p.selected = Normal(p.selected)
            /\ p.confirmOn = (Cardinality(p.selected) \in 1 .. Limit)

(* The status line tells the truth once a manual refresh has been visible   *)
(* long enough: it says loading only while something loads, and the numbers *)
(* in it are those of the rows and the selection.  (Not with a rule beyond  *)
(* the limit: that message does not wait, and what waits replaces it.)      *)
StatusIsTrue ==
    Open /\ p.hold = "none" /\ Cardinality(p.selected) <= Limit =>
        CASE p.status.kind = "loading" -> p.phase = "loading"
          [] p.status.kind = "describing" -> p.phase = "enriching"
          [] p.status.kind = "results" -> p.phase = "ready" /\ p.status = Results(p)
          [] OTHER -> TRUE

(* The window that owns the picker takes input again exactly when there is  *)
(* no picker, however that came: a button, its owner, or a create that      *)
(* failed after it had disabled it.                                         *)
OwnerComesBack == ownerOn = ~Open

(* Nobody waits for what nobody owes: while a load is in flight, one answer *)
(* of its generation is on its way, and when none is, the Refresh button    *)
(* works and the view waits for nothing, although loads overtake each other *)
(* and pickers come and go.                                                 *)
Owed ==
    \/ \E w \in workers : w.gen = p.gen
    \/ \E i \in DOMAIN posts : posts[i].kind # "browsed" /\ posts[i].gen = p.gen
AnswerIsOwed ==
    Open => IF p.inFlight THEN Owed ELSE p.refreshOn /\ p.phase \in {"ready", "error"}

(* The state is well typed, and the marks, the buttons, the owner and the   *)
(* answers that are owed fit together.                                      *)
PickerIsSound == PickerTypes /\ SelectionIsSound /\ OwnerComesBack /\ AnswerIsOwed /\ AskedIsAnswered
=============================================================================
