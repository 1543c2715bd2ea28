---------------------------- MODULE ConfigStore ----------------------------
(***************************************************************************)
(* IdleTrigger.toml and everyone who reads or writes it: the program's own *)
(* start, its reloads and its saves (src/internal/config/load.go, save.go, *)
(* src/internal/app/status.go, automation.go), the watcher that looks at   *)
(* the file every three seconds (config_watch.go), a command line run,     *)
(* which loads the file in a process of its own, and the user's editor.    *)
(*                                                                         *)
(* A text is what matters of a file's contents: one plain setting, the     *)
(* automatic-task rules and whether the annotations are the current ones.  *)
(* Its revision, a hash of the bytes, is the text itself.  A save and a    *)
(* load are several operations on the file, one action each; the watcher,  *)
(* the editor and the other process run between them.                      *)
(*                                                                         *)
(* Modification times are kept as what their comparisons tell: whether one *)
(* that somebody remembers is still the file's ("now"), which every write  *)
(* makes "past", and whether what the watcher saw is the last own write's. *)
(***************************************************************************)
EXTENDS Naturals

CONSTANTS
    FirstTexts,  \* what the file may hold at the first start
    Edits,       \* what the user's editor may write
    MaxEvents    \* bound: edits, changes of settings and rules, asked-for reloads,
                 \* runs of the CLI, failed file operations, crashes

Missing == [form |-> "missing"]
Broken  == [form |-> "broken"]            \* not TOML
Written(plain, rules, form) == [form |-> form, plain |-> plain, rules |-> rules]

Plains == {"calm", "awake"}               \* values Validate accepts
Rules  == {"none", "one", "spent"}        \* "one": a one-time rule, "spent": it has fired
Texts  == {Missing, Broken} \cup
          {Written(p, r, f) : p \in Plains \cup {"odd", "clash"},
                              r \in Rules \cup {"faulty"}, f \in {"rendered", "rough"}}

ASSUME ConfigAssumption ==
    /\ FirstTexts \subseteq Texts /\ Edits \subseteq Texts
    /\ MaxEvents \in Nat

VARIABLES
    file,       \* the file: its text and who wrote it
    backup,     \* IdleTrigger.toml.bak, and who wrote it
    run,        \* the program: "off", "boot" (loaded, not yet running) or "up"
    cfg, rev,   \* s.cfg and its SourceRevision
    task,       \* process -> its load or save in progress
    selfWrite, selfMod,   \* selfConfigWrite, selfConfigMod
    watch,      \* the watcher's loop: place, lastMod, the time it has seen and
                \* whether that is selfMod
    reloads,    \* a reload it has posted (the next one makes no difference)
    panel,      \* the manager's copy of the rules and their revision
    raced,      \* ghost: an edit fell into one of the program's own operations
    refused,    \* ghost: a change is in memory only, or a load has failed
    events      \* how many of them

vars == <<file, backup, run, cfg, rev, task, selfWrite, selfMod, watch, reloads,
          panel, raced, refused, events>>
disk == <<file, backup>>
mind == <<cfg, rev, panel>>
marks == <<selfWrite, selfMod, watch, reloads>>
ghosts == <<raced, refused>>

NoTask   == [kind |-> "none", stamp |-> "none"]
Unknown  == [form |-> "none"]            \* an empty SourceRevision
Defaults == [plain |-> "calm", rules |-> "none"]
Busy(p)  == task[p].kind # "none"
-----------------------------------------------------------------------------
(* Texts *)

\* NormalizeConfig: a value out of its range becomes the default; rules are kept
Normal(text) == [text EXCEPT !.plain = IF @ = "odd" THEN "calm" ELSE @]

\* AutomationIssues: PrepareRules has something to say about the rules
Issues(rules) == rules = "faulty"

\* What the text leaves out and normalization puts in counts, too: an unused
\* idle_minutes, which writeAutomationRule does not write
Corrected(text) == Normal(text) # text \/ text.rules \in {"one", "spent"}
Rendered(c) == Written(c.plain, c.rules, "rendered")      \* renderAnnotatedTOML

\* What reloadConfig and onReady make of loaded settings: Stay Awake wins over
\* idle monitoring
Resolve(c) == [c EXCEPT !.plain = IF @ = "clash" THEN "awake" ELSE @]

Parsed(text)   == [plain |-> Normal(text).plain, rules |-> text.rules]
InMemory(text) == Resolve(Parsed(text))

Forms == {"missing", "broken", "rendered", "rough"}
Readable(text) == text.form \in {"rendered", "rough"}

TypeOK ==
    /\ file.text.form \in Forms /\ file.by \in {"user", "app", "cli"}
    /\ backup.text.form \in Forms
    /\ run \in {"off", "boot", "up"}
    /\ cfg.plain \in Plains \cup {"clash"} /\ cfg.rules \in Rules \cup {"faulty"}
    /\ rev.form \in Forms \cup {"none"}
    /\ \A p \in {"app", "cli"} :
          Busy(p) => task[p].step \in {"read", "backup", "write", "reread", "accept",
                                       "check", "rename", "remember"}
    /\ task["cli"].kind \in {"none", "cli"}
    /\ selfWrite => Busy("app")            \* the mark does not outlive the save
    /\ run = "off" => ~Busy("app")
    /\ {selfMod, watch.last, watch.saw, task["app"].stamp, task["cli"].stamp}
          \subseteq {"none", "now", "past"}
    /\ reloads \in BOOLEAN

NoWatch == [at |-> "off", last |-> "none", saw |-> "none", own |-> FALSE]

Init ==
    /\ \E text \in FirstTexts : file = [text |-> text, by |-> "user"]
    /\ backup = [text |-> Missing, by |-> "user"]
    /\ run = "off" /\ cfg = Defaults /\ rev = Unknown
    /\ task = [p \in {"app", "cli"} |-> NoTask]
    /\ selfWrite = FALSE /\ selfMod = "none"
    /\ watch = NoWatch /\ reloads = FALSE
    /\ panel = [rev |-> Unknown, rules |-> "none"]
    /\ raced = FALSE /\ refused = FALSE
    /\ events = 0

Event == events < MaxEvents /\ events' = events + 1

Aged(time) == IF time = "now" THEN "past" ELSE time
TimeOfFile == IF file.text = Missing THEN "none" ELSE "now"

\* The file is replaced: whatever anybody remembers of its time is past
Put(text, who) ==
    /\ file' = [text |-> text, by |-> who]
    /\ selfMod' = Aged(selfMod)
    /\ watch' = [watch EXCEPT !.last = Aged(@), !.saw = Aged(@)]

AgedTasks == [p \in {"app", "cli"} |-> [task[p] EXCEPT !.stamp = Aged(@)]]

Goto(p, step) == task' = [task EXCEPT ![p].step = step]
Done(p)       == task' = [task EXCEPT ![p] = NoTask]
-----------------------------------------------------------------------------
(* loadFrom, in the program or in a run of the CLI *)

LoadKinds == {"boot", "reload", "cli"}
NewLoad(kind) == [kind |-> kind, step |-> "read", text |-> Missing, stamp |-> "none", base |-> Unknown]

At(p, step) == Busy(p) /\ task[p].step = step

\* A load that returns an error: main starts with the defaults and no revision,
\* reloadConfig keeps what it has
LoadFails(p) ==
    /\ Done(p)
    /\ IF task[p].kind = "boot" THEN run' = "boot" /\ cfg' = Defaults /\ rev' = Unknown
                                ELSE UNCHANGED <<run, cfg, rev>>
    /\ refused' = (refused \/ p = "app")
    /\ UNCHANGED <<panel, selfWrite, selfMod, watch, reloads, raced>>

\* What follows the read: faulty rules are left alone, a correction is backed up
\* first, missing annotations are written without a backup
ReadNext(text) ==
    IF text = Missing THEN "write"
    ELSE IF Issues(text.rules) THEN "accept"
    ELSE IF Corrected(text) THEN "backup"
    ELSE IF text.form = "rough" THEN "write" ELSE "accept"

Wanted(text) == IF text = Missing THEN Rendered(Defaults) ELSE Rendered(Normal(text))

LoadRead(p) ==
    /\ At(p, "read")
    /\ IF file.text = Broken
       THEN LoadFails(p)
       ELSE /\ task' = [task EXCEPT ![p].step = ReadNext(file.text), ![p].text = file.text,
                                    ![p].stamp = "now", ![p].base = file.text]
            /\ UNCHANGED <<run, mind, marks, ghosts>>
    /\ UNCHANGED <<disk, events>>

LoadBackup(p) ==
    /\ At(p, "backup")
    /\ backup' = [text |-> task[p].text, by |-> p] /\ Goto(p, "write")
    /\ UNCHANGED <<file, run, mind, marks, ghosts, events>>

\* saveTo: the temporary file takes the name whatever is there by now
LoadWrite(p) ==
    /\ At(p, "write")
    /\ Put(Wanted(task[p].text), p)
    /\ task' = IF p = "cli" THEN [AgedTasks EXCEPT ![p] = NoTask]
                             ELSE [AgedTasks EXCEPT ![p].step = "reread"]
    /\ raced' = (raced \/ (p = "cli" /\ Busy("app")) \/ (p = "cli" /\ run = "boot"))
    /\ UNCHANGED <<backup, run, mind, selfWrite, reloads, refused, events>>

\* The revision is that of the file as it is found after the write
LoadReread(p) ==
    /\ At(p, "reread")
    /\ task' = [task EXCEPT ![p].step = "accept",
                            ![p].base = IF file.text = Missing THEN @ ELSE file.text]
    /\ UNCHANGED <<disk, run, mind, marks, ghosts, events>>

LoadFault(p) ==
    /\ Event
    /\ Busy(p) /\ task[p].kind \in LoadKinds
    /\ task[p].step \in {"read", "backup", "write"}
    /\ LoadFails(p)
    /\ UNCHANGED disk

Loaded(p) == IF task[p].text = Missing THEN Defaults ELSE Parsed(task[p].text)

\* The CLI, which only wants the language, has it; main goes on to app.Run; reloadConfig replaces
\* the settings, restarts every feature and publishes the rules to the manager
LoadAccept(p) ==
    /\ At(p, "accept")
    /\ CASE task[p].kind = "cli" ->
              Done(p) /\ UNCHANGED <<run, mind, ghosts>>
         [] task[p].kind = "boot" ->
              /\ Done(p) /\ run' = "boot"
              /\ cfg' = Loaded(p) /\ rev' = task[p].base
              /\ UNCHANGED <<panel, ghosts>>
         [] task[p].kind = "reload" ->
              /\ Goto(p, "remember")
              /\ cfg' = Resolve(Loaded(p)) /\ rev' = task[p].base
              /\ panel' = [rev |-> rev', rules |-> cfg'.rules]
              /\ refused' = FALSE
              /\ raced' = (raced /\ file.by # "app" /\ task[p].stamp # "now")
              /\ UNCHANGED run
    /\ UNCHANGED <<disk, marks, events>>

\* reloadConfig's rememberConfigModTime
RememberTime ==
    /\ selfMod' = IF file.text = Missing THEN selfMod ELSE "now"
    /\ watch' = IF file.text = Missing THEN watch ELSE [watch EXCEPT !.own = watch.saw = "now"]

ReloadRemember ==
    /\ At("app", "remember") /\ task["app"].kind = "reload"
    /\ RememberTime
    /\ Done("app")
    /\ UNCHANGED <<disk, run, mind, selfWrite, reloads, ghosts, events>>
-----------------------------------------------------------------------------
(* Saves: saveConfig after a change, finishOneTimeRule, saveAutomationRules *)

NewSave(kind, candidate, base) ==
    [kind |-> kind, step |-> "check", candidate |-> candidate, base |-> base,
     stamp |-> "none", before |-> cfg.rules]

Ready == run = "up" /\ ~Busy("app")

\* persistConfigAtRevision begins: Validate refuses faulty rules at once
Begin(kind, candidate, base) ==
    IF Issues(candidate.rules)
    THEN refused' = TRUE /\ UNCHANGED <<task, selfWrite>>
    ELSE /\ task' = [task EXCEPT !["app"] = NewSave(kind, candidate, base)]
         /\ selfWrite' = TRUE /\ UNCHANGED refused

\* A setting of the panel, of a hot key or of an IPC command: in force at once,
\* saved afterwards
ChangeSetting ==
    /\ Ready /\ Event
    /\ \E value \in Plains \ {cfg.plain} :
          LET changed == [cfg EXCEPT !.plain = value]
          IN  cfg' = changed /\ Begin("change", changed, rev)
    /\ UNCHANGED <<disk, run, rev, selfMod, watch, reloads, panel, raced>>

\* finishOneTimeRule: the rule has fired and is switched off
FinishOneTimeRule ==
    /\ Ready /\ cfg.rules = "one" /\ Event
    /\ LET changed == [cfg EXCEPT !.rules = "spent"]
       IN  cfg' = changed /\ task' = [task EXCEPT !["app"] = [NewSave("once", changed, rev) EXCEPT !.before = "one"]]
    /\ selfWrite' = TRUE
    /\ UNCHANGED <<disk, run, rev, selfMod, watch, reloads, panel, ghosts>>

\* Mutant of SaveRules: the manager's rules are in force before they are saved
SaveRulesInPlace ==
    /\ Ready /\ Event /\ panel.rev = rev
    /\ \E rules \in {"none", "one"} \ {panel.rules} :
          /\ cfg' = [cfg EXCEPT !.rules = rules]
          /\ Begin("rules", cfg', rev)
    /\ UNCHANGED <<disk, run, rev, selfMod, watch, reloads, panel, raced>>

\* saveAutomationRules: only on the revision the manager has shown
SaveRules ==
    /\ Ready /\ Event
    /\ IF panel.rev # rev
       THEN /\ panel' = [rev |-> rev, rules |-> cfg.rules]
            /\ UNCHANGED <<task, selfWrite, refused>>
       ELSE /\ \E rules \in {"none", "one"} \ {panel.rules} :
                  Begin("rules", [cfg EXCEPT !.rules = rules], rev)
            /\ UNCHANGED panel
    /\ UNCHANGED <<disk, run, cfg, rev, selfMod, watch, reloads, raced>>

\* Mutant of SaveFails: the one-time rule is not put back
SaveFailsSpent(conflict) ==
    /\ Done("app")
    /\ refused' = TRUE /\ selfWrite' = FALSE
    /\ UNCHANGED <<disk, run, mind, selfMod, watch, reloads, raced>>

\* A save that returns an error: the setting stays in memory, the one-time rule is
\* put back, and a conflict makes saveAutomationRules load the file
SaveFails(conflict) ==
    /\ IF conflict /\ task["app"].kind = "rules"
       THEN task' = [task EXCEPT !["app"] = NewLoad("reload")]
       ELSE Done("app")
    /\ cfg' = IF task["app"].kind = "once" THEN [cfg EXCEPT !.rules = task["app"].before] ELSE cfg
    /\ refused' = (refused \/ task["app"].kind # "rules")
    /\ selfWrite' = FALSE
    /\ UNCHANGED <<disk, run, rev, panel, selfMod, watch, reloads, raced>>

\* Mutant of Unchanged: the file is not looked at before it is replaced
UnchangedAlways(base) == TRUE

\* saveToAtRevision's comparison: no revision, nothing to compare
Unchanged(base) == base = Unknown \/ file.text = base

SaveCheck ==
    /\ At("app", "check")
    /\ IF Unchanged(task["app"].base)
       THEN /\ task' = [task EXCEPT !["app"].step = "rename", !["app"].stamp = TimeOfFile]
            /\ UNCHANGED <<disk, run, mind, marks, ghosts>>
       ELSE SaveFails(TRUE)
    /\ UNCHANGED events

SaveRename ==
    /\ At("app", "rename")
    /\ Put(Rendered(task["app"].candidate), "app")
    /\ task' = [AgedTasks EXCEPT !["app"].step = "remember"]
    /\ UNCHANGED <<backup, run, mind, selfWrite, reloads, ghosts, events>>

\* The temporary file or the rename fails: the file is as it was
SaveFault ==
    /\ Event
    /\ Busy("app") /\ task["app"].step \in {"check", "rename"}
    /\ SaveFails(FALSE)

\* rememberConfigModTime, the end of the marked window and the caller's thanks
SaveRemember ==
    /\ At("app", "remember") /\ task["app"].kind # "reload"
    /\ RememberTime
    /\ selfWrite' = FALSE
    /\ cfg' = task["app"].candidate /\ rev' = Rendered(task["app"].candidate)
    /\ panel' = IF task["app"].kind = "change" THEN panel
                ELSE [rev |-> rev', rules |-> cfg'.rules]
    /\ refused' = FALSE
    /\ Done("app")
    /\ UNCHANGED <<disk, run, reloads, raced, events>>
-----------------------------------------------------------------------------
(* The watcher *)

Waiting == [watch EXCEPT !.at = "tick", !.saw = "none", !.own = FALSE]

\* watchConfig's ticker: lastMod is taken before the flags are read
WatchTick ==
    /\ run = "up" /\ watch.at = "tick"
    /\ file.text # Missing /\ watch.last # "now"
    /\ watch' = [at |-> "flag", last |-> "now", saw |-> "now", own |-> selfMod = "now"]
    /\ UNCHANGED <<disk, run, mind, task, selfWrite, selfMod, reloads, ghosts, events>>

\* A write of the program's own is under way: what was seen is taken for it
WatchFlag ==
    /\ run = "up" /\ watch.at = "flag"
    /\ watch' = IF selfWrite THEN Waiting ELSE [watch EXCEPT !.at = "own"]
    /\ raced' = (raced \/ (selfWrite /\ file.by # "app"))
    /\ UNCHANGED <<disk, run, mind, task, selfWrite, selfMod, reloads, refused, events>>

\* Mutant of Own: after the first own write every change is taken for one
OwnOnceWritten == selfMod # "none"

\* The time is that of the program's last own write
Own == watch.own

WatchOwn ==
    /\ run = "up" /\ watch.at = "own"
    /\ watch' = Waiting
    /\ reloads' = (reloads \/ ~Own)
    /\ UNCHANGED <<disk, run, mind, task, selfWrite, selfMod, ghosts, events>>

\* A posted reload, or IPC's config:reload
Reload ==
    /\ Ready
    /\ \/ reloads /\ reloads' = FALSE /\ UNCHANGED events
       \/ Event /\ UNCHANGED reloads
    /\ task' = [task EXCEPT !["app"] = NewLoad("reload")]
    /\ UNCHANGED <<disk, run, mind, selfWrite, selfMod, watch, ghosts>>

\* The manager is opened or hears of a state
ShowRules ==
    /\ Ready
    /\ panel' = [rev |-> rev, rules |-> cfg.rules]
    /\ UNCHANGED <<disk, run, cfg, rev, task, marks, ghosts, events>>
-----------------------------------------------------------------------------
(* The program, the other process and the user *)

Start ==
    /\ run = "off"
    /\ task' = [task EXCEPT !["app"] = NewLoad("boot")]
    /\ run' = "boot"
    /\ UNCHANGED <<disk, mind, marks, ghosts, events>>

\* After the start delay: onReady resolves the conflict, the watcher takes the
\* file's time as it is now
BeginWatching ==
    /\ run = "boot" /\ ~Busy("app")
    /\ run' = "up" /\ cfg' = Resolve(cfg)
    /\ watch' = [at |-> "tick", last |-> TimeOfFile, saw |-> "none", own |-> FALSE]
    /\ UNCHANGED <<disk, rev, panel, task, selfWrite, selfMod, reloads, ghosts, events>>

\* The program is killed: nothing of it is left but the file
Crash ==
    /\ run # "off" /\ Event
    /\ run' = "off" /\ cfg' = Defaults /\ rev' = Unknown
    /\ Done("app")
    /\ selfWrite' = FALSE /\ selfMod' = "none" /\ watch' = NoWatch /\ reloads' = FALSE
    /\ panel' = [rev |-> Unknown, rules |-> "none"]
    /\ raced' = FALSE /\ refused' = FALSE
    /\ UNCHANGED disk

\* idletrigger <command>: config.Load in a process of its own
RunCLI ==
    /\ ~Busy("cli") /\ Event
    /\ task' = [task EXCEPT !["cli"] = NewLoad("cli")]
    /\ UNCHANGED <<disk, run, mind, marks, ghosts>>

Edit ==
    /\ Event
    /\ \E text \in Edits \ {file.text} : Put(text, "user")
    /\ task' = AgedTasks
    /\ raced' = (raced \/ Busy("app") \/ run = "boot")
    /\ UNCHANGED <<backup, run, mind, selfWrite, reloads, refused>>
-----------------------------------------------------------------------------
Load(p) == LoadRead(p) \/ LoadBackup(p) \/ LoadWrite(p) \/ LoadReread(p) \/ LoadAccept(p)
Save    == SaveCheck \/ SaveRename \/ SaveRemember
Watch   == WatchTick \/ WatchFlag \/ WatchOwn
Settle  == ReloadRemember \/ (reloads /\ Reload)

Next ==
    \/ \E p \in {"app", "cli"} : Load(p) \/ LoadFault(p)
    \/ Save \/ SaveFault \/ Watch \/ Reload \/ ReloadRemember
    \/ ChangeSetting \/ FinishOneTimeRule \/ SaveRules \/ ShowRules
    \/ Start \/ BeginWatching \/ Crash \/ RunCLI \/ Edit

\* Every thread that can go on does; the user and the faults need not
Fairness ==
    /\ \A p \in {"app", "cli"} : WF_vars(Load(p))
    /\ WF_vars(Save) /\ WF_vars(Watch) /\ WF_vars(Settle) /\ WF_vars(BeginWatching)

Spec == Init /\ [][Next]_vars /\ Fairness
-----------------------------------------------------------------------------
(* Properties *)

Settled == run = "up" /\ ~Busy("app")

\* saveAutomationRules compares revisions and replaces rules: as long as the manager
\* holds the program's revision, the rules it shows are the program's rules, even
\* after saves that failed and reloads that found the file changed.
RevisionNamesRules ==
    Settled /\ panel.rev = rev => panel.rules = cfg.rules

\* Settings whose revision is that of the file are the file's settings, unless a
\* change could not be saved (saveConfig keeps it in memory) or an edit fell between
\* the steps of an own load or save (loadFrom reads the revision back after writing).
RevisionNamesSettings ==
    Settled /\ rev = file.text /\ ~refused /\ ~raced => cfg = InMemory(file.text)

\* The state is well typed, and a revision stands for what it was taken of.
RevisionsAreHonest == TypeOK /\ RevisionNamesRules /\ RevisionNamesSettings

\* The backup is the other process's: they have one name
Other(p) == backup.by \in {"app", "cli"} \ {p}

\* What the user has written is replaced only after it was read: by a save on that
\* revision or by a load that has backed up what it corrects and that leaves faulty
\* rules alone (load.go's comment).  The exceptions are an edit newer than the look at
\* the file, a second process that backs up an older text under the same name, and a
\* program that could not load the file and saves without a revision.
UserEditsKept ==
    [][\A p \in {"app", "cli"} :
          file.by = "user" /\ file.text # Missing /\ file' # file /\ file'.by = p =>
             \/ task[p].stamp # "now"
             \/ task[p].base = Unknown /\ task[p].kind \notin LoadKinds
             \/ /\ task[p].base = file.text
                /\ task[p].kind \in LoadKinds =>
                      /\ ~Issues(file.text.rules)
                      /\ Corrected(file.text) => backup.text = file.text \/ Other(p)]_vars

\* The watcher sees to it that what was written from outside is in force in the end:
\* with no more edits the settings agree with a readable file, unless the edit fell
\* into one of the program's own operations or a load or save has failed.
EditNoticed ==
    <>[](run = "up" => \/ raced \/ refused
                       \/ ~Readable(file.text) \/ cfg = InMemory(file.text))

=============================================================================
