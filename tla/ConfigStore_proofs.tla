------------------------- MODULE ConfigStore_proofs -------------------------
(***************************************************************************)
(* Safety of ConfigStore for every set of first texts and edits and any    *)
(* number of events: what a revision stands for, and that the user's text  *)
(* is replaced only after it was read.                                     *)
(***************************************************************************)
EXTENDS ConfigStore, TLAPS

PlainValues == Plains \cup {"odd", "clash"}
RuleValues  == Rules \cup {"faulty"}
Config      == [plain : Plains \cup {"clash"}, rules : RuleValues]
Revisions   == Texts \cup {Unknown}
Times       == {"none", "now", "past"}
Procs       == {"app", "cli"}
SaveKinds   == {"change", "once", "rules"}

LoadTasks ==
    [kind : LoadKinds, step : {"read", "backup", "write", "reread", "accept", "remember"},
     text : Texts, stamp : Times, base : Revisions]

SaveTasks ==
    [kind : SaveKinds, step : {"check", "rename", "remember"}, candidate : Config,
     base : Revisions, stamp : Times, before : RuleValues]

AllTasks == {NoTask} \cup LoadTasks \cup SaveTasks

Types ==
    /\ file \in [text : Texts, by : {"user", "app", "cli"}]
    /\ backup \in [text : Texts, by : {"user", "app", "cli"}]
    /\ run \in {"off", "boot", "up"}
    /\ cfg \in Config /\ rev \in Revisions
    /\ task \in [Procs -> AllTasks]
    /\ selfWrite \in BOOLEAN /\ selfMod \in Times
    /\ watch \in [at : {"off", "tick", "flag", "own"}, last : Times, saw : Times, own : BOOLEAN]
    /\ reloads \in BOOLEAN
    /\ panel \in [rev : Revisions, rules : RuleValues]
    /\ raced \in BOOLEAN /\ refused \in BOOLEAN
    /\ events \in Nat

app == task["app"]

\* Which process carries out what, and when: only the program saves, a boot
\* is of a program that is not up, every other task of one that is
Places ==
    /\ task["cli"].kind \in {"none", "cli"}
    /\ task["cli"].kind = "cli" => task["cli"].step # "remember"
    /\ app.kind \in {"none", "boot", "reload"} \cup SaveKinds
    /\ app.kind = "boot" => run = "boot" /\ app.step # "remember"
    /\ app.kind \in {"reload"} \cup SaveKinds => run = "up"
    /\ selfWrite => app.kind \in SaveKinds
    /\ app.kind \in SaveKinds => app.candidate.plain \in Plains
    /\ run = "up" => cfg.plain \in Plains

\* What a load may do about the text it has read: faulty rules are left alone,
\* and what is corrected has been backed up unless the other process has
\* backed up its own text since
LoadsAreCareful ==
    \A p \in Procs : task[p].kind \in LoadKinds =>
        /\ task[p].step \in {"backup", "write"} =>
              /\ task[p].base = task[p].text
              /\ task[p].stamp = "now" => file.text = task[p].text
        /\ task[p].step # "read" => task[p].text # Broken
        /\ task[p].step = "backup" =>
              /\ Readable(task[p].text) /\ ~Issues(task[p].text.rules)
              /\ Corrected(task[p].text)
        /\ task[p].step = "write" =>
              \/ task[p].text = Missing
              \/ /\ Readable(task[p].text) /\ ~Issues(task[p].text.rules)
                 /\ Corrected(task[p].text) => backup.text = task[p].text \/ Other(p)

\* The look at the file before a rename holds until somebody writes
SavesAreCareful ==
    app.kind \in SaveKinds /\ app.step = "rename" /\ app.stamp = "now" =>
        app.base = Unknown \/ app.base = file.text

\* The manager's copy of the rules is the program's, but for a one-time rule
\* that is being switched off
PanelFollows ==
    /\ run # "up" => panel.rev = Unknown
    /\ panel.rev = Unknown => panel.rules = "none"
    /\ rev = Unknown => cfg.rules = "none"
    /\ panel.rev # Unknown =>
          panel.rules = IF app.kind = "once" THEN app.before ELSE cfg.rules
    /\ app.kind \in SaveKinds \ {"rules"} => app.candidate = cfg
    /\ app.kind = "once" => app.before = "one" /\ rev # Unknown

\* Before the settings are accepted, the revision is that of the text they are
\* read from, or of the correction that was written in its place
BaseIsRead ==
    app.kind \in LoadKinds =>
        /\ app.step # "read" => app.base # Unknown
        /\ app.step = "reread" => app.stamp # "now"
        /\ app.step = "reread" /\ (~raced \/ file.by = "app") => file.text = Wanted(app.text)
        /\ app.step = "accept" /\ (~raced \/ file.by = "app" \/ app.stamp = "now") =>
              \/ app.base = app.text /\ Readable(app.text)
              \/ app.base = Wanted(app.text)

\* The settings are those of the revision, after a race or a failure excepted
InForce ==
    ~raced /\ ~refused /\ rev # Unknown =>
        /\ run = "up" /\ app.kind \in {"none", "rules"} => cfg = InMemory(rev)
        /\ run = "up" /\ app.kind = "reload" /\ app.step = "remember" => cfg = InMemory(rev)
        /\ run = "boot" /\ app.kind = "none" => Resolve(cfg) = InMemory(rev)

IInv ==
    /\ Types /\ Places
    /\ LoadsAreCareful /\ SavesAreCareful
    /\ PanelFollows /\ BaseIsRead /\ InForce
-----------------------------------------------------------------------------
(* Texts and settings *)

\* A text is missing, broken, or settings and rules in one of two forms.
LEMMA TextForms ==
  /\ \A t \in Texts : ~Readable(t) => t = Missing \/ t = Broken
  /\ \A t \in Texts : Readable(t) =>
        t \in [form : {"rendered", "rough"}, plain : PlainValues, rules : RuleValues]
  /\ \A p \in PlainValues, r \in RuleValues, f \in {"rendered", "rough"} :
        Written(p, r, f) \in Texts /\ Readable(Written(p, r, f))
  /\ Missing \in Texts /\ Broken \in Texts /\ ~Readable(Missing) /\ ~Readable(Broken)
  /\ Missing # Broken
  /\ Unknown \notin Texts
<1>1. Missing.form = "missing" /\ Broken.form = "broken" /\ Unknown.form = "none"
  BY DEF Missing, Broken, Unknown
<1>2. ASSUME NEW p, NEW r, NEW f \in {"rendered", "rough"}
      PROVE  Written(p, r, f).form = f /\ Readable(Written(p, r, f))
  BY DEF Written, Readable
<1>3. \A t \in Texts : \/ t = Missing \/ t = Broken
                       \/ \E p \in PlainValues, r \in RuleValues, f \in {"rendered", "rough"} :
                             t = Written(p, r, f)
  BY DEF Texts, PlainValues, RuleValues
<1>4. \A p \in PlainValues, r \in RuleValues, f \in {"rendered", "rough"} :
         Written(p, r, f) \in Texts
  BY DEF Texts, PlainValues, RuleValues
<1>5. \A p \in PlainValues, r \in RuleValues, f \in {"rendered", "rough"} :
         Written(p, r, f) \in [form : {"rendered", "rough"}, plain : PlainValues, rules : RuleValues]
  BY DEF Written
<1>6. ~Readable(Missing) /\ ~Readable(Broken) /\ Missing # Broken
  BY <1>1 DEF Readable
<1>7. Missing \in Texts /\ Broken \in Texts
  BY DEF Texts
<1>8. Unknown \notin Texts
  <2>1. \A t \in Texts : t.form # "none"
    BY <1>1, <1>2, <1>3
  <2> QED BY <1>1, <2>1
<1>9. \A t \in Texts : ~Readable(t) => t = Missing \/ t = Broken
  BY <1>2, <1>3
<1>10. \A t \in Texts : Readable(t) =>
          t \in [form : {"rendered", "rough"}, plain : PlainValues, rules : RuleValues]
  BY <1>3, <1>5, <1>6
<1> QED BY <1>2, <1>4, <1>6, <1>7, <1>8, <1>9, <1>10

\* Stay Awake wins over idle monitoring, once and for all (Resolve).
LEMMA ResolveFacts ==
  ASSUME NEW c \in Config
  PROVE  /\ Resolve(c) \in Config
         /\ Resolve(c).plain \in Plains
         /\ Resolve(c).rules = c.rules
         /\ Resolve(Resolve(c)) = Resolve(c)
         /\ c.plain \in Plains => Resolve(c) = c
BY DEF Config, Resolve, Plains

\* Settings that are rendered are read back as they were.
LEMMA RenderedFacts ==
  ASSUME NEW c \in Config
  PROVE  /\ Rendered(c) \in Texts /\ Rendered(c) # Unknown /\ Rendered(c) # Missing
         /\ Rendered(c) # Broken /\ Readable(Rendered(c))
         /\ Parsed(Rendered(c)) = c
         /\ InMemory(Rendered(c)) = Resolve(c)
<1>1. /\ c.plain \in Plains \cup {"clash"} /\ c.rules \in RuleValues
      /\ c = [plain |-> c.plain, rules |-> c.rules]
  BY DEF Config
<1>2. Rendered(c) \in Texts /\ Readable(Rendered(c))
  BY <1>1, TextForms DEF Rendered, PlainValues
<1>3. Rendered(c) # Unknown /\ Rendered(c) # Missing /\ Rendered(c) # Broken
  BY <1>2, TextForms
<1>4. Parsed(Rendered(c)) = c
  <2>1. Normal(Rendered(c)).plain = c.plain
    BY <1>1 DEF Normal, Rendered, Written, Plains
  <2>2. Rendered(c).rules = c.rules
    BY DEF Rendered, Written
  <2> QED BY <1>1, <2>1, <2>2 DEF Parsed
<1> QED BY <1>2, <1>3, <1>4 DEF InMemory

\* The defaults are settings like others.
LEMMA DefaultsFacts == Defaults \in Config /\ Defaults.plain = "calm" /\ Defaults.rules = "none"
BY DEF Defaults, Config, Plains, RuleValues, Rules

\* What is parsed are settings, and the correction of a text stands for them.
LEMMA WantedFacts ==
  ASSUME NEW t \in Texts, Readable(t)
  PROVE  /\ Parsed(t) \in Config
         /\ Wanted(t) = Rendered(Parsed(t))
<1>1. t \in [form : {"rendered", "rough"}, plain : PlainValues, rules : RuleValues]
  BY TextForms
<1>2. /\ Normal(t).plain \in Plains \cup {"clash"}
      /\ Normal(t).rules = t.rules
  BY <1>1 DEF Normal, PlainValues, Plains
<1>3. Parsed(t) \in Config
  BY <1>1, <1>2 DEF Parsed, Config
<1>4. t # Missing
  BY TextForms
<1> QED BY <1>2, <1>3, <1>4 DEF Wanted, Rendered, Parsed
-----------------------------------------------------------------------------
(* Tasks *)

\* What kind of task it is tells its fields.
LEMMA TaskFacts ==
  ASSUME NEW t \in AllTasks
  PROVE  /\ t.kind \in {"none"} \cup LoadKinds \cup SaveKinds
         /\ t.kind = "none" => t = NoTask
         /\ t.kind \in LoadKinds => t \in LoadTasks
         /\ t.kind \in SaveKinds => t \in SaveTasks
         /\ t.stamp \in Times
<1>1. NoTask.kind = "none" /\ NoTask.stamp = "none"
  BY DEF NoTask
<1>2. LoadKinds \cap SaveKinds = {} /\ "none" \notin LoadKinds \cup SaveKinds
  BY DEF LoadKinds, SaveKinds
<1>3. \A l \in LoadTasks : l.kind \in LoadKinds /\ l.stamp \in Times
  BY DEF LoadTasks
<1>4. \A s \in SaveTasks : s.kind \in SaveKinds /\ s.stamp \in Times
  BY DEF SaveTasks
<1> QED BY <1>1, <1>2, <1>3, <1>4 DEF AllTasks, Times

\* A task after a write (AgedTasks).
AgedTask(t) == [t EXCEPT !.stamp = Aged(@)]

\* A write ages what every task remembers and changes nothing else of it.
LEMMA AgedFacts ==
  ASSUME Types, NEW p \in Procs
  PROVE  /\ AgedTasks \in [Procs -> AllTasks]
         /\ AgedTasks[p] \in AllTasks
         /\ AgedTasks[p].kind = task[p].kind
         /\ AgedTasks[p].stamp # "now"
         /\ task[p].kind = "none" => AgedTasks[p] = NoTask
         /\ task[p].kind # "none" => AgedTasks[p].step = task[p].step
         /\ task[p].kind \in LoadKinds => /\ AgedTasks[p] \in LoadTasks
                                          /\ AgedTasks[p].text = task[p].text
                                          /\ AgedTasks[p].base = task[p].base
         /\ task[p].kind \in SaveKinds => /\ AgedTasks[p] \in SaveTasks
                                          /\ AgedTasks[p].candidate = task[p].candidate
                                          /\ AgedTasks[p].base = task[p].base
                                          /\ AgedTasks[p].before = task[p].before
<1>1. \A q \in Procs : AgedTasks[q] = AgedTask(task[q])
  BY DEF AgedTasks, AgedTask, Procs
<1>2. \A q \in Procs : task[q] \in AllTasks
  BY DEF Types
<1>3. \A time \in Times : Aged(time) \in Times /\ Aged(time) # "now"
  BY DEF Times, Aged
<1>4. AgedTask(NoTask) = NoTask /\ NoTask.stamp = "none" /\ NoTask.kind = "none"
  BY DEF NoTask, Aged, AgedTask
<1>5. ASSUME NEW t \in LoadTasks
      PROVE  /\ AgedTask(t) \in LoadTasks
             /\ AgedTask(t).kind = t.kind
             /\ AgedTask(t).step = t.step
             /\ AgedTask(t).stamp # "now"
             /\ AgedTask(t).text = t.text
             /\ AgedTask(t).base = t.base
  BY <1>3 DEF LoadTasks, AgedTask
<1>6. ASSUME NEW t \in SaveTasks
      PROVE  /\ AgedTask(t) \in SaveTasks
             /\ AgedTask(t).kind = t.kind
             /\ AgedTask(t).step = t.step
             /\ AgedTask(t).stamp # "now"
             /\ AgedTask(t).candidate = t.candidate
             /\ AgedTask(t).base = t.base
             /\ AgedTask(t).before = t.before
  BY <1>3 DEF SaveTasks, AgedTask
<1>7. \A q \in Procs : AgedTasks[q] \in AllTasks
  BY <1>1, <1>2, <1>4, <1>5, <1>6 DEF AllTasks
<1>8. AgedTasks \in [Procs -> AllTasks]
  BY <1>7 DEF AgedTasks, Procs
<1>9. CASE task[p].kind = "none"
  BY <1>1, <1>2, <1>4, <1>7, <1>8, <1>9, TaskFacts DEF LoadKinds, SaveKinds
<1>10. CASE task[p].kind \in LoadKinds
  BY <1>1, <1>2, <1>5, <1>7, <1>8, <1>10, TaskFacts DEF LoadKinds, SaveKinds
<1>11. CASE task[p].kind \in SaveKinds
  BY <1>1, <1>2, <1>6, <1>7, <1>8, <1>11, TaskFacts DEF LoadKinds, SaveKinds
<1> QED BY <1>2, <1>9, <1>10, <1>11, TaskFacts

\* The tasks that begin.
LEMMA NewFacts ==
  /\ NoTask \in AllTasks /\ NoTask.kind = "none"
  /\ \A k \in LoadKinds : NewLoad(k) \in LoadTasks /\ NewLoad(k).kind = k /\ NewLoad(k).step = "read"
  /\ Types => \A k \in SaveKinds, c \in Config, b \in Revisions :
        NewSave(k, c, b) \in SaveTasks
<1>1. Missing \in Texts /\ Unknown \in Revisions /\ "none" \in Times
  BY TextForms DEF Revisions, Times
<1>2. Types => cfg.rules \in RuleValues
  BY DEF Types, Config
<1> QED BY <1>1, <1>2 DEF NoTask, NewLoad, NewSave, LoadTasks, SaveTasks, AllTasks
-----------------------------------------------------------------------------
(* The invariant holds at the first start *)

\* At the first start nobody has a task and the program has no revision.
THEOREM InitIInv == Init => IInv
<1> SUFFICES ASSUME Init PROVE IInv
  OBVIOUS
<1>1. /\ task["app"] = NoTask /\ task["cli"] = NoTask
      /\ \A p \in Procs : task[p] = NoTask
      /\ task \in [Procs -> AllTasks]
  BY NewFacts DEF Init, Procs
<1>2. NoTask.kind = "none"
  BY NewFacts
<1>3. Types
  <2>1. file \in [text : Texts, by : {"user", "app", "cli"}]
    BY ConfigAssumption DEF Init
  <2>2. backup \in [text : Texts, by : {"user", "app", "cli"}]
    BY TextForms DEF Init
  <2>3. /\ cfg \in Config /\ rev \in Revisions
        /\ panel \in [rev : Revisions, rules : RuleValues]
    BY DefaultsFacts DEF Init, Revisions, RuleValues, Rules
  <2>4. /\ selfWrite \in BOOLEAN /\ selfMod \in Times /\ reloads \in BOOLEAN
        /\ raced \in BOOLEAN /\ refused \in BOOLEAN /\ events \in Nat
        /\ run \in {"off", "boot", "up"}
        /\ watch \in [at : {"off", "tick", "flag", "own"}, last : Times, saw : Times, own : BOOLEAN]
    BY DEF Init, Times, NoWatch
  <2> QED BY <1>1, <2>1, <2>2, <2>3, <2>4 DEF Types
<1>4. Places
  BY <1>1, <1>2 DEF Init, Places, app, SaveKinds
<1>5. LoadsAreCareful /\ SavesAreCareful /\ BaseIsRead
  BY <1>1, <1>2 DEF LoadsAreCareful, SavesAreCareful, BaseIsRead, app, LoadKinds, SaveKinds
<1>6. PanelFollows /\ InForce
  BY <1>1, <1>2, DefaultsFacts DEF Init, PanelFollows, InForce, app, SaveKinds
<1> QED BY <1>3, <1>4, <1>5, <1>6 DEF IInv
-----------------------------------------------------------------------------
(* Steps that start or end no task of the program: the watcher and the manager *)

\* The watcher writes its own marks; a change it takes for an own write is noted
\* as a race, which the invariant only makes exceptions for.
LEMMA WatchKeepsIInv == IInv /\ Watch => IInv'
<1> SUFFICES ASSUME IInv, Watch PROVE IInv'
  OBVIOUS
<1>1. /\ UNCHANGED <<file, backup, run, cfg, rev, task, selfWrite, selfMod, panel, refused, events>>
      /\ raced => raced'
      /\ raced' \in BOOLEAN /\ reloads' \in BOOLEAN
      /\ watch' \in [at : {"off", "tick", "flag", "own"}, last : Times, saw : Times, own : BOOLEAN]
      /\ raced' = raced \/ file.by # "app"
  <2>1. /\ watch \in [at : {"off", "tick", "flag", "own"}, last : Times, saw : Times, own : BOOLEAN]
        /\ reloads \in BOOLEAN /\ raced \in BOOLEAN
    BY DEF IInv, Types
  <2>2. Waiting \in [at : {"off", "tick", "flag", "own"}, last : Times, saw : Times, own : BOOLEAN]
    BY <2>1 DEF Waiting, Times
  <2>3. CASE WatchTick
    BY <2>1, <2>3 DEF WatchTick, Times, disk, mind, ghosts
  <2>4. CASE WatchFlag
    <3>1. watch' \in [at : {"off", "tick", "flag", "own"}, last : Times, saw : Times, own : BOOLEAN]
      BY <2>1, <2>2, <2>4 DEF WatchFlag
    <3> QED BY <2>1, <2>4, <3>1 DEF WatchFlag, disk, mind
  <2>5. CASE WatchOwn
    BY <2>1, <2>2, <2>5 DEF WatchOwn, disk, mind, ghosts
  <2> QED BY <2>3, <2>4, <2>5 DEF Watch
<1>2. Types'
  BY <1>1 DEF IInv, Types
<1>3. (Places /\ LoadsAreCareful /\ SavesAreCareful /\ PanelFollows)'
  BY <1>1 DEF IInv, Places, LoadsAreCareful, SavesAreCareful, PanelFollows, app, Other
<1>4. (BaseIsRead /\ InForce)'
  BY <1>1 DEF IInv, Types, BaseIsRead, InForce, app
<1> QED BY <1>2, <1>3, <1>4 DEF IInv

\* The manager is shown the rules in force with their revision.
LEMMA ShowRulesKeepsIInv == IInv /\ ShowRules => IInv'
<1> SUFFICES ASSUME IInv, ShowRules PROVE IInv'
  OBVIOUS
<1>1. /\ UNCHANGED <<file, backup, run, cfg, rev, task, selfWrite, selfMod, watch, reloads,
                     raced, refused, events>>
      /\ run = "up" /\ app.kind = "none"
      /\ panel' = [rev |-> rev, rules |-> cfg.rules]
  BY DEF ShowRules, Ready, Busy, app, disk, marks, ghosts
<1>2. Types'
  BY <1>1 DEF IInv, Types, Config
<1>3. (Places /\ LoadsAreCareful /\ SavesAreCareful /\ BaseIsRead /\ InForce)'
  BY <1>1 DEF IInv, Places, LoadsAreCareful, SavesAreCareful, BaseIsRead, InForce, app, Other
<1>4. PanelFollows'
  BY <1>1 DEF IInv, PanelFollows, app, SaveKinds
<1> QED BY <1>2, <1>3, <1>4 DEF IInv

\* After the start delay the conflict of the settings is resolved.
LEMMA BeginWatchingKeepsIInv == IInv /\ BeginWatching => IInv'
<1> SUFFICES ASSUME IInv, BeginWatching PROVE IInv'
  OBVIOUS
<1>1. /\ UNCHANGED <<file, backup, rev, task, selfWrite, selfMod, reloads, panel, raced, refused, events>>
      /\ run = "boot" /\ app.kind = "none" /\ run' = "up" /\ cfg' = Resolve(cfg)
      /\ watch' = [at |-> "tick", last |-> TimeOfFile, saw |-> "none", own |-> FALSE]
  BY DEF BeginWatching, Busy, app, disk, ghosts
<1>2. /\ cfg' \in Config /\ cfg'.plain \in Plains /\ cfg'.rules = cfg.rules
  BY <1>1, ResolveFacts DEF IInv, Types
<1>3. Types'
  BY <1>1, <1>2 DEF IInv, Types, TimeOfFile, Times
<1>4. (LoadsAreCareful /\ SavesAreCareful /\ BaseIsRead)'
  BY <1>1 DEF IInv, LoadsAreCareful, SavesAreCareful, BaseIsRead, app, Other
<1>5. Places'
  BY <1>1, <1>2 DEF IInv, Places, app, SaveKinds
<1>6. PanelFollows'
  BY <1>1, <1>2 DEF IInv, PanelFollows, app, SaveKinds
<1>7. InForce'
  BY <1>1 DEF IInv, InForce, app
<1> QED BY <1>3, <1>4, <1>5, <1>6, <1>7 DEF IInv

\* A run of the CLI begins to read: nothing of the program changes.
LEMMA RunCLIKeepsIInv == IInv /\ RunCLI => IInv'
<1> SUFFICES ASSUME IInv, RunCLI PROVE IInv'
  OBVIOUS
<1>1. /\ UNCHANGED <<file, backup, run, cfg, rev, selfWrite, selfMod, watch, reloads, panel,
                     raced, refused>>
      /\ task' = [task EXCEPT !["cli"] = NewLoad("cli")]
      /\ events' \in Nat
  BY DEF RunCLI, Event, disk, mind, marks, ghosts, IInv, Types
<1>2. NewLoad("cli") \in AllTasks /\ NewLoad("cli").kind = "cli" /\ NewLoad("cli").step = "read"
  BY NewFacts DEF AllTasks, LoadKinds
<1>3. /\ task' \in [Procs -> AllTasks]
      /\ task'["app"] = task["app"] /\ task'["cli"] = NewLoad("cli")
  BY <1>1, <1>2 DEF IInv, Types, Procs
<1>4. Types'
  BY <1>1, <1>3 DEF IInv, Types
<1>5. Places'
  BY <1>1, <1>2, <1>3 DEF IInv, Places, app
<1>6. LoadsAreCareful'
  BY <1>1, <1>2, <1>3 DEF IInv, LoadsAreCareful, Procs, Other
<1>7. (SavesAreCareful /\ PanelFollows /\ BaseIsRead /\ InForce)'
  BY <1>1, <1>3 DEF IInv, SavesAreCareful, PanelFollows, BaseIsRead, InForce, app
<1> QED BY <1>4, <1>5, <1>6, <1>7 DEF IInv

\* The program starts, with a load.
LEMMA StartKeepsIInv == IInv /\ Start => IInv'
<1> SUFFICES ASSUME IInv, Start PROVE IInv'
  OBVIOUS
<1>1. /\ UNCHANGED <<file, backup, cfg, rev, selfWrite, selfMod, watch, reloads, panel,
                     raced, refused, events>>
      /\ run = "off" /\ run' = "boot"
      /\ task' = [task EXCEPT !["app"] = NewLoad("boot")]
  BY DEF Start, disk, mind, marks, ghosts
<1>2. NewLoad("boot") \in AllTasks /\ NewLoad("boot").kind = "boot" /\ NewLoad("boot").step = "read"
  BY NewFacts DEF AllTasks, LoadKinds
<1>3. /\ task' \in [Procs -> AllTasks]
      /\ task'["cli"] = task["cli"] /\ app' = NewLoad("boot")
  BY <1>1, <1>2 DEF IInv, Types, Procs, app
<1>4. Types'
  BY <1>1, <1>3 DEF IInv, Types
<1>5. Places'
  BY <1>1, <1>2, <1>3 DEF IInv, Places, SaveKinds
<1>6. LoadsAreCareful'
  BY <1>1, <1>2, <1>3 DEF IInv, LoadsAreCareful, Procs, Other, app
<1>7. (SavesAreCareful /\ PanelFollows /\ BaseIsRead /\ InForce)'
  BY <1>1, <1>2, <1>3 DEF IInv, Places, SavesAreCareful, PanelFollows, BaseIsRead, InForce, SaveKinds
<1> QED BY <1>4, <1>5, <1>6, <1>7 DEF IInv

\* A reload of an idle program begins to read.
LEMMA ReloadKeepsIInv == IInv /\ Reload => IInv'
<1> SUFFICES ASSUME IInv, Reload PROVE IInv'
  OBVIOUS
<1>1. /\ UNCHANGED <<file, backup, run, cfg, rev, selfWrite, selfMod, watch, panel, raced, refused>>
      /\ run = "up" /\ app.kind = "none"
      /\ task' = [task EXCEPT !["app"] = NewLoad("reload")]
      /\ reloads' \in BOOLEAN /\ events' \in Nat
  <2>1. reloads \in BOOLEAN /\ events \in Nat
    BY DEF IInv, Types
  <2>2. reloads' \in BOOLEAN /\ events' \in Nat
    <3>1. CASE reloads /\ reloads' = FALSE /\ UNCHANGED events
      BY <2>1, <3>1
    <3>2. CASE Event /\ UNCHANGED reloads
      BY <2>1, <3>2 DEF Event
    <3> QED BY <3>1, <3>2 DEF Reload
  <2> QED BY <2>2 DEF Reload, Ready, Busy, app, disk, mind, ghosts
<1>2. /\ NewLoad("reload") \in AllTasks
      /\ NewLoad("reload").kind = "reload" /\ NewLoad("reload").step = "read"
  BY NewFacts DEF AllTasks, LoadKinds
<1>3. /\ task' \in [Procs -> AllTasks]
      /\ task'["cli"] = task["cli"] /\ app' = NewLoad("reload")
  BY <1>1, <1>2 DEF IInv, Types, Procs, app
<1>4. Types'
  BY <1>1, <1>3 DEF IInv, Types
<1>5. Places'
  BY <1>1, <1>2, <1>3 DEF IInv, Places, SaveKinds
<1>6. LoadsAreCareful'
  BY <1>1, <1>2, <1>3 DEF IInv, LoadsAreCareful, Procs, Other, app
<1>7. (SavesAreCareful /\ PanelFollows /\ BaseIsRead /\ InForce)'
  BY <1>1, <1>2, <1>3 DEF IInv, Places, SavesAreCareful, PanelFollows, BaseIsRead, InForce, SaveKinds
<1> QED BY <1>4, <1>5, <1>6, <1>7 DEF IInv

\* A task that is over holds nothing; what a process has left when it is idle.
LEMMA DoneFacts ==
  ASSUME Types, NEW p \in Procs, Done(p)
  PROVE  /\ task' \in [Procs -> AllTasks]
         /\ task'[p] = NoTask /\ task'[p].kind = "none"
         /\ \A q \in Procs \ {p} : task'[q] = task[q]
         /\ LoadsAreCareful /\ UNCHANGED <<file, backup>> => LoadsAreCareful'
<1>1. NoTask \in AllTasks /\ NoTask.kind = "none"
  BY NewFacts
<1>2. /\ task' \in [Procs -> AllTasks] /\ task'[p] = NoTask
      /\ \A q \in Procs \ {p} : task'[q] = task[q]
  BY <1>1 DEF Done, Types
<1>3. ASSUME LoadsAreCareful, UNCHANGED <<file, backup>> PROVE LoadsAreCareful'
  <2> SUFFICES ASSUME NEW q \in Procs, task'[q].kind \in LoadKinds, q # p
               PROVE  LoadsAreCareful!(q)'
    BY <1>1, <1>2 DEF LoadsAreCareful, LoadKinds
  <2> QED BY <1>2, <1>3 DEF LoadsAreCareful, Other
<1> QED BY <1>1, <1>2, <1>3

\* A killed program leaves the file, the backup and the CLI.
LEMMA CrashKeepsIInv == IInv /\ Crash => IInv'
<1> SUFFICES ASSUME IInv, Crash PROVE IInv'
  OBVIOUS
<1>1. /\ UNCHANGED <<file, backup>>
      /\ run' = "off" /\ cfg' = Defaults /\ rev' = Unknown
      /\ Done("app")
      /\ selfWrite' = FALSE /\ selfMod' = "none" /\ watch' = NoWatch /\ reloads' = FALSE
      /\ panel' = [rev |-> Unknown, rules |-> "none"]
      /\ raced' = FALSE /\ refused' = FALSE /\ events' \in Nat
  BY DEF Crash, Event, disk, IInv, Types
<1>2. /\ task' \in [Procs -> AllTasks] /\ app' = NoTask /\ app'.kind = "none"
      /\ task'["cli"] = task["cli"] /\ LoadsAreCareful'
  BY <1>1, DoneFacts DEF IInv, Procs, app
<1>3. /\ cfg' \in Config /\ rev' \in Revisions /\ panel' \in [rev : Revisions, rules : RuleValues]
      /\ watch' \in [at : {"off", "tick", "flag", "own"}, last : Times, saw : Times, own : BOOLEAN]
  BY <1>1, DefaultsFacts DEF Revisions, RuleValues, Rules, NoWatch, Times
<1>4. Types'
  BY <1>1, <1>2, <1>3 DEF IInv, Types, Times
<1>5. Places'
  BY <1>1, <1>2 DEF IInv, Places, SaveKinds
<1>6. (SavesAreCareful /\ PanelFollows /\ BaseIsRead /\ InForce)'
  BY <1>1, <1>2, DefaultsFacts DEF SavesAreCareful, PanelFollows, BaseIsRead, InForce, SaveKinds, LoadKinds
<1> QED BY <1>2, <1>4, <1>5, <1>6 DEF IInv

\* The times of the file that the program remembers.
LEMMA RememberFacts ==
  ASSUME Types, RememberTime
  PROVE  /\ selfMod' \in Times
         /\ watch' \in [at : {"off", "tick", "flag", "own"}, last : Times, saw : Times, own : BOOLEAN]
BY DEF Types, RememberTime, Times

\* The end of a reload: settings and revision were replaced together before.
LEMMA ReloadRememberKeepsIInv == IInv /\ ReloadRemember => IInv'
<1> SUFFICES ASSUME IInv, ReloadRemember PROVE IInv'
  OBVIOUS
<1>1. /\ UNCHANGED <<file, backup, run, cfg, rev, selfWrite, reloads, panel, raced, refused, events>>
      /\ app.kind = "reload" /\ app.step = "remember" /\ Done("app") /\ RememberTime
  BY DEF ReloadRemember, At, app, disk, mind, ghosts
<1>2. /\ task' \in [Procs -> AllTasks] /\ app' = NoTask /\ app'.kind = "none"
      /\ task'["cli"] = task["cli"] /\ LoadsAreCareful'
  BY <1>1, DoneFacts DEF IInv, Procs, app
<1>3. Types'
  BY <1>1, <1>2, RememberFacts DEF IInv, Types
<1>4. Places'
  BY <1>1, <1>2 DEF IInv, Places, SaveKinds
<1>5. (SavesAreCareful /\ PanelFollows /\ BaseIsRead)'
  BY <1>1, <1>2 DEF IInv, SavesAreCareful, PanelFollows, BaseIsRead, SaveKinds, LoadKinds
<1>6. InForce'
  <2>1. run = "up"
    BY <1>1 DEF IInv, Places
  <2> QED BY <1>1, <1>2, <2>1 DEF IInv, InForce
<1> QED BY <1>2, <1>3, <1>4, <1>5, <1>6 DEF IInv
-----------------------------------------------------------------------------
(* Steps that write the file *)

\* Whoever writes: the marks stay marks.
LEMMA PutFacts ==
  ASSUME Types, NEW text \in Texts, NEW who \in {"user", "app", "cli"}, Put(text, who)
  PROVE  /\ file' = [text |-> text, by |-> who]
         /\ file' \in [text : Texts, by : {"user", "app", "cli"}]
         /\ file'.text = text /\ file'.by = who
         /\ selfMod' \in Times
         /\ watch' \in [at : {"off", "tick", "flag", "own"}, last : Times, saw : Times, own : BOOLEAN]
<1>1. \A time \in Times : Aged(time) \in Times
  BY DEF Times, Aged
<1> QED BY <1>1 DEF Types, Put

\* After a write every look at the file is old: what was careful stays so.
LEMMA AgedKeeps ==
  ASSUME IInv, NEW p \in Procs, task'[p] = AgedTasks[p], backup' = backup
  PROVE  LoadsAreCareful!(p)'
<1>1. task[p] \in AllTasks
  BY DEF IInv, Types
<1>2. LoadsAreCareful!(p)
  BY DEF IInv, LoadsAreCareful
<1> SUFFICES ASSUME task'[p].kind \in LoadKinds
             PROVE  LoadsAreCareful!(p)'
  OBVIOUS
<1>3. /\ task'[p].step = task[p].step /\ task'[p].text = task[p].text
      /\ task'[p].base = task[p].base /\ task'[p].stamp # "now"
      /\ task[p].kind \in LoadKinds
  BY AgedFacts DEF IInv, LoadKinds
<1> QED BY <1>2, <1>3 DEF Other

\* An edit during an own load or save is a race, and every look at the file is old.
LEMMA EditKeepsIInv == IInv /\ Edit => IInv'
<1> SUFFICES ASSUME IInv, Edit PROVE IInv'
  OBVIOUS
<1>1. Types
  BY DEF IInv
<1>2. PICK text \in Edits \ {file.text} : Put(text, "user")
  BY DEF Edit
<1>3. /\ file'.by = "user" /\ file' \in [text : Texts, by : {"user", "app", "cli"}]
      /\ selfMod' \in Times
      /\ watch' \in [at : {"off", "tick", "flag", "own"}, last : Times, saw : Times, own : BOOLEAN]
  BY <1>1, <1>2, PutFacts, ConfigAssumption
<1>4. /\ UNCHANGED <<backup, run, cfg, rev, selfWrite, reloads, panel, refused>>
      /\ task' = AgedTasks
      /\ raced' = (raced \/ Busy("app") \/ run = "boot")
      /\ events' \in Nat
  BY <1>1 DEF Edit, Event, mind, Types
<1>5. Types'
  BY <1>1, <1>3, <1>4, AgedFacts DEF Types, Procs
<1>6. /\ task'["cli"].kind = task["cli"].kind
      /\ task["cli"].kind # "none" => task'["cli"].step = task["cli"].step
      /\ app'.kind = app.kind
      /\ app.kind # "none" => app'.step = app.step /\ raced' /\ app'.stamp # "now"
      /\ app.kind \in LoadKinds => app'.text = app.text /\ app'.base = app.base
      /\ app.kind \in SaveKinds => app'.candidate = app.candidate /\ app'.before = app.before
  BY <1>1, <1>4, AgedFacts DEF Procs, app, Busy
<1>7. Places'
  BY <1>4, <1>6 DEF IInv, Places, SaveKinds
<1>8. LoadsAreCareful'
  BY <1>4, AgedKeeps DEF LoadsAreCareful
<1>9. (SavesAreCareful /\ PanelFollows)'
  BY <1>4, <1>6 DEF IInv, SavesAreCareful, PanelFollows, SaveKinds
<1>10. BaseIsRead'
  BY <1>3, <1>4, <1>6 DEF IInv, BaseIsRead, LoadKinds
<1>11. InForce'
  BY <1>4, <1>6 DEF IInv, InForce
<1> QED BY <1>5, <1>7, <1>8, <1>9, <1>10, <1>11 DEF IInv

\* The save's rename: the text is the candidate's, written by the program.
LEMMA SaveRenameKeepsIInv == IInv /\ SaveRename => IInv'
<1> SUFFICES ASSUME IInv, SaveRename PROVE IInv'
  OBVIOUS
<1>1. Types /\ app \in AllTasks
  BY DEF IInv, Types, app, Procs
<1>2. app.kind \in SaveKinds /\ app \in SaveTasks /\ app.step = "rename" /\ run = "up"
  <2>1. app.kind # "none" /\ app.step = "rename"
    BY DEF SaveRename, At, Busy, app
  <2>2. app \notin LoadTasks
    BY <2>1 DEF LoadTasks
  <2>3. app.kind \in SaveKinds /\ app \in SaveTasks
    BY <1>1, <2>1, <2>2, TaskFacts
  <2> QED BY <2>1, <2>3 DEF IInv, Places
<1>3. Rendered(app.candidate) \in Texts
  BY <1>2, RenderedFacts DEF SaveTasks
<1>4. /\ file'.by = "app" /\ file' \in [text : Texts, by : {"user", "app", "cli"}]
      /\ selfMod' \in Times
      /\ watch' \in [at : {"off", "tick", "flag", "own"}, last : Times, saw : Times, own : BOOLEAN]
  BY <1>1, <1>3, PutFacts DEF SaveRename, app
<1>5. /\ UNCHANGED <<backup, run, cfg, rev, selfWrite, reloads, panel, raced, refused, events>>
      /\ task' = [AgedTasks EXCEPT !["app"].step = "remember"]
  BY DEF SaveRename, mind, ghosts
<1>6. /\ task'["cli"] = AgedTasks["cli"] /\ app' = [AgedTasks["app"] EXCEPT !.step = "remember"]
      /\ DOMAIN task' = Procs /\ task' = [p \in Procs |-> task'[p]]
  BY <1>1, <1>5, AgedFacts DEF Procs, app
<1>7. /\ app' \in SaveTasks /\ app'.kind = app.kind /\ app'.step = "remember"
      /\ app'.candidate = app.candidate /\ app'.before = app.before
  BY <1>1, <1>2, <1>6, AgedFacts DEF SaveTasks, Procs, app
<1>8. /\ task'["cli"] \in AllTasks /\ task'["cli"].kind = task["cli"].kind
      /\ task["cli"].kind # "none" => task'["cli"].step = task["cli"].step
  BY <1>1, <1>6, AgedFacts DEF Procs
<1>9. task' \in [Procs -> AllTasks]
  <2>1. \A p \in Procs : task'[p] \in AllTasks
    BY <1>7, <1>8 DEF Procs, AllTasks, app
  <2> QED BY <1>6, <2>1
<1>10. Types'
  BY <1>1, <1>4, <1>5, <1>9 DEF Types
<1>11. Places'
  BY <1>2, <1>5, <1>7, <1>8 DEF IInv, Places, SaveKinds
<1>12. LoadsAreCareful'
  <2>1. app'.kind \notin LoadKinds
    BY <1>2, <1>7 DEF LoadKinds, SaveKinds
  <2>2. LoadsAreCareful!("cli")'
    BY <1>5, <1>6, AgedKeeps DEF Procs
  <2> QED BY <2>1, <2>2 DEF LoadsAreCareful, Procs, app
<1>13. (SavesAreCareful /\ PanelFollows /\ BaseIsRead /\ InForce)'
  BY <1>2, <1>5, <1>7 DEF IInv, SavesAreCareful, PanelFollows, BaseIsRead, InForce, SaveKinds, LoadKinds
<1> QED BY <1>10, <1>11, <1>12, <1>13 DEF IInv

\* What a load is doing when it writes.
LEMMA WriteFacts ==
  ASSUME IInv, NEW p \in Procs, At(p, "write")
  PROVE  /\ task[p] \in LoadTasks /\ task[p].kind \in LoadKinds /\ task[p].text \in Texts
         /\ task[p].text = Missing \/ Readable(task[p].text)
         /\ Wanted(task[p].text) \in Texts /\ Wanted(task[p].text) # Missing
<1>1. task[p] \in AllTasks
  BY DEF IInv, Types
<1>2. task[p].kind \in LoadKinds /\ task[p] \in LoadTasks
  <2>1. task[p] \notin SaveTasks
    BY DEF At, Busy, SaveTasks
  <2> QED BY <1>1, <2>1, TaskFacts DEF At, Busy
<1>3. task[p].text \in Texts
  BY <1>2 DEF LoadTasks
<1>4. task[p].text = Missing \/ Readable(task[p].text)
  BY <1>2 DEF IInv, LoadsAreCareful, At
<1>5. Wanted(task[p].text) \in Texts /\ Wanted(task[p].text) # Missing
  BY <1>3, <1>4, WantedFacts, RenderedFacts, DefaultsFacts DEF Wanted
<1> QED BY <1>2, <1>3, <1>4, <1>5

\* A load's write: of the program's own the base is read again, of the CLI's it is over.
LEMMA LoadWriteKeepsIInv == ASSUME NEW p \in Procs PROVE IInv /\ LoadWrite(p) => IInv'
<1> SUFFICES ASSUME IInv, LoadWrite(p) PROVE IInv'
  OBVIOUS
<1>1. Types /\ At(p, "write") /\ task[p].step = "write"
  BY DEF IInv, LoadWrite, At
<1>2. /\ task[p] \in LoadTasks /\ task[p].kind \in LoadKinds
      /\ Wanted(task[p].text) \in Texts
  BY <1>1, WriteFacts
<1>3. /\ file' = [text |-> Wanted(task[p].text), by |-> p]
      /\ file'.text = Wanted(task[p].text) /\ file'.by = p
      /\ file' \in [text : Texts, by : {"user", "app", "cli"}]
      /\ selfMod' \in Times
      /\ watch' \in [at : {"off", "tick", "flag", "own"}, last : Times, saw : Times, own : BOOLEAN]
  BY <1>1, <1>2, PutFacts DEF LoadWrite, Procs
<1>4. /\ UNCHANGED <<backup, run, cfg, rev, selfWrite, reloads, panel, refused, events>>
      /\ raced' = (raced \/ (p = "cli" /\ Busy("app")) \/ (p = "cli" /\ run = "boot"))
  BY DEF LoadWrite, mind
<1>5. CASE p = "cli"
  <2>1. task' = [AgedTasks EXCEPT !["cli"] = NoTask]
    BY <1>5 DEF LoadWrite
  <2>2. /\ task' \in [Procs -> AllTasks]
        /\ task'["cli"] = NoTask /\ app' = AgedTasks["app"]
    BY <1>1, <2>1, AgedFacts, NewFacts DEF Procs, app
  <2>3. NoTask.kind = "none"
    BY NewFacts
  <2>4. /\ app'.kind = app.kind
        /\ app.kind # "none" => app'.step = app.step /\ raced' /\ app'.stamp # "now"
        /\ app.kind \in LoadKinds => app'.text = app.text /\ app'.base = app.base
        /\ app.kind \in SaveKinds => app'.candidate = app.candidate /\ app'.before = app.before
    BY <1>1, <1>4, <1>5, <2>2, AgedFacts DEF Procs, app, Busy
  <2>5. Types'
    BY <1>1, <1>3, <1>4, <2>2 DEF Types
  <2>6. Places'
    BY <1>4, <2>2, <2>3, <2>4 DEF IInv, Places, SaveKinds
  <2>7. LoadsAreCareful'
    <3>1. LoadsAreCareful!("app")'
      BY <1>4, <2>2, AgedKeeps DEF Procs, app
    <3> QED BY <2>2, <2>3, <3>1 DEF LoadsAreCareful, Procs, LoadKinds
  <2>8. (SavesAreCareful /\ PanelFollows)'
    BY <1>4, <2>4 DEF IInv, SavesAreCareful, PanelFollows, SaveKinds
  <2>9. BaseIsRead'
    BY <1>3, <1>4, <1>5, <2>4 DEF IInv, BaseIsRead, LoadKinds
  <2>10. InForce'
    BY <1>4, <2>4 DEF IInv, InForce
  <2> QED BY <2>5, <2>6, <2>7, <2>8, <2>9, <2>10 DEF IInv
<1>6. CASE p = "app"
  <2>1. task' = [AgedTasks EXCEPT !["app"].step = "reread"] /\ raced' = raced
    BY <1>1, <1>4, <1>6 DEF LoadWrite, Types
  <2>2. /\ task'["cli"] = AgedTasks["cli"] /\ app' = [AgedTasks["app"] EXCEPT !.step = "reread"]
        /\ DOMAIN task' = Procs /\ task' = [q \in Procs |-> task'[q]]
    BY <1>1, <2>1, AgedFacts DEF Procs, app
  <2>3. /\ app' \in LoadTasks /\ app'.kind = app.kind /\ app'.step = "reread"
        /\ app'.text = app.text /\ app'.base = app.base /\ app'.stamp # "now"
    BY <1>1, <1>2, <1>6, <2>2, AgedFacts DEF LoadTasks, Procs, app
  <2>4. /\ task'["cli"] \in AllTasks /\ task'["cli"].kind = task["cli"].kind
        /\ task["cli"].kind # "none" => task'["cli"].step = task["cli"].step
    BY <1>1, <2>2, AgedFacts DEF Procs
  <2>5. task' \in [Procs -> AllTasks]
    <3>1. \A q \in Procs : task'[q] \in AllTasks
      BY <2>3, <2>4 DEF Procs, AllTasks, app
    <3> QED BY <2>2, <3>1
  <2>6. Types'
    BY <1>1, <1>3, <1>4, <2>1, <2>5 DEF Types
  <2>7. app.kind \in LoadKinds /\ app.step = "write" /\ app.kind \notin SaveKinds
    BY <1>1, <1>2, <1>6 DEF app, SaveKinds, LoadKinds
  <2>8. Places'
    BY <1>4, <2>3, <2>4, <2>7 DEF IInv, Places, SaveKinds
  <2>9. LoadsAreCareful'
    <3>1. LoadsAreCareful!("cli")'
      BY <1>4, <2>2, AgedKeeps DEF Procs
    <3>2. LoadsAreCareful!("app")'
      BY <1>2, <1>6, <2>3, <2>7 DEF IInv, LoadsAreCareful, app, Procs
    <3> QED BY <3>1, <3>2 DEF LoadsAreCareful, Procs
  <2>10. (SavesAreCareful /\ PanelFollows)'
    BY <1>4, <2>3, <2>7 DEF IInv, SavesAreCareful, PanelFollows, SaveKinds
  <2>11. BaseIsRead'
    BY <1>3, <1>6, <2>3, <2>7 DEF IInv, BaseIsRead, app
  <2>12. InForce'
    BY <1>4, <2>1, <2>3, <2>7 DEF IInv, InForce
  <2> QED BY <2>6, <2>8, <2>9, <2>10, <2>11, <2>12 DEF IInv
<1> QED BY <1>5, <1>6 DEF Procs
-----------------------------------------------------------------------------
(* The other steps of a load *)

\* Steps that only saves do not take are loads'.
LEMMA LoadFacts ==
  ASSUME IInv, NEW p \in Procs, Busy(p), task[p].kind \notin SaveKinds
  PROVE  /\ task[p] \in LoadTasks /\ task[p].kind \in LoadKinds
         /\ p = "cli" => task[p].kind = "cli"
         /\ p = "app" => \/ task[p].kind = "boot" /\ run = "boot"
                         \/ task[p].kind = "reload" /\ run = "up"
<1>1. task[p] \in AllTasks
  BY DEF IInv, Types
<1>2. task[p] \in LoadTasks /\ task[p].kind \in LoadKinds
  BY <1>1, TaskFacts DEF Busy
<1> QED BY <1>2 DEF IInv, Places, LoadKinds, app, Procs, Busy

\* The steps up to the acceptance are those of loads.
LEMMA ReadIsLoad ==
  ASSUME IInv, NEW p \in Procs, NEW step \in {"read", "backup", "write", "reread", "accept"}, At(p, step)
  PROVE  /\ Busy(p) /\ task[p].kind \notin SaveKinds
         /\ task[p] \in LoadTasks /\ task[p].kind \in LoadKinds
<1>1. task[p] \in AllTasks
  BY DEF IInv, Types
<1>2. task[p] \notin SaveTasks
  BY DEF At, SaveTasks
<1>3. Busy(p) /\ task[p].kind \notin SaveKinds
  BY <1>1, <1>2, TaskFacts DEF At
<1> QED BY <1>3, LoadFacts

\* A load that fails leaves the settings it found, or the defaults at the start.
LEMMA LoadFailsKeepsIInv ==
  ASSUME NEW p \in Procs
  PROVE  /\ IInv /\ Busy(p) /\ task[p].kind \notin SaveKinds /\ LoadFails(p)
         /\ UNCHANGED disk /\ events' \in Nat
         => IInv'
<1> SUFFICES ASSUME IInv, Busy(p), task[p].kind \notin SaveKinds, LoadFails(p),
                    UNCHANGED disk, events' \in Nat
             PROVE  IInv'
  OBVIOUS
<1>1. /\ UNCHANGED <<file, backup, panel, selfWrite, selfMod, watch, reloads, raced>>
      /\ Done(p) /\ refused' = (refused \/ p = "app")
  BY DEF LoadFails, disk
<1>2. /\ task' \in [Procs -> AllTasks]
      /\ task'[p] = NoTask /\ task'[p].kind = "none"
      /\ \A q \in Procs \ {p} : task'[q] = task[q]
      /\ LoadsAreCareful'
  BY <1>1, DoneFacts DEF IInv
<1>3. CASE p = "cli"
  <2>1. /\ UNCHANGED <<run, cfg, rev>> /\ refused' = refused
    BY <1>1, <1>3, LoadFacts DEF LoadFails, IInv, Types
  <2>2. app' = app /\ task'["cli"].kind = "none"
    BY <1>2, <1>3 DEF Procs, app
  <2>3. Types'
    BY <1>1, <1>2, <2>1 DEF IInv, Types
  <2>4. (Places /\ SavesAreCareful /\ PanelFollows /\ BaseIsRead /\ InForce)'
    BY <1>1, <2>1, <2>2 DEF IInv, Places, SavesAreCareful, PanelFollows, BaseIsRead, InForce
  <2> QED BY <1>2, <2>3, <2>4 DEF IInv
<1>4. CASE p = "app"
  <2>1. app' = NoTask /\ app'.kind = "none" /\ task'["cli"] = task["cli"]
    BY <1>2, <1>4 DEF Procs, app
  <2>2. \/ app.kind = "boot" /\ run = "boot" /\ run' = "boot" /\ cfg' = Defaults /\ rev' = Unknown
        \/ app.kind = "reload" /\ run = "up" /\ UNCHANGED <<run, cfg, rev>>
    BY <1>4, LoadFacts DEF LoadFails, app
  <2>3. refused' = TRUE
    BY <1>1, <1>4
  <2>4. cfg' \in Config /\ rev' \in Revisions /\ run' \in {"off", "boot", "up"}
    BY <2>2, DefaultsFacts DEF IInv, Types, Revisions
  <2>5. Types'
    BY <1>1, <1>2, <2>3, <2>4 DEF IInv, Types
  <2>6. Places'
    BY <1>1, <2>1, <2>2 DEF IInv, Places, SaveKinds
  <2>7. PanelFollows'
    BY <1>1, <2>1, <2>2, DefaultsFacts DEF IInv, PanelFollows, SaveKinds
  <2>8. (SavesAreCareful /\ BaseIsRead /\ InForce)'
    BY <2>1, <2>3 DEF SavesAreCareful, BaseIsRead, InForce, SaveKinds, LoadKinds
  <2> QED BY <1>2, <2>5, <2>6, <2>7, <2>8 DEF IInv
<1> QED BY <1>3, <1>4 DEF Procs

\* The read decides what the load may do about the text.
LEMMA LoadReadKeepsIInv == ASSUME NEW p \in Procs PROVE IInv /\ LoadRead(p) => IInv'
<1> SUFFICES ASSUME IInv, LoadRead(p) PROVE IInv'
  OBVIOUS
<1>1. /\ Busy(p) /\ task[p].step = "read" /\ UNCHANGED <<disk, events>> /\ events' \in Nat
  BY DEF LoadRead, At, IInv, Types
<1>2. /\ task[p].kind \notin SaveKinds
      /\ task[p] \in LoadTasks /\ task[p].kind \in LoadKinds
  BY <1>1, ReadIsLoad DEF LoadRead
<1>3. CASE file.text = Broken
  BY <1>1, <1>2, <1>3, LoadFailsKeepsIInv DEF LoadRead
<1>4. CASE file.text # Broken
  <2>1. /\ UNCHANGED <<file, backup, run, cfg, rev, selfWrite, selfMod, watch, reloads, panel,
                       raced, refused, events>>
        /\ task' = [task EXCEPT ![p].step = ReadNext(file.text), ![p].text = file.text,
                                ![p].stamp = "now", ![p].base = file.text]
    BY <1>1, <1>4 DEF LoadRead, disk, mind, marks, ghosts
  <2>2. /\ task'[p] = [task[p] EXCEPT !.step = ReadNext(file.text), !.text = file.text,
                                      !.stamp = "now", !.base = file.text]
        /\ \A q \in Procs \ {p} : task'[q] = task[q]
        /\ DOMAIN task' = Procs /\ task' = [q \in Procs |-> task'[q]]
    BY <2>1 DEF IInv, Types
  <2>3. file.text \in Texts /\ (file.text = Missing \/ Readable(file.text)) /\ file.text # Unknown
    BY <1>4, TextForms DEF IInv, Types
  <2>4. ReadNext(file.text) \in {"backup", "write", "accept"}
    BY DEF ReadNext
  <2>5. /\ task'[p] \in LoadTasks /\ task'[p].kind = task[p].kind
        /\ task'[p].step = ReadNext(file.text) /\ task'[p].text = file.text
        /\ task'[p].base = file.text /\ task'[p].stamp = "now"
    BY <1>2, <2>2, <2>3, <2>4 DEF LoadTasks, Revisions, Times
  <2>6. task' \in [Procs -> AllTasks]
    <3>1. \A q \in Procs : task'[q] \in AllTasks
      BY <2>2, <2>5 DEF IInv, Types, AllTasks
    <3> QED BY <2>2, <3>1
  <2>7. Types'
    BY <2>1, <2>6 DEF IInv, Types
  <2>8. /\ task'["cli"].kind = task["cli"].kind
        /\ p # "cli" => task'["cli"] = task["cli"]
        /\ app'.kind = app.kind
        /\ p # "app" => app' = app
    BY <2>2, <2>5 DEF Procs, app
  <2>9. Places'
    BY <1>2, <2>1, <2>4, <2>5, <2>8 DEF IInv, Places, app, SaveKinds, LoadKinds, Procs
  <2>10. LoadsAreCareful'
    <3>1. LoadsAreCareful!(p)'
      BY <1>4, <2>1, <2>3, <2>5 DEF ReadNext
    <3>2. ASSUME NEW q \in Procs \ {p} PROVE LoadsAreCareful!(q)'
      BY <2>1, <2>2 DEF IInv, LoadsAreCareful, Other
    <3> QED BY <3>1, <3>2 DEF LoadsAreCareful
  <2>11. (SavesAreCareful /\ PanelFollows)'
    BY <1>2, <2>1, <2>8 DEF IInv, SavesAreCareful, PanelFollows, app, SaveKinds, LoadKinds, Procs
  <2>12. BaseIsRead'
    <3>1. CASE p = "app"
      BY <2>1, <2>3, <2>4, <2>5, <3>1 DEF BaseIsRead, app, ReadNext
    <3>2. CASE p # "app"
      BY <2>1, <2>8, <3>2 DEF IInv, BaseIsRead
    <3> QED BY <3>1, <3>2
  <2>13. InForce'
    <3>1. CASE p = "app"
      BY <1>2, <2>1, <2>4, <2>5, <3>1 DEF InForce, app, LoadKinds
    <3>2. CASE p # "app"
      BY <2>1, <2>8, <3>2 DEF IInv, InForce
    <3> QED BY <3>1, <3>2
  <2> QED BY <2>7, <2>9, <2>10, <2>11, <2>12, <2>13 DEF IInv
<1> QED BY <1>3, <1>4

\* A file operation of a load fails.
LEMMA LoadFaultKeepsIInv == ASSUME NEW p \in Procs PROVE IInv /\ LoadFault(p) => IInv'
<1> SUFFICES ASSUME IInv, LoadFault(p) PROVE IInv'
  OBVIOUS
<1>1. events' \in Nat
  BY DEF LoadFault, Event, IInv, Types
<1>2. Busy(p) /\ task[p].kind \notin SaveKinds
  BY DEF LoadFault, LoadKinds, SaveKinds
<1> QED BY <1>1, <1>2, LoadFailsKeepsIInv DEF LoadFault

\* One field of one load changes, or two: the rest of the tasks is as it was.
LEMMA GotoFacts ==
  ASSUME Types, NEW p \in Procs, task[p] \in LoadTasks,
         NEW step \in {"read", "backup", "write", "reread", "accept", "remember"},
         NEW base \in Revisions,
         task' = [task EXCEPT ![p].step = step, ![p].base = base]
  PROVE  /\ task' \in [Procs -> AllTasks]
         /\ task'[p] \in LoadTasks /\ task'[p].kind = task[p].kind
         /\ task'[p].step = step /\ task'[p].base = base
         /\ task'[p].text = task[p].text /\ task'[p].stamp = task[p].stamp
         /\ \A q \in Procs \ {p} : task'[q] = task[q]
<1>1. /\ task'[p] = [task[p] EXCEPT !.step = step, !.base = base]
      /\ \A q \in Procs \ {p} : task'[q] = task[q]
      /\ DOMAIN task' = Procs /\ task' = [q \in Procs |-> task'[q]]
  BY DEF Types
<1>2. /\ task'[p] \in LoadTasks /\ task'[p].kind = task[p].kind
      /\ task'[p].step = step /\ task'[p].base = base
      /\ task'[p].text = task[p].text /\ task'[p].stamp = task[p].stamp
  BY <1>1 DEF LoadTasks
<1>3. \A q \in Procs : task'[q] \in AllTasks
  BY <1>1, <1>2 DEF Types, AllTasks
<1> QED BY <1>1, <1>2, <1>3

\* A step without a new base keeps the base.
LEMMA GotoIsBoth ==
  ASSUME Types, NEW p \in Procs, task[p] \in LoadTasks, NEW step, Goto(p, step)
  PROVE  task' = [task EXCEPT ![p].step = step, ![p].base = task[p].base]
<1>1. [task[p] EXCEPT !.step = step] = [task[p] EXCEPT !.step = step, !.base = task[p].base]
  BY DEF LoadTasks
<1>2. task' = [task EXCEPT ![p] = [task[p] EXCEPT !.step = step]]
  BY DEF Goto, Types
<1>3. [task EXCEPT ![p].step = step, ![p].base = task[p].base] =
      [task EXCEPT ![p] = [task[p] EXCEPT !.step = step, !.base = task[p].base]]
  BY DEF Types
<1> QED BY <1>1, <1>2, <1>3

\* The backup takes the text that is to be corrected.
LEMMA LoadBackupKeepsIInv == ASSUME NEW p \in Procs PROVE IInv /\ LoadBackup(p) => IInv'
<1> SUFFICES ASSUME IInv, LoadBackup(p) PROVE IInv'
  OBVIOUS
<1>1. /\ Busy(p) /\ task[p].step = "backup" /\ Goto(p, "write")
      /\ UNCHANGED <<file, run, cfg, rev, selfWrite, selfMod, watch, reloads, panel,
                     raced, refused, events>>
      /\ backup' = [text |-> task[p].text, by |-> p]
  BY DEF LoadBackup, At, mind, marks, ghosts
<1>2. /\ task[p].kind \notin SaveKinds /\ Types
      /\ task[p] \in LoadTasks /\ task[p].kind \in LoadKinds
      /\ task[p].base \in Revisions /\ task[p].text \in Texts
  <2>1. task[p].kind \notin SaveKinds /\ task[p] \in LoadTasks /\ task[p].kind \in LoadKinds
    BY ReadIsLoad DEF LoadBackup
  <2> QED BY <2>1 DEF IInv, LoadTasks
<1>3. /\ task' \in [Procs -> AllTasks]
      /\ task'[p] \in LoadTasks /\ task'[p].kind = task[p].kind
      /\ task'[p].step = "write" /\ task'[p].base = task[p].base
      /\ task'[p].text = task[p].text /\ task'[p].stamp = task[p].stamp
      /\ \A q \in Procs \ {p} : task'[q] = task[q]
  <2>1. task' = [task EXCEPT ![p].step = "write", ![p].base = task[p].base]
    BY <1>1, <1>2, GotoIsBoth
  <2> QED BY <1>2, <2>1, GotoFacts
<1>4. Types'
  BY <1>1, <1>2, <1>3 DEF Types, Procs
<1>5. /\ task'["cli"].kind = task["cli"].kind
      /\ p # "cli" => task'["cli"] = task["cli"]
      /\ app'.kind = app.kind
      /\ p # "app" => app' = app
  BY <1>3 DEF Procs, app
<1>6. Places'
  BY <1>1, <1>2, <1>3, <1>5 DEF IInv, Places, app, SaveKinds, LoadKinds, Procs
<1>7. LoadsAreCareful'
  <2>1. LoadsAreCareful!(p)
    BY DEF IInv, LoadsAreCareful
  <2>2. LoadsAreCareful!(p)'
    BY <1>1, <1>2, <1>3, <2>1
  <2>3. ASSUME NEW q \in Procs \ {p} PROVE LoadsAreCareful!(q)'
    BY <1>1, <1>3 DEF IInv, LoadsAreCareful, Other, Procs
  <2> QED BY <2>2, <2>3 DEF LoadsAreCareful
<1>8. (SavesAreCareful /\ PanelFollows)'
  BY <1>1, <1>2, <1>5 DEF IInv, SavesAreCareful, PanelFollows, app, SaveKinds, LoadKinds, Procs
<1>9. BaseIsRead'
  <2>1. CASE p = "app"
    BY <1>1, <1>3, <2>1 DEF IInv, BaseIsRead, app
  <2>2. CASE p # "app"
    BY <1>1, <1>5, <2>2 DEF IInv, BaseIsRead
  <2> QED BY <2>1, <2>2
<1>10. InForce'
  <2>1. CASE p = "app"
    BY <1>2, <1>3, <2>1 DEF InForce, app, LoadKinds
  <2>2. CASE p # "app"
    BY <1>1, <1>5, <2>2 DEF IInv, InForce
  <2> QED BY <2>1, <2>2
<1> QED BY <1>4, <1>6, <1>7, <1>8, <1>9, <1>10 DEF IInv

\* The revision is read back after the write.
LEMMA LoadRereadKeepsIInv == ASSUME NEW p \in Procs PROVE IInv /\ LoadReread(p) => IInv'
<1> SUFFICES ASSUME IInv, LoadReread(p) PROVE IInv'
  OBVIOUS
<1> DEFINE base == IF file.text = Missing THEN task[p].base ELSE file.text
<1>1. /\ Busy(p) /\ task[p].step = "reread"
      /\ UNCHANGED <<file, backup, run, cfg, rev, selfWrite, selfMod, watch, reloads, panel,
                     raced, refused, events>>
  BY DEF LoadReread, At, disk, mind, marks, ghosts
<1>2. /\ task[p].kind \notin SaveKinds /\ Types
      /\ task[p] \in LoadTasks /\ task[p].kind \in LoadKinds
      /\ base \in Revisions /\ task[p].text \in Texts
  <2>1. task[p].kind \notin SaveKinds /\ task[p] \in LoadTasks /\ task[p].kind \in LoadKinds
    BY ReadIsLoad DEF LoadReread
  <2>2. file.text \in Texts
    BY DEF IInv, Types
  <2> QED BY <2>1, <2>2 DEF IInv, LoadTasks, Revisions
<1>3. task' = [task EXCEPT ![p].step = "accept", ![p].base = base]
  <2>1. task' = [task EXCEPT ![p] = [task[p] EXCEPT !.step = "accept", !.base = base]]
    BY <1>2 DEF LoadReread, Types, LoadTasks
  <2> QED BY <1>2, <2>1 DEF Types
<1> HIDE DEF base
<1>4. /\ task' \in [Procs -> AllTasks]
      /\ task'[p] \in LoadTasks /\ task'[p].kind = task[p].kind
      /\ task'[p].step = "accept" /\ task'[p].base = base
      /\ task'[p].text = task[p].text /\ task'[p].stamp = task[p].stamp
      /\ \A q \in Procs \ {p} : task'[q] = task[q]
  BY <1>2, <1>3, GotoFacts
<1>5. Types'
  BY <1>1, <1>2, <1>4 DEF Types
<1>6. /\ task'["cli"].kind = task["cli"].kind
      /\ p # "cli" => task'["cli"] = task["cli"]
      /\ app'.kind = app.kind
      /\ p # "app" => app' = app
  BY <1>4 DEF Procs, app
<1>7. Places'
  BY <1>1, <1>2, <1>4, <1>6 DEF IInv, Places, app, SaveKinds, LoadKinds, Procs
<1>8. LoadsAreCareful'
  <2>1. LoadsAreCareful!(p)'
    BY <1>1, <1>2, <1>4 DEF IInv, LoadsAreCareful
  <2>2. ASSUME NEW q \in Procs \ {p} PROVE LoadsAreCareful!(q)'
    BY <1>1, <1>4 DEF IInv, LoadsAreCareful, Other
  <2> QED BY <2>1, <2>2 DEF LoadsAreCareful
<1>9. (SavesAreCareful /\ PanelFollows)'
  BY <1>1, <1>2, <1>6 DEF IInv, SavesAreCareful, PanelFollows, app, SaveKinds, LoadKinds, Procs
<1>10. BaseIsRead'
  <2>1. CASE p = "app"
    <3>1. /\ app.step # "read" => app.base # Unknown
          /\ app.stamp # "now"
          /\ ~raced \/ file.by = "app" => file.text = Wanted(app.text)
      BY <1>1, <1>2, <2>1 DEF IInv, BaseIsRead, app
    <3>2. Wanted(app.text) # Missing /\ file.text # Unknown
      <4>1. app.text = Missing \/ Readable(app.text)
        BY <1>1, <1>2, <2>1, TextForms DEF IInv, LoadsAreCareful, app
      <4> QED BY <1>2, <2>1, <4>1, WantedFacts, RenderedFacts, DefaultsFacts, TextForms
              DEF Wanted, app, Types
    <3> QED BY <1>1, <1>4, <2>1, <3>1, <3>2 DEF BaseIsRead, app, base
  <2>2. CASE p # "app"
    BY <1>1, <1>6, <2>2 DEF IInv, BaseIsRead
  <2> QED BY <2>1, <2>2
<1>11. InForce'
  <2>1. CASE p = "app"
    BY <1>2, <1>4, <2>1 DEF InForce, app, LoadKinds
  <2>2. CASE p # "app"
    BY <1>1, <1>6, <2>2 DEF IInv, InForce
  <2> QED BY <2>1, <2>2
<1> QED BY <1>5, <1>7, <1>8, <1>9, <1>10, <1>11 DEF IInv

\* What is accepted are the settings of the text that was read.
LEMMA LoadedFacts ==
  ASSUME IInv, NEW p \in Procs, At(p, "accept")
  PROVE  /\ Loaded(p) \in Config
         /\ task[p].text = Missing => Wanted(task[p].text) = Rendered(Loaded(p))
         /\ task[p].text # Missing => /\ Wanted(task[p].text) = Rendered(Loaded(p))
                                      /\ InMemory(task[p].text) = Resolve(Loaded(p))
         /\ InMemory(Wanted(task[p].text)) = Resolve(Loaded(p))
<1>1. /\ task[p] \in LoadTasks /\ task[p].kind \in LoadKinds /\ task[p].step = "accept"
  BY ReadIsLoad DEF At
<1>2. task[p].text \in Texts /\ task[p].text # Broken
  BY <1>1 DEF LoadTasks, IInv, LoadsAreCareful
<1>3. task[p].text = Missing \/ Readable(task[p].text)
  BY <1>2, TextForms
<1>4. CASE task[p].text = Missing
  BY <1>4, DefaultsFacts, RenderedFacts DEF Loaded, Wanted
<1>5. CASE task[p].text # Missing
  <2>1. Loaded(p) = Parsed(task[p].text) /\ Loaded(p) \in Config
        /\ Wanted(task[p].text) = Rendered(Loaded(p))
    BY <1>2, <1>3, <1>5, WantedFacts DEF Loaded
  <2> QED BY <1>5, <2>1, RenderedFacts DEF InMemory
<1> QED BY <1>4, <1>5

\* The base that is accepted stands for the settings, but for a race.
LEMMA AcceptFacts ==
  ASSUME IInv, At("app", "accept")
  PROVE  /\ app.base \in Revisions /\ app.base # Unknown
         /\ (~raced \/ file.by = "app" \/ app.stamp = "now") =>
               InMemory(app.base) = Resolve(Loaded("app"))
<1>1. app \in LoadTasks /\ app.kind \in LoadKinds /\ app.step = "accept"
  BY ReadIsLoad DEF At, app, Procs
<1>2. /\ app.base # Unknown
      /\ (~raced \/ file.by = "app" \/ app.stamp = "now") =>
            \/ app.base = app.text /\ Readable(app.text)
            \/ app.base = Wanted(app.text)
  BY <1>1 DEF IInv, BaseIsRead
<1>3. Readable(app.text) => app.text # Missing
  BY TextForms
<1> QED BY <1>1, <1>2, <1>3, LoadedFacts DEF LoadTasks, app, Procs

\* Settings and revision are replaced together, from the same text but for a race.
LEMMA LoadAcceptKeepsIInv == ASSUME NEW p \in Procs PROVE IInv /\ LoadAccept(p) => IInv'
<1> SUFFICES ASSUME IInv, LoadAccept(p) PROVE IInv'
  OBVIOUS
<1>1. /\ Busy(p) /\ task[p].step = "accept" /\ At(p, "accept") /\ Types
      /\ UNCHANGED <<file, backup, selfWrite, selfMod, watch, reloads, events>>
  BY DEF LoadAccept, At, disk, marks, IInv
<1>2. /\ task[p].kind \notin SaveKinds
      /\ task[p] \in LoadTasks /\ task[p].kind \in LoadKinds
  BY <1>1, ReadIsLoad
<1>3. CASE task[p].kind = "cli"
  <2>1. p = "cli"
    BY <1>1, <1>2, <1>3, LoadFacts DEF Procs
  <2>2. /\ Done(p) /\ UNCHANGED <<run, cfg, rev, panel, raced, refused>>
    BY <1>3 DEF LoadAccept, mind, ghosts
  <2>3. /\ task' \in [Procs -> AllTasks] /\ task'["cli"].kind = "none" /\ app' = app
        /\ LoadsAreCareful'
    BY <1>1, <2>1, <2>2, DoneFacts DEF IInv, Procs, app
  <2>4. Types'
    BY <1>1, <2>2, <2>3 DEF Types
  <2>5. (Places /\ SavesAreCareful /\ PanelFollows /\ BaseIsRead /\ InForce)'
    BY <1>1, <2>2, <2>3 DEF IInv, Places, SavesAreCareful, PanelFollows, BaseIsRead, InForce
  <2> QED BY <2>3, <2>4, <2>5 DEF IInv
<1>4. CASE task[p].kind = "boot"
  <2>1. p = "app" /\ run = "boot"
    BY <1>1, <1>2, <1>4, LoadFacts DEF Procs
  <2>2. /\ Done(p) /\ run' = "boot" /\ cfg' = Loaded(p) /\ rev' = task[p].base
        /\ UNCHANGED <<panel, raced, refused>>
    BY <1>4 DEF LoadAccept, ghosts
  <2>3. /\ task' \in [Procs -> AllTasks] /\ task'["cli"] = task["cli"]
        /\ app' = NoTask /\ app'.kind = "none"
        /\ LoadsAreCareful'
    BY <1>1, <2>1, <2>2, DoneFacts DEF IInv, Procs, app
  <2>4. /\ cfg' \in Config /\ rev' \in Revisions /\ rev' # Unknown
        /\ ~raced => InMemory(rev') = Resolve(cfg')
    BY <1>1, <2>1, <2>2, LoadedFacts, AcceptFacts DEF app
  <2>5. Types'
    BY <1>1, <2>2, <2>3, <2>4 DEF Types
  <2>6. Places'
    BY <1>1, <2>1, <2>2, <2>3 DEF IInv, Places, SaveKinds
  <2>7. PanelFollows'
    BY <2>1, <2>2, <2>3, <2>4 DEF IInv, PanelFollows, SaveKinds
  <2>8. (SavesAreCareful /\ BaseIsRead)'
    BY <2>3 DEF SavesAreCareful, BaseIsRead, SaveKinds, LoadKinds
  <2>9. InForce'
    BY <2>2, <2>3, <2>4 DEF InForce
  <2> QED BY <2>3, <2>5, <2>6, <2>7, <2>8, <2>9 DEF IInv
<1>5. CASE task[p].kind = "reload"
  <2>1. p = "app" /\ run = "up"
    BY <1>1, <1>2, <1>5, LoadFacts DEF Procs
  <2>2. /\ Goto(p, "remember")
        /\ cfg' = Resolve(Loaded(p)) /\ rev' = task[p].base
        /\ panel' = [rev |-> rev', rules |-> cfg'.rules]
        /\ refused' = FALSE
        /\ raced' = (raced /\ file.by # "app" /\ task[p].stamp # "now")
        /\ UNCHANGED run
    BY <1>5 DEF LoadAccept
  <2>3. /\ task' \in [Procs -> AllTasks]
        /\ app' \in LoadTasks /\ app'.kind = "reload" /\ app'.step = "remember"
        /\ app'.text = app.text /\ app'.base = app.base
        /\ task'["cli"] = task["cli"]
    <3>1. task' = [task EXCEPT ![p].step = "remember", ![p].base = task[p].base]
      BY <1>1, <1>2, <2>2, GotoIsBoth
    <3>2. task[p].base \in Revisions
      BY <1>2 DEF LoadTasks
    <3>3. /\ task' \in [Procs -> AllTasks]
          /\ task'[p] \in LoadTasks /\ task'[p].kind = task[p].kind
          /\ task'[p].step = "remember" /\ task'[p].text = task[p].text
          /\ task'[p].base = task[p].base
          /\ \A q \in Procs \ {p} : task'[q] = task[q]
      BY <1>1, <1>2, <3>1, <3>2, GotoFacts
    <3> QED BY <1>5, <2>1, <3>3 DEF Procs, app
  <2>4. /\ cfg' \in Config /\ cfg'.plain \in Plains /\ rev' \in Revisions /\ rev' # Unknown
        /\ ~raced' => InMemory(rev') = cfg'
    <3>1. /\ Loaded(p) \in Config
          /\ app.base \in Revisions /\ app.base # Unknown
          /\ (~raced \/ file.by = "app" \/ app.stamp = "now") =>
                InMemory(app.base) = Resolve(Loaded("app"))
      BY <1>1, <2>1, LoadedFacts, AcceptFacts
    <3> QED BY <2>1, <2>2, <3>1, ResolveFacts DEF app
  <2>5. panel' \in [rev : Revisions, rules : RuleValues] /\ panel'.rules = cfg'.rules /\ panel'.rev = rev'
    BY <2>2, <2>4 DEF Config
  <2>6. Types'
    BY <1>1, <2>2, <2>3, <2>4, <2>5 DEF Types
  <2>7. Places'
    <3>1. ~selfWrite
      BY <1>2, <2>1 DEF IInv, Places, app
    <3> QED BY <1>1, <2>1, <2>2, <2>3, <2>4, <3>1 DEF IInv, Places, SaveKinds
  <2>8. LoadsAreCareful'
    <3>1. LoadsAreCareful!("app")'
      BY <1>1, <1>2, <2>1, <2>3 DEF IInv, LoadsAreCareful, app
    <3>2. LoadsAreCareful!("cli")'
      BY <1>1, <2>3 DEF IInv, LoadsAreCareful, Other, Procs
    <3> QED BY <3>1, <3>2 DEF LoadsAreCareful, Procs
  <2>9. (SavesAreCareful /\ PanelFollows /\ BaseIsRead)'
    <3>1. app'.base # Unknown
      BY <1>1, <2>1, <2>3, AcceptFacts
    <3> QED BY <2>1, <2>2, <2>3, <2>4, <2>5, <3>1
            DEF SavesAreCareful, PanelFollows, BaseIsRead, SaveKinds
  <2>10. InForce'
    BY <2>1, <2>2, <2>3, <2>4 DEF InForce
  <2> QED BY <2>6, <2>7, <2>8, <2>9, <2>10 DEF IInv
<1> QED BY <1>2, <1>3, <1>4, <1>5 DEF LoadKinds
-----------------------------------------------------------------------------
(* The steps of a save *)

\* What a save holds.
LEMMA SaveFacts ==
  ASSUME IInv, app.kind \in SaveKinds
  PROVE  /\ app \in SaveTasks /\ app.kind \notin LoadKinds /\ run = "up"
         /\ app.candidate \in Config /\ app.candidate.plain \in Plains
         /\ app.before \in RuleValues
<1>1. app \in AllTasks
  BY DEF IInv, Types, app, Procs
<1>2. app \in SaveTasks /\ app.kind \notin LoadKinds
  BY <1>1, TaskFacts DEF SaveKinds, LoadKinds
<1> QED BY <1>2 DEF SaveTasks, IInv, Places

\* A save begins: the program was idle, the candidate differs from the settings
\* in force only where the manager has new rules.
LEMMA BeginKeepsIInv ==
  ASSUME IInv, Ready, NEW kind \in SaveKinds, NEW before \in RuleValues,
         cfg' \in Config, cfg'.plain \in Plains,
         NEW candidate \in Config, candidate.plain \in Plains,
         kind # "rules" => candidate = cfg',
         kind = "rules" => cfg' = cfg,
         kind = "once" => before = "one" /\ cfg.rules = "one",
         kind # "once" => cfg'.rules = cfg.rules,
         task' = [task EXCEPT !["app"] = [NewSave(kind, candidate, rev) EXCEPT !.before = before]],
         selfWrite' \in BOOLEAN, events' \in Nat,
         UNCHANGED <<file, backup, run, rev, selfMod, watch, reloads, panel, raced, refused>>
  PROVE  IInv'
<1>1. Types /\ rev \in Revisions /\ run = "up" /\ app.kind = "none"
  BY DEF IInv, Types, Ready, Busy, app
<1>2. NewSave(kind, candidate, rev) \in SaveTasks
  BY <1>1, NewFacts
<1>3. [NewSave(kind, candidate, rev) EXCEPT !.before = before] \in SaveTasks
  BY <1>2 DEF SaveTasks
<1>4. /\ task' \in [Procs -> AllTasks]
      /\ app' = [NewSave(kind, candidate, rev) EXCEPT !.before = before]
      /\ task'["cli"] = task["cli"]
  BY <1>1, <1>3 DEF Types, Procs, app, AllTasks
<1>5. /\ app' \in SaveTasks /\ app'.kind = kind /\ app'.step = "check"
      /\ app'.candidate = candidate /\ app'.before = before /\ app'.base = rev
  BY <1>2, <1>3, <1>4 DEF SaveTasks, NewSave
<1>6. Types'
  BY <1>1, <1>4 DEF Types
<1>7. Places'
  BY <1>1, <1>4, <1>5 DEF IInv, Places, SaveKinds
<1>8. LoadsAreCareful'
  <2>1. app'.kind \notin LoadKinds
    BY <1>5 DEF LoadKinds, SaveKinds
  <2>2. LoadsAreCareful!("cli")'
    BY <1>4 DEF IInv, LoadsAreCareful, Other, Procs
  <2> QED BY <2>1, <2>2 DEF LoadsAreCareful, Procs, app
<1>9. PanelFollows'
  BY <1>1, <1>5 DEF IInv, PanelFollows, SaveKinds
<1>10. (SavesAreCareful /\ BaseIsRead)'
  BY <1>5 DEF SavesAreCareful, BaseIsRead, SaveKinds, LoadKinds
<1>11. InForce'
  BY <1>1, <1>5 DEF IInv, InForce, SaveKinds
<1> QED BY <1>6, <1>7, <1>8, <1>9, <1>10, <1>11 DEF IInv

\* Faulty rules are refused before anything is begun.
LEMMA RefusedKeepsIInv ==
  ASSUME IInv, Ready, cfg' \in Config, cfg'.plain \in Plains, cfg'.rules = cfg.rules,
         refused' = TRUE, events' \in Nat,
         UNCHANGED <<file, backup, run, rev, task, selfWrite, selfMod, watch, reloads, panel, raced>>
  PROVE  IInv'
<1>1. Types'
  BY DEF IInv, Types
<1>2. run = "up" /\ app.kind = "none"
  BY DEF Ready, Busy, app
<1>3. (LoadsAreCareful /\ SavesAreCareful /\ BaseIsRead)'
  BY DEF IInv, LoadsAreCareful, SavesAreCareful, BaseIsRead, app, Other
<1>4. (Places /\ PanelFollows)'
  BY <1>2 DEF IInv, Places, PanelFollows, app, SaveKinds
<1>5. InForce'
  BY DEF InForce
<1> QED BY <1>1, <1>3, <1>4, <1>5 DEF IInv

\* A new save remembers the rules in force.
LEMMA NewSaveBefore ==
  \A k, c, b : [NewSave(k, c, b) EXCEPT !.before = cfg.rules] = NewSave(k, c, b)
BY DEF NewSave

\* A setting is in force at once: until it is saved the task is the change's.
LEMMA ChangeSettingKeepsIInv == IInv /\ ChangeSetting => IInv'
<1> SUFFICES ASSUME IInv, ChangeSetting PROVE IInv'
  OBVIOUS
<1>1. PICK value \in Plains \ {cfg.plain} :
         /\ cfg' = [cfg EXCEPT !.plain = value]
         /\ Begin("change", cfg', rev)
  BY DEF ChangeSetting
<1>2. /\ UNCHANGED <<file, backup, run, rev, selfMod, watch, reloads, panel, raced>>
      /\ Ready /\ events' \in Nat /\ cfg \in Config /\ cfg.rules \in RuleValues
  BY DEF ChangeSetting, disk, Event, IInv, Types, Config
<1>3. cfg' \in Config /\ cfg'.plain \in Plains /\ cfg'.rules = cfg.rules
  BY <1>1, <1>2 DEF Config
<1>4. CASE Issues(cfg'.rules)
  BY <1>1, <1>2, <1>3, <1>4, RefusedKeepsIInv DEF Begin
<1>5. CASE ~Issues(cfg'.rules)
  <2>1. /\ task' = [task EXCEPT !["app"] = NewSave("change", cfg', rev)]
        /\ selfWrite' \in BOOLEAN /\ UNCHANGED refused
    BY <1>1, <1>5 DEF Begin
  <2>2. task' = [task EXCEPT !["app"] = [NewSave("change", cfg', rev) EXCEPT !.before = cfg.rules]]
    BY <2>1, NewSaveBefore
  <2> QED BY <1>2, <1>3, <2>1, <2>2, BeginKeepsIInv DEF SaveKinds
<1> QED BY <1>4, <1>5

\* A one-time rule is spent at once, and the save remembers that it was there.
LEMMA FinishOneTimeRuleKeepsIInv == IInv /\ FinishOneTimeRule => IInv'
<1> SUFFICES ASSUME IInv, FinishOneTimeRule PROVE IInv'
  OBVIOUS
<1>1. /\ cfg' = [cfg EXCEPT !.rules = "spent"] /\ cfg.rules = "one" /\ Ready
      /\ task' = [task EXCEPT !["app"] = [NewSave("once", cfg', rev) EXCEPT !.before = "one"]]
      /\ selfWrite' = TRUE
      /\ UNCHANGED <<file, backup, run, rev, selfMod, watch, reloads, panel, raced, refused>>
  BY DEF FinishOneTimeRule, disk, ghosts
<1>2. /\ events' \in Nat /\ cfg \in Config /\ run = "up"
  BY <1>1 DEF FinishOneTimeRule, Event, IInv, Types, Ready
<1>3. cfg' \in Config /\ cfg'.plain \in Plains /\ "one" \in RuleValues
  BY <1>1, <1>2 DEF Config, RuleValues, Rules, IInv, Places
<1> QED BY <1>1, <1>2, <1>3, BeginKeepsIInv DEF SaveKinds

\* The manager's rules are a candidate, not in force.
LEMMA SaveRulesKeepsIInv == IInv /\ SaveRules => IInv'
<1> SUFFICES ASSUME IInv, SaveRules PROVE IInv'
  OBVIOUS
<1>1. /\ UNCHANGED <<file, backup, run, cfg, rev, selfMod, watch, reloads, raced>>
      /\ Ready /\ events' \in Nat /\ cfg \in Config /\ cfg.rules \in RuleValues
      /\ run = "up" /\ cfg.plain \in Plains /\ app.kind = "none"
  BY DEF SaveRules, disk, Event, IInv, Types, Config, Ready, Places, Busy, app
<1>2. CASE panel.rev # rev
  <2>1. /\ panel' = [rev |-> rev, rules |-> cfg.rules]
        /\ UNCHANGED <<task, selfWrite, refused>>
    BY <1>2 DEF SaveRules
  <2>2. Types'
    BY <1>1, <2>1 DEF IInv, Types
  <2>3. (Places /\ LoadsAreCareful /\ SavesAreCareful /\ BaseIsRead /\ InForce)'
    BY <1>1, <2>1 DEF IInv, Places, LoadsAreCareful, SavesAreCareful, BaseIsRead, InForce, app, Other
  <2>4. PanelFollows'
    BY <1>1, <2>1 DEF IInv, PanelFollows, app, SaveKinds
  <2> QED BY <2>2, <2>3, <2>4 DEF IInv
<1>3. CASE panel.rev = rev
  <2>1. PICK rules \in {"none", "one"} \ {panel.rules} :
           Begin("rules", [cfg EXCEPT !.rules = rules], rev)
    BY <1>3 DEF SaveRules
  <2> DEFINE candidate == [cfg EXCEPT !.rules = rules]
  <2>2. candidate \in Config /\ candidate.plain \in Plains /\ ~Issues(candidate.rules)
    BY <1>1 DEF Config, RuleValues, Rules, Issues
  <2>3. /\ task' = [task EXCEPT !["app"] = NewSave("rules", candidate, rev)]
        /\ selfWrite' \in BOOLEAN /\ UNCHANGED refused
    BY <2>1, <2>2 DEF Begin
  <2>4. UNCHANGED panel
    BY <1>3 DEF SaveRules
  <2> HIDE DEF candidate
  <2>5. task' = [task EXCEPT !["app"] = [NewSave("rules", candidate, rev) EXCEPT !.before = cfg.rules]]
    BY <2>3, NewSaveBefore
  <2> QED BY <1>1, <2>2, <2>3, <2>4, <2>5, BeginKeepsIInv DEF SaveKinds
<1> QED BY <1>2, <1>3

\* Steps that no load takes are saves'.
LEMMA CheckIsSave ==
  ASSUME IInv, Busy("app"), 
         app.step \in {"check", "rename"} \/ (app.kind # "reload" /\ app.step = "remember")
  PROVE  app.kind \in SaveKinds
<1>1. app \in AllTasks /\ app.kind # "none"
  BY DEF IInv, Types, app, Procs, Busy
<1>2. CASE app \in LoadTasks
  <2>1. app.step = "remember" /\ app.kind \in {"boot", "cli"}
    BY <1>2 DEF LoadTasks, LoadKinds
  <2> QED BY <2>1 DEF IInv, Places, SaveKinds
<1> QED BY <1>1, <1>2, TaskFacts

\* A save that fails: settings stay in memory, the one-time rule is put back,
\* after a conflict the rules are loaded again.
LEMMA SaveFailsKeepsIInv ==
  ASSUME IInv, app.kind \in SaveKinds, NEW conflict \in BOOLEAN, SaveFails(conflict), events' \in Nat
  PROVE  IInv'
<1>1. /\ UNCHANGED <<file, backup, run, rev, panel, selfMod, watch, reloads, raced>>
      /\ cfg' = IF app.kind = "once" THEN [cfg EXCEPT !.rules = app.before] ELSE cfg
      /\ refused' = (refused \/ app.kind # "rules")
      /\ selfWrite' = FALSE /\ Types /\ run = "up"
  BY SaveFacts DEF SaveFails, disk, IInv, app
<1>2. /\ task' \in [Procs -> AllTasks] /\ task'["cli"] = task["cli"]
      /\ \/ app'.kind = "none"
         \/ app'.kind = "reload" /\ app'.step = "read" /\ app.kind = "rules"
      /\ LoadsAreCareful'
  <2>1. CASE conflict /\ app.kind = "rules"
    <3>1. task' = [task EXCEPT !["app"] = NewLoad("reload")]
      BY <2>1 DEF SaveFails, app
    <3>2. /\ NewLoad("reload") \in AllTasks /\ NewLoad("reload").kind = "reload"
          /\ NewLoad("reload").step = "read"
      BY NewFacts DEF AllTasks, LoadKinds
    <3>3. /\ task' \in [Procs -> AllTasks] /\ task'["cli"] = task["cli"]
          /\ app' = NewLoad("reload")
      BY <1>1, <3>1, <3>2 DEF Types, Procs, app
    <3>4. LoadsAreCareful'
      BY <1>1, <3>2, <3>3 DEF IInv, LoadsAreCareful, Procs, Other, app
    <3> QED BY <2>1, <3>2, <3>3, <3>4
  <2>2. CASE ~(conflict /\ app.kind = "rules")
    <3>1. Done("app")
      BY <2>2 DEF SaveFails, app
    <3> QED BY <1>1, <3>1, DoneFacts DEF IInv, Procs, app
  <2> QED BY <2>1, <2>2
<1>3. /\ cfg' \in Config /\ cfg'.plain = cfg.plain /\ cfg \in Config
      /\ cfg'.rules = IF app.kind = "once" THEN app.before ELSE cfg.rules
  BY <1>1, SaveFacts DEF IInv, Types, Config
<1>4. Types'
  BY <1>1, <1>2, <1>3 DEF Types
<1>5. Places'
  BY <1>1, <1>2, <1>3 DEF IInv, Places, SaveKinds
<1>6. PanelFollows'
  BY <1>1, <1>2, <1>3 DEF IInv, PanelFollows, SaveKinds
<1>7. (SavesAreCareful /\ BaseIsRead)'
  BY <1>2 DEF SavesAreCareful, BaseIsRead, SaveKinds, LoadKinds
<1>8. InForce'
  <2>1. CASE app.kind = "rules"
    BY <1>1, <1>2, <2>1 DEF IInv, InForce
  <2>2. CASE app.kind # "rules"
    BY <1>1, <2>2 DEF InForce
  <2> QED BY <2>1, <2>2
<1> QED BY <1>2, <1>4, <1>5, <1>6, <1>7, <1>8 DEF IInv

\* The comparison lets the save go on or fail.
LEMMA SaveCheckKeepsIInv == IInv /\ SaveCheck => IInv'
<1> SUFFICES ASSUME IInv, SaveCheck PROVE IInv'
  OBVIOUS
<1>1. /\ Busy("app") /\ app.step = "check" /\ events' = events /\ events' \in Nat
  BY DEF SaveCheck, At, IInv, Types, app
<1>2. app.kind \in SaveKinds
  BY <1>1, CheckIsSave
<1>3. CASE ~Unchanged(app.base)
  BY <1>1, <1>2, <1>3, SaveFailsKeepsIInv DEF SaveCheck, app
<1>4. CASE Unchanged(app.base)
  <2>1. /\ UNCHANGED <<file, backup, run, cfg, rev, selfWrite, selfMod, watch, reloads, panel,
                       raced, refused, events>>
        /\ task' = [task EXCEPT !["app"].step = "rename", !["app"].stamp = TimeOfFile]
    BY <1>1, <1>4 DEF SaveCheck, disk, mind, marks, ghosts, app
  <2>2. /\ app' = [app EXCEPT !.step = "rename", !.stamp = TimeOfFile]
        /\ task'["cli"] = task["cli"]
        /\ DOMAIN task' = Procs /\ task' = [p \in Procs |-> task'[p]]
    BY <2>1 DEF IInv, Types, Procs, app
  <2>3. /\ app' \in SaveTasks /\ app'.kind = app.kind /\ app'.step = "rename"
        /\ app'.candidate = app.candidate /\ app'.before = app.before /\ app'.base = app.base
    BY <1>2, <2>2, SaveFacts DEF SaveTasks, TimeOfFile, Times
  <2>4. task' \in [Procs -> AllTasks]
    <3>1. \A p \in Procs : task'[p] \in AllTasks
      BY <2>2, <2>3 DEF IInv, Types, Procs, AllTasks, app
    <3> QED BY <2>2, <3>1
  <2>5. Types'
    BY <2>1, <2>4 DEF IInv, Types
  <2>6. Places'
    BY <1>2, <2>1, <2>2, <2>3 DEF IInv, Places, SaveKinds
  <2>7. LoadsAreCareful'
    <3>1. app'.kind \notin LoadKinds
      BY <1>2, <2>3 DEF LoadKinds, SaveKinds
    <3>2. LoadsAreCareful!("cli")'
      BY <2>1, <2>2 DEF IInv, LoadsAreCareful, Other, Procs
    <3> QED BY <3>1, <3>2 DEF LoadsAreCareful, Procs, app
  <2>8. SavesAreCareful'
    BY <1>4, <2>1, <2>3 DEF SavesAreCareful, Unchanged
  <2>9. (PanelFollows /\ BaseIsRead /\ InForce)'
    BY <1>2, <2>1, <2>3 DEF IInv, PanelFollows, BaseIsRead, InForce, SaveKinds, LoadKinds
  <2> QED BY <2>5, <2>6, <2>7, <2>8, <2>9 DEF IInv
<1> QED BY <1>3, <1>4

\* A file operation of a save fails.
LEMMA SaveFaultKeepsIInv == IInv /\ SaveFault => IInv'
<1> SUFFICES ASSUME IInv, SaveFault PROVE IInv'
  OBVIOUS
<1>1. events' \in Nat
  BY DEF SaveFault, Event, IInv, Types
<1>2. app.kind \in SaveKinds
  BY CheckIsSave DEF SaveFault, app
<1> QED BY <1>1, <1>2, SaveFailsKeepsIInv DEF SaveFault

\* The save is done: its candidate is in force and the revision is its text.
LEMMA SaveRememberKeepsIInv == IInv /\ SaveRemember => IInv'
<1> SUFFICES ASSUME IInv, SaveRemember PROVE IInv'
  OBVIOUS
<1>1. /\ UNCHANGED <<file, backup, run, reloads, raced, events>>
      /\ RememberTime /\ Done("app") /\ selfWrite' = FALSE /\ refused' = FALSE
      /\ cfg' = app.candidate /\ rev' = Rendered(app.candidate)
      /\ panel' = IF app.kind = "change" THEN panel ELSE [rev |-> rev', rules |-> cfg'.rules]
  BY DEF SaveRemember, disk, app
<1>2. app.kind \in SaveKinds
  BY CheckIsSave DEF SaveRemember, At, app
<1>3. /\ app.candidate \in Config /\ app.candidate.plain \in Plains /\ run = "up"
      /\ rev' \in Revisions /\ rev' # Unknown /\ InMemory(rev') = cfg'
  BY <1>1, <1>2, SaveFacts, RenderedFacts, ResolveFacts DEF Revisions
<1>4. /\ task' \in [Procs -> AllTasks] /\ app'.kind = "none" /\ task'["cli"] = task["cli"]
      /\ LoadsAreCareful'
  BY <1>1, DoneFacts DEF IInv, Procs, app
<1>5. panel' \in [rev : Revisions, rules : RuleValues]
  BY <1>1, <1>3 DEF IInv, Types, Config
<1>6. Types'
  BY <1>1, <1>3, <1>4, <1>5, RememberFacts DEF IInv, Types
<1>7. Places'
  BY <1>1, <1>3, <1>4 DEF IInv, Places, SaveKinds
<1>8. PanelFollows'
  BY <1>1, <1>2, <1>3, <1>4 DEF IInv, PanelFollows, SaveKinds
<1>9. (SavesAreCareful /\ BaseIsRead)'
  BY <1>4 DEF SavesAreCareful, BaseIsRead, SaveKinds, LoadKinds
<1>10. InForce'
  BY <1>1, <1>3, <1>4 DEF InForce
<1> QED BY <1>4, <1>6, <1>7, <1>8, <1>9, <1>10 DEF IInv
-----------------------------------------------------------------------------
(* The invariant *)

\* Every step of anybody keeps the invariant.
THEOREM NextIInv == IInv /\ [Next]_vars => IInv'
<1> SUFFICES ASSUME IInv, [Next]_vars PROVE IInv'
  OBVIOUS
<1>1. CASE \E p \in Procs : Load(p)
  BY <1>1, LoadReadKeepsIInv, LoadBackupKeepsIInv, LoadWriteKeepsIInv, LoadRereadKeepsIInv,
     LoadAcceptKeepsIInv DEF Load
<1>2. CASE \E p \in Procs : LoadFault(p)
  BY <1>2, LoadFaultKeepsIInv
<1>3. CASE Save
  BY <1>3, SaveCheckKeepsIInv, SaveRenameKeepsIInv, SaveRememberKeepsIInv DEF Save
<1>4. CASE SaveFault
  BY <1>4, SaveFaultKeepsIInv
<1>5. CASE Watch
  BY <1>5, WatchKeepsIInv
<1>6. CASE Reload
  BY <1>6, ReloadKeepsIInv
<1>7. CASE ReloadRemember
  BY <1>7, ReloadRememberKeepsIInv
<1>8. CASE ChangeSetting
  BY <1>8, ChangeSettingKeepsIInv
<1>9. CASE FinishOneTimeRule
  BY <1>9, FinishOneTimeRuleKeepsIInv
<1>10. CASE SaveRules
  BY <1>10, SaveRulesKeepsIInv
<1>11. CASE ShowRules
  BY <1>11, ShowRulesKeepsIInv
<1>12. CASE Start
  BY <1>12, StartKeepsIInv
<1>13. CASE BeginWatching
  BY <1>13, BeginWatchingKeepsIInv
<1>14. CASE Crash
  BY <1>14, CrashKeepsIInv
<1>15. CASE RunCLI
  BY <1>15, RunCLIKeepsIInv
<1>16. CASE Edit
  BY <1>16, EditKeepsIInv
<1>17. CASE UNCHANGED vars
  BY <1>17 DEF vars, IInv, Types, Places, LoadsAreCareful, SavesAreCareful, PanelFollows,
               BaseIsRead, InForce, app, Other
<1> QED BY <1>1, <1>2, <1>3, <1>4, <1>5, <1>6, <1>7, <1>8, <1>9, <1>10, <1>11, <1>12, <1>13,
           <1>14, <1>15, <1>16, <1>17 DEF Next, Procs

\* The invariant holds in every reachable state.
THEOREM Invariance == Spec => []IInv
BY InitIInv, NextIInv, PTL DEF Spec

\* What the invariant says of a program that is settled.
LEMMA InvariantIsHonest == IInv => RevisionsAreHonest
<1> SUFFICES ASSUME IInv PROVE RevisionsAreHonest
  OBVIOUS
<1>1. TypeOK
  <2>1. \A t \in Texts : t.form \in Forms
    BY TextForms DEF Readable, Forms, Missing, Broken
  <2>2. /\ file.text.form \in Forms /\ file.by \in {"user", "app", "cli"}
        /\ backup.text.form \in Forms
        /\ run \in {"off", "boot", "up"} /\ reloads \in BOOLEAN
    BY <2>1 DEF IInv, Types
  <2>3. cfg.plain \in Plains \cup {"clash"} /\ cfg.rules \in Rules \cup {"faulty"}
    BY DEF IInv, Types, Config, RuleValues
  <2>4. rev.form \in Forms \cup {"none"}
    BY <2>1 DEF IInv, Types, Revisions, Unknown
  <2>5. ASSUME NEW p \in Procs, Busy(p)
        PROVE  task[p].step \in {"read", "backup", "write", "reread", "accept",
                                 "check", "rename", "remember"}
    BY <2>5, TaskFacts DEF IInv, Types, Busy, LoadTasks, SaveTasks
  <2>6. /\ task["cli"].kind \in {"none", "cli"}
        /\ selfWrite => Busy("app")
        /\ run = "off" => ~Busy("app")
    BY DEF IInv, Places, Busy, app, SaveKinds
  <2>7. {selfMod, watch.last, watch.saw, task["app"].stamp, task["cli"].stamp}
           \subseteq {"none", "now", "past"}
    BY TaskFacts DEF IInv, Types, Times, Procs
  <2> QED BY <2>2, <2>3, <2>4, <2>5, <2>6, <2>7 DEF TypeOK, Procs
<1>2. RevisionNamesRules
  BY DEF IInv, PanelFollows, RevisionNamesRules, Settled, Busy, app
<1>3. RevisionNamesSettings
  BY TextForms DEF IInv, Types, InForce, RevisionNamesSettings, Settled, Busy, app
<1> QED BY <1>1, <1>2, <1>3 DEF RevisionsAreHonest

\* A revision stands for the rules and the settings it was taken of: the manager
\* that shows the program's revision shows its rules, and settings whose revision
\* is the file's are the file's.
THEOREM HonestRevisions == Spec => []RevisionsAreHonest
BY InvariantIsHonest, Invariance, PTL

\* Nobody but a load's or a save's write replaces the file in its own name.
LEMMA WhoWrites ==
  ASSUME IInv, [Next]_vars, NEW p \in Procs, file' # file, file'.by = p
  PROVE  LoadWrite(p) \/ (p = "app" /\ SaveRename)
<1>1. ASSUME NEW q \in Procs, Load(q), ~LoadWrite(q) PROVE FALSE
  BY <1>1 DEF Load, LoadRead, LoadBackup, LoadReread, LoadAccept, disk
<1>2. ASSUME NEW q \in Procs, LoadWrite(q) PROVE q = p
  <2>1. At(q, "write")
    BY <1>2 DEF LoadWrite
  <2> QED BY <1>2, <2>1, WriteFacts, PutFacts DEF LoadWrite, IInv, Procs
<1>3. ASSUME Save, ~SaveRename PROVE FALSE
  BY <1>3 DEF Save, SaveCheck, SaveRemember, SaveFails, disk
<1>4. ASSUME SaveRename PROVE p = "app"
  BY <1>4 DEF SaveRename, Put
<1>5. ~Edit
  <2>1. ASSUME Edit PROVE file'.by = "user"
    BY <2>1 DEF Edit, Put
  <2> QED BY <2>1 DEF Procs
<1>6. ASSUME NEW q \in Procs, LoadFault(q) PROVE FALSE
  BY <1>6 DEF LoadFault, disk
<1>7. ~SaveFault
  BY DEF SaveFault, SaveFails, disk
<1>8. ~Watch /\ ~Reload /\ ~ReloadRemember
  BY DEF Watch, WatchTick, WatchFlag, WatchOwn, Reload, ReloadRemember, disk
<1>9. ~ChangeSetting /\ ~FinishOneTimeRule /\ ~SaveRules /\ ~ShowRules
  BY DEF ChangeSetting, FinishOneTimeRule, SaveRules, ShowRules, disk
<1>10. ~Start /\ ~BeginWatching /\ ~Crash /\ ~RunCLI
  BY DEF Start, BeginWatching, Crash, RunCLI, disk
<1>11. Next
  BY DEF vars
<1> QED BY <1>1, <1>2, <1>3, <1>4, <1>5, <1>6, <1>7, <1>8, <1>9, <1>10, <1>11 DEF Next, Procs

\* What the user has written is replaced only by a save on its revision or by a
\* load that leaves faulty rules alone and has backed up what it corrects, but for
\* the three exceptions that UserEditsKept names.
THEOREM EditsAreKept == Spec => UserEditsKept
<1> DEFINE Kept ==
       \A p \in {"app", "cli"} :
          file.by = "user" /\ file.text # Missing /\ file' # file /\ file'.by = p =>
             \/ task[p].stamp # "now"
             \/ task[p].base = Unknown /\ task[p].kind \notin LoadKinds
             \/ /\ task[p].base = file.text
                /\ task[p].kind \in LoadKinds =>
                      /\ ~Issues(file.text.rules)
                      /\ Corrected(file.text) => backup.text = file.text \/ Other(p)
<1>1. IInv /\ [Next]_vars => Kept
  <2> SUFFICES ASSUME IInv, [Next]_vars, NEW p \in Procs, file.by = "user", file.text # Missing,
                      file' # file, file'.by = p, task[p].stamp = "now"
               PROVE  \/ task[p].base = Unknown /\ task[p].kind \notin LoadKinds
                      \/ /\ task[p].base = file.text
                         /\ task[p].kind \in LoadKinds =>
                               /\ ~Issues(file.text.rules)
                               /\ Corrected(file.text) => backup.text = file.text \/ Other(p)
    BY DEF Procs
  <2>1. CASE LoadWrite(p)
    <3>1. task[p].step = "write" /\ task[p].kind \in LoadKinds
      BY <2>1, WriteFacts DEF LoadWrite, At
    <3> QED BY <3>1 DEF IInv, LoadsAreCareful
  <2>2. CASE p = "app" /\ SaveRename
    <3>1. app.kind \in SaveKinds /\ app.step = "rename"
      BY <2>2, CheckIsSave DEF SaveRename, At, app
    <3> QED BY <2>2, <3>1, SaveFacts DEF IInv, SavesAreCareful, app
  <2> QED BY <2>1, <2>2, WhoWrites
<1>2. IInv /\ [Next]_vars => [Kept]_vars
  BY <1>1
<1> QED BY <1>2, Invariance, PTL DEF Spec, UserEditsKept
=============================================================================
