--------------------------- MODULE Windows_proofs ---------------------------
(***************************************************************************)
(* Safety of the three windows a user edits in: the process picker, the    *)
(* control panel and the form of one automatic task, each for every value  *)
(* of its constants.  A part for each, with an invariant that is inductive *)
(* and the properties that follow from it.                                 *)
(***************************************************************************)
EXTENDS RuleForm, ProcessPicker, ControlPanel, TLAPS, FiniteSetTheorems, WellFoundedInduction

(***************************************************************************)
(* The process picker                                                      *)
(***************************************************************************)

Kinds == {"none", "loading", "describing", "error", "refused"}
StatusTexts ==
    [kind : Kinds]
    \cup [kind : {"results"}, rows : {Cardinality(S) : S \in SUBSET Names},
          picked : {Cardinality(S) : S \in SUBSET Keys}]

PickerItems == [live : SUBSET Names, gone : SUBSET Names, named : SUBSET Names]

Pickers ==
    [phase : {"initial", "loading", "enriching", "ready", "error"},
     mode : {"initial", "automatic", "manual"}, inFlight : BOOLEAN,
     age : {"never", "fresh", "old"}, gen : Nat, first : Nat, source : Nat, asked : Nat,
     items : PickerItems, marks : UNION {[S -> BOOLEAN] : S \in SUBSET Names},
     typed : Texts, selected : SUBSET Keys, tried : SUBSET Keys,
     status : StatusTexts, pending : StatusTexts, hold : {"none", "running", "due"},
     refreshOn : BOOLEAN, confirmOn : BOOLEAN, dialog : BOOLEAN]

LoadWorkers == [gen : Nat, step : {"scanning", "describing"}, skip : SUBSET Keys,
                wanted : SUBSET Keys, seen : SUBSET Names]

LoadPosts ==
    [kind : {"failed"}, gen : Nat]
    \cup [kind : {"list"}, gen : Nat, seen : SUBSET Names, final : BOOLEAN]
    \cup [kind : {"described"}, gen : Nat, seen : SUBSET Names, wanted : SUBSET Keys]
    \cup [kind : {"browsed"}, gen : Nat, key : Paths]

PickerStateTypes ==
    /\ Open => p \in Pickers /\ p.phase # "initial" /\ IsFiniteSet(p.selected)
    /\ ownerOn \in BOOLEAN
    /\ given \in SUBSET Keys /\ Normal(given) = given /\ IsFiniteSet(given)
    /\ workers \in SUBSET LoadWorkers /\ posts \in Seq(LoadPosts)
    /\ loads \in 0 .. MaxLoads /\ shows \in 0 .. MaxShows

\* Generations are given out in order: nobody works for one still to come.
GenerationsAreTaken ==
    /\ \A w \in workers : w.gen <= loads
    /\ \A i \in DOMAIN posts : posts[i].kind # "browsed" => posts[i].gen <= loads
    /\ Open => /\ p.gen >= 1 /\ p.gen <= loads /\ p.asked <= p.gen /\ p.source <= p.gen

\* The goroutine of the picker's load, and what is posted of it
Mine == {w \in workers : w.gen = p.gen}
Mail == {i \in DOMAIN posts : posts[i].kind # "browsed" /\ posts[i].gen = p.gen}

(***************************************************************************)
(* How far the load in flight has come.  Its list is posted before its     *)
(* descriptions, the last answer ends it, and there is one of each.        *)
(***************************************************************************)
Scanning == \E w \in workers : Mine = {w} /\ w.step = "scanning" /\ Mail = {}
LastAnswer(i) ==
    Mine = {} /\ Mail = {i} /\ (posts[i].kind = "failed" \/ (posts[i].kind = "list" /\ posts[i].final))
FirstAnswer(i) ==
    /\ Mail = {i} /\ posts[i].kind = "list" /\ ~posts[i].final
    /\ \E w \in workers : Mine = {w} /\ w.step = "describing"
BothAnswers(i, j) ==
    /\ Mine = {} /\ Mail = {i, j} /\ i < j
    /\ posts[i].kind = "list" /\ ~posts[i].final /\ posts[j].kind = "described"
Describing == Mail = {} /\ \E w \in workers : Mine = {w} /\ w.step = "describing"
SecondAnswer(i) == Mine = {} /\ Mail = {i} /\ posts[i].kind = "described"

AnswersComeInOrder ==
    Open =>
      IF ~p.inFlight THEN Mine = {} /\ Mail = {}
      ELSE IF p.source = p.gen THEN Describing \/ \E i \in DOMAIN posts : SecondAnswer(i)
      ELSE \/ Scanning
           \/ \E i \in DOMAIN posts : LastAnswer(i) \/ FirstAnswer(i)
           \/ \E i, j \in DOMAIN posts : BothAnswers(i, j)

\* What the controls and the view say of the load.
ViewFollowsLoad ==
    Open => /\ p.mode = "automatic" => p.refreshOn /\ p.phase \in {"ready", "error"}
            /\ ~p.inFlight => p.refreshOn /\ p.phase \in {"ready", "error"}
            /\ p.phase \in {"enriching", "ready"} => p.source >= p.asked

\* A status is held only for a manual refresh, whose list makes the view fresh.
HoldIsManual ==
    Open /\ p.hold # "none" =>
        /\ p.mode = "manual"
        /\ IF p.source = p.gen THEN p.age = "fresh" ELSE p.inFlight

TellsTruth(q, text) ==
    CASE text.kind = "loading" -> q.phase = "loading"
      [] text.kind = "describing" -> q.phase = "enriching"
      [] text.kind = "results" -> q.phase = "ready" /\ text = Results(q)
      [] OTHER -> TRUE

\* What the status line says or will say when the hold is over.
StatusIsReady(q) ==
    /\ q.hold = "none" => q.pending = NoText
    /\ q.phase = "loading" => q.pending = NoText /\ q.status.kind \in {"loading", "refused"}
    /\ q.phase = "error" => q.pending = NoText /\ q.status.kind \in {"error", "refused"}
    /\ q.phase = "enriching" =>
         IF q.hold = "none" THEN q.status.kind \in {"describing", "refused"}
                            ELSE q.pending = Text("describing")
    /\ q.phase = "ready" /\ Cardinality(q.selected) <= Limit =>
         IF q.hold = "none" THEN TellsTruth(q, q.status)
                            ELSE q.pending # NoText /\ TellsTruth(q, q.pending)

MarkedAsSelected(q) ==
    /\ \A v \in DOMAIN q.marks : q.marks[v] = (v \in q.selected)
    /\ q.selected = Normal(q.selected)

SoundSelection(q) ==
    /\ MarkedAsSelected(q)
    /\ q.confirmOn = (Cardinality(q.selected) \in 1 .. Limit)

PickerInv ==
    /\ PickerStateTypes
    /\ GenerationsAreTaken
    /\ AnswersComeInOrder
    /\ ViewFollowsLoad
    /\ HoldIsManual
    /\ Open => StatusIsReady(p) /\ SoundSelection(p)
    /\ OwnerComesBack
-----------------------------------------------------------------------------
(* What the picker's operators change, and what they leave alone *)

\* r is q, but for the status line
StatusAside(q, r) ==
    /\ r.phase = q.phase /\ r.mode = q.mode /\ r.inFlight = q.inFlight /\ r.age = q.age
    /\ r.gen = q.gen /\ r.first = q.first /\ r.source = q.source /\ r.asked = q.asked
    /\ r.items = q.items /\ r.marks = q.marks /\ r.typed = q.typed /\ r.selected = q.selected
    /\ r.tried = q.tried /\ r.refreshOn = q.refreshOn /\ r.confirmOn = q.confirmOn
    /\ r.dialog = q.dialog

\* r is q, but for the selection, its marks and its button
SelectionAside(q, r) ==
    /\ r.phase = q.phase /\ r.mode = q.mode /\ r.inFlight = q.inFlight /\ r.age = q.age
    /\ r.gen = q.gen /\ r.first = q.first /\ r.source = q.source /\ r.asked = q.asked
    /\ r.items = q.items /\ r.typed = q.typed /\ r.tried = q.tried
    /\ r.refreshOn = q.refreshOn /\ r.dialog = q.dialog
    /\ r.status = q.status /\ r.pending = q.pending /\ r.hold = q.hold

\* A picker that is open is not the value that stands for none.
LEMMA PickersAreOpen == ASSUME NEW q \in Pickers PROVE q # NoPicker
BY DEF Pickers, NoPicker

\* A name covers its paths once and for all (NormalizeTargets).
LEMMA NormalFacts ==
  ASSUME NEW keys
  PROVE  Normal(keys) \subseteq keys /\ Normal(Normal(keys)) = Normal(keys)
BY DEF Normal

\* The status is held or shown; nothing else changes (setStatus).
LEMMA SetStatusFacts ==
  ASSUME NEW q \in Pickers, NEW text \in StatusTexts
  PROVE  LET r == SetStatus(q, text)
         IN  /\ r \in Pickers /\ StatusAside(q, r)
             /\ IF q.hold = "running"
                THEN r.hold = "running" /\ r.pending = text /\ r.status = q.status
                ELSE r.hold = "none" /\ r.pending = NoText /\ r.status = text
<1>1. NoText \in StatusTexts
  BY DEF NoText, Text, StatusTexts, Kinds
<1>2. CASE q.hold = "running"
  BY <1>2 DEF SetStatus, Pickers, StatusAside
<1>3. CASE q.hold # "running"
  BY <1>1, <1>3 DEF SetStatus, NoHold, Pickers, StatusAside
<1> QED BY <1>2, <1>3

\* The texts the status line takes are texts.
LEMMA TextFacts ==
  /\ \A kind \in Kinds : Text(kind) \in StatusTexts /\ Text(kind).kind = kind
  /\ \A q \in Pickers : Results(q) \in StatusTexts /\ Results(q).kind = "results"
  /\ NoText \in StatusTexts /\ NoText.kind = "none" /\ "none" \in Kinds
<1>1. \A kind \in Kinds : Text(kind) \in StatusTexts /\ Text(kind).kind = kind
  BY DEF Text, StatusTexts
<1>2. ASSUME NEW q \in Pickers
      PROVE  Results(q) \in StatusTexts /\ Results(q).kind = "results"
  <2>1. DOMAIN q.marks \in SUBSET Names /\ q.selected \in SUBSET Keys
    BY DEF Pickers
  <2> QED BY <2>1 DEF Results, StatusTexts
<1>3. "none" \in Kinds
  BY DEF Kinds
<1> QED BY <1>1, <1>2, <1>3 DEF NoText

\* A refreshed status line tells the truth, at once or when the hold is over
\* (refreshViewStatus).
LEMMA RefreshStatusFacts ==
  ASSUME NEW q \in Pickers, IsFiniteSet(q.selected),
         q.hold = "none" => q.pending = NoText,
         q.phase \in {"loading", "error"} => StatusIsReady(q)
  PROVE  LET r == RefreshStatus(q)
         IN  /\ r \in Pickers /\ StatusAside(q, r) /\ StatusIsReady(r)
             /\ r.hold \in {"none", q.hold}
<1>0. Cardinality(q.selected) \in Nat /\ Limit \in Nat
  BY FS_CardinalityType, PickerAssumption
<1>1. CASE q.phase \in {"loading", "error"}
  BY <1>1 DEF RefreshStatus, StatusAside
<1>2. CASE q.phase = "enriching"
  <2> DEFINE r == SetStatus(q, Text("describing"))
  <2>1. "describing" \in Kinds /\ Text("describing") \in StatusTexts
        /\ Text("describing").kind = "describing"
    BY TextFacts DEF Kinds
  <2>2. /\ r \in Pickers /\ StatusAside(q, r)
        /\ IF q.hold = "running"
           THEN r.hold = "running" /\ r.pending = Text("describing") /\ r.status = q.status
           ELSE r.hold = "none" /\ r.pending = NoText /\ r.status = Text("describing")
    BY <2>1, SetStatusFacts
  <2>3. RefreshStatus(q) = r
    BY <1>2 DEF RefreshStatus
  <2> HIDE DEF r
  <2>4. StatusIsReady(r)
    BY <1>2, <2>1, <2>2 DEF StatusIsReady, StatusAside
  <2> QED BY <2>2, <2>3, <2>4
<1>3. CASE q.phase \notin {"loading", "error", "enriching"} /\ Cardinality(q.selected) > Limit
  <2> DEFINE r == [q EXCEPT !.status = Text("refused")]
  <2>1. RefreshStatus(q) = r
    BY <1>3 DEF RefreshStatus
  <2>2. Text("refused") \in StatusTexts
    BY TextFacts DEF Kinds
  <2>3. r \in Pickers /\ StatusAside(q, r) /\ r.hold = q.hold /\ r.pending = q.pending
    BY <2>2 DEF Pickers, StatusAside
  <2> HIDE DEF r
  <2>4. StatusIsReady(r)
    BY <1>0, <1>3, <2>3 DEF StatusIsReady, StatusAside
  <2> QED BY <2>1, <2>3, <2>4
<1>4. CASE q.phase \notin {"loading", "error", "enriching"} /\ ~(Cardinality(q.selected) > Limit)
  <2> DEFINE r == SetStatus(q, Results(q))
  <2>1. Results(q) \in StatusTexts /\ Results(q).kind = "results"
    BY TextFacts
  <2>2. /\ r \in Pickers /\ StatusAside(q, r)
        /\ IF q.hold = "running"
           THEN r.hold = "running" /\ r.pending = Results(q) /\ r.status = q.status
           ELSE r.hold = "none" /\ r.pending = NoText /\ r.status = Results(q)
    BY <2>1, SetStatusFacts
  <2>3. RefreshStatus(q) = r
    BY <1>4 DEF RefreshStatus
  <2> HIDE DEF r
  <2>4. Results(r) = Results(q)
    BY <2>2 DEF Results, StatusAside
  <2>5. r.phase = "ready" => TellsTruth(r, Results(q))
    BY <2>1, <2>4 DEF TellsTruth
  <2>6. Results(q) # NoText
    BY <2>1, TextFacts
  <2>7. StatusIsReady(r)
    BY <1>4, <2>2, <2>5, <2>6 DEF StatusIsReady, StatusAside
  <2> QED BY <2>2, <2>3, <2>7
<1> QED BY <1>1, <1>2, <1>3, <1>4

\* However the selection is replaced, its marks and its button follow
\* (setSelection, syncCheckStates, updatePreview).
LEMMA TakeFacts ==
  ASSUME NEW q \in Pickers, NEW keys \in SUBSET Keys, IsFiniteSet(keys)
  PROVE  LET r == Take(q, keys)
         IN  /\ r \in Pickers /\ SelectionAside(q, r) /\ SoundSelection(r)
             /\ r.selected = Normal(keys) /\ IsFiniteSet(r.selected)
             /\ DOMAIN r.marks = DOMAIN q.marks
<1> DEFINE s == [q EXCEPT !.selected = Normal(keys)]
           n == [v \in DOMAIN s.marks |-> v \in s.selected]
           t == [s EXCEPT !.marks = n]
           on == Cardinality(t.selected) \in 1 .. Limit
           r == [t EXCEPT !.confirmOn = on]
<1>1. Normal(keys) \subseteq keys /\ Normal(Normal(keys)) = Normal(keys)
  BY NormalFacts
<1>2. Take(q, keys) = r
  BY DEF Take, Synced, Previewed
<1>3. /\ s \in Pickers /\ SelectionAside(q, s) /\ s.selected = Normal(keys)
      /\ s.marks = q.marks /\ DOMAIN s.marks \in SUBSET Names
  <2>1. /\ s \in Pickers /\ SelectionAside(q, s) /\ s.selected = Normal(keys)
        /\ s.marks = q.marks
    BY <1>1 DEF Pickers, SelectionAside
  <2> QED BY <2>1 DEF Pickers
<1> HIDE DEF s
<1>4. n \in [DOMAIN s.marks -> BOOLEAN] /\ DOMAIN n = DOMAIN s.marks
  OBVIOUS
<1>5. n \in UNION {[S -> BOOLEAN] : S \in SUBSET Names}
  BY <1>3, <1>4
<1>6. \A v \in DOMAIN n : n[v] = (v \in s.selected)
  OBVIOUS
<1> HIDE DEF n
<1>7. t \in Pickers /\ SelectionAside(s, t) /\ t.selected = s.selected /\ t.marks = n
  BY <1>3, <1>5 DEF Pickers, SelectionAside
<1> HIDE DEF t
<1>8. on \in BOOLEAN
  OBVIOUS
<1>9. on = (Cardinality(t.selected) \in 1 .. Limit)
  OBVIOUS
<1> HIDE DEF on
<1>10. /\ r \in Pickers /\ SelectionAside(t, r) /\ r.selected = t.selected /\ r.marks = t.marks
       /\ r.confirmOn = on
  BY <1>7, <1>8 DEF Pickers, SelectionAside
<1> HIDE DEF r
<1>11. SelectionAside(q, r)
  BY <1>3, <1>7, <1>10 DEF SelectionAside
<1>12. r.selected = Normal(keys) /\ IsFiniteSet(r.selected)
  BY <1>1, <1>3, <1>7, <1>10, FS_Subset
<1>13. SoundSelection(r)
  BY <1>1, <1>3, <1>4, <1>6, <1>7, <1>9, <1>10 DEF SoundSelection, MarkedAsSelected
<1> QED BY <1>2, <1>3, <1>4, <1>7, <1>10, <1>11, <1>12, <1>13

\* Reading the marks of the rows changes a sound selection by nothing but what
\* has been marked since; a row that is not there is no row (captureSelection).
LEMMA CapturedFacts ==
  ASSUME NEW q \in Pickers, IsFiniteSet(q.selected),
         \E v : \A u \in DOMAIN q.marks : u # v => q.marks[u] = (u \in q.selected)
  PROVE  LET r == Captured(q)
         IN  /\ r \in Pickers /\ SelectionAside(q, r) /\ SoundSelection(r)
             /\ IsFiniteSet(r.selected) /\ DOMAIN r.marks = DOMAIN q.marks
             /\ MarkedAsSelected(q) => r.selected = q.selected
<1> DEFINE keys == (q.selected \ DOMAIN q.marks) \cup Marked(q)
<1>1. DOMAIN q.marks \subseteq Names /\ q.selected \subseteq Keys /\ Names \subseteq Keys
  BY DEF Pickers, Keys
<1>2. keys \in SUBSET Keys
  BY <1>1 DEF Marked
<1>3. IsFiniteSet(keys)
  <2>1. PICK v : \A u \in DOMAIN q.marks : u # v => q.marks[u] = (u \in q.selected)
    OBVIOUS
  <2>2. keys \subseteq q.selected \cup {v}
    BY <2>1 DEF Marked
  <2>3. IsFiniteSet(q.selected \cup {v})
    BY FS_AddElement
  <2> QED BY <2>2, <2>3, FS_Subset
<1>4. MarkedAsSelected(q) => keys = q.selected /\ Normal(q.selected) = q.selected
  BY <1>1 DEF MarkedAsSelected, Marked
<1>5. Captured(q) = Take(q, keys)
  BY DEF Captured
<1> HIDE DEF keys
<1> QED BY <1>2, <1>3, <1>4, <1>5, TakeFacts

\* Rows are marked as they are selected, and the selection stays (applyFilter).
LEMMA FilteredFacts ==
  ASSUME NEW q \in Pickers, IsFiniteSet(q.selected), SoundSelection(q),
         q.hold = "none" => q.pending = NoText,
         q.phase \in {"loading", "error"} => StatusIsReady(q)
  PROVE  LET r == Filtered(q)
         IN  /\ r \in Pickers /\ SoundSelection(r) /\ StatusIsReady(r)
             /\ r.phase = q.phase /\ r.mode = q.mode /\ r.inFlight = q.inFlight /\ r.age = q.age
             /\ r.gen = q.gen /\ r.first = q.first /\ r.source = q.source /\ r.asked = q.asked
             /\ r.selected = q.selected /\ r.refreshOn = q.refreshOn
             /\ r.hold \in {"none", q.hold}
<1> DEFINE n == Rows(q)
           s == [q EXCEPT !.marks = n]
           r == RefreshStatus(s)
<1>1. Matching(q) \in SUBSET Names
  BY DEF Matching, Pickers, PickerItems
<1>2. n \in [Matching(q) -> BOOLEAN] /\ DOMAIN n = Matching(q)
      /\ \A v \in DOMAIN n : n[v] = (v \in q.selected)
  BY DEF Rows
<1>3. n \in UNION {[S -> BOOLEAN] : S \in SUBSET Names}
  BY <1>1, <1>2
<1> HIDE DEF n
<1>4. /\ s \in Pickers /\ s.marks = n /\ s.selected = q.selected /\ s.confirmOn = q.confirmOn
      /\ s.phase = q.phase /\ s.mode = q.mode /\ s.inFlight = q.inFlight /\ s.age = q.age
      /\ s.gen = q.gen /\ s.first = q.first /\ s.source = q.source /\ s.asked = q.asked
      /\ s.refreshOn = q.refreshOn /\ s.status = q.status /\ s.pending = q.pending
      /\ s.hold = q.hold
  BY <1>3 DEF Pickers
<1>5. Filtered(q) = r
  BY DEF Filtered, n
<1> HIDE DEF s
<1>6. s.phase \in {"loading", "error"} => StatusIsReady(s)
  BY <1>4 DEF StatusIsReady
<1>7. /\ r \in Pickers /\ StatusAside(s, r) /\ StatusIsReady(r)
      /\ r.hold \in {"none", s.hold}
  BY <1>4, <1>6, RefreshStatusFacts
<1> HIDE DEF r
<1>8. SoundSelection(r)
  BY <1>2, <1>4, <1>7 DEF SoundSelection, MarkedAsSelected, StatusAside
<1> QED BY <1>4, <1>5, <1>7, <1>8 DEF StatusAside

\* A load the user asked for: the view says so, and waits for its own answer.
LoadAsked(q, r, mode) ==
    /\ r.phase = "loading" /\ r.mode = mode /\ r.inFlight = TRUE
    /\ r.gen = loads + 1 /\ r.asked = loads + 1 /\ r.source = q.source
    /\ r.first = q.first /\ r.selected = q.selected
    /\ r.hold # "none" => mode = "manual"

\* A load the user asked for begins with an empty hold and the rows as the user
\* left them (startLoad).
LEMMA StartedFacts ==
  ASSUME NEW q \in Pickers, IsFiniteSet(q.selected), MarkedAsSelected(q), loads \in Nat,
         NEW mode \in {"initial", "manual"}, NEW held \in BOOLEAN
  PROVE  LET r == Started(q, mode, held)
         IN  r \in Pickers /\ SoundSelection(r) /\ StatusIsReady(r) /\ LoadAsked(q, r, mode)
<1> DEFINE c == Captured(q)
           hold == IF mode = "manual" /\ held THEN "running" ELSE "none"
           g == loads + 1
           n == NoHold(c)
           b == [n EXCEPT !.mode = mode, !.inFlight = TRUE, !.gen = g, !.hold = hold]
           r == [b EXCEPT !.phase = "loading", !.status = Text("loading"),
                          !.refreshOn = FALSE, !.asked = g]
<1>1. /\ c \in Pickers /\ SelectionAside(q, c) /\ SoundSelection(c) /\ c.selected = q.selected
  BY CapturedFacts DEF SoundSelection, MarkedAsSelected
<1>2. Started(q, mode, held) = r
  BY DEF Started, r, b, n, c, hold, g
<1>3. hold \in {"none", "running"} /\ (hold # "none" => mode = "manual")
  OBVIOUS
<1>4. /\ NoText \in StatusTexts /\ Text("loading") \in StatusTexts
      /\ Text("loading").kind = "loading"
  BY TextFacts DEF Kinds
<1>5. q.source = c.source /\ q.first = c.first
  BY <1>1 DEF SelectionAside
<1>g. g \in Nat /\ g = loads + 1
  OBVIOUS
<1> HIDE DEF c, hold, g
<1>n. /\ n \in Pickers /\ n.pending = NoText /\ n.source = c.source
      /\ n.selected = c.selected /\ n.marks = c.marks
      /\ n.confirmOn = c.confirmOn /\ n.first = c.first
  BY <1>1, <1>4 DEF NoHold, Pickers
<1> HIDE DEF n
<1>6. /\ b \in Pickers /\ b.mode = mode /\ b.inFlight = TRUE /\ b.gen = g /\ b.hold = hold
      /\ b.pending = n.pending /\ b.source = n.source /\ b.selected = n.selected
      /\ b.marks = n.marks /\ b.confirmOn = n.confirmOn /\ b.first = n.first
  BY <1>3, <1>n, <1>g, ZenonT(40) DEF Pickers
<1> HIDE DEF b
<1>7. /\ r \in Pickers /\ r.phase = "loading" /\ r.status = Text("loading") /\ r.asked = g
      /\ r.mode = b.mode /\ r.inFlight = b.inFlight /\ r.gen = b.gen /\ r.hold = b.hold
      /\ r.pending = b.pending /\ r.source = b.source /\ r.selected = b.selected
      /\ r.marks = b.marks /\ r.confirmOn = b.confirmOn /\ r.first = b.first
  BY <1>4, <1>6, <1>g DEF Pickers
<1> HIDE DEF r
<1>8. SoundSelection(r)
  BY <1>1, <1>n, <1>6, <1>7 DEF SoundSelection, MarkedAsSelected
<1>9. StatusIsReady(r)
  BY <1>4, <1>n, <1>6, <1>7 DEF StatusIsReady
<1>10. LoadAsked(q, r, mode)
  BY <1>1, <1>3, <1>5, <1>n, <1>6, <1>7, <1>g DEF LoadAsked
<1> QED BY <1>2, <1>7, <1>8, <1>9, <1>10

\* A load that starts by itself leaves the view as it is.
LEMMA StartedQuietly ==
  ASSUME NEW q \in Pickers, SoundSelection(q), StatusIsReady(q), q.hold = "none", loads \in Nat
  PROVE  LET r == Started(q, "automatic", FALSE)
         IN  /\ r \in Pickers /\ SoundSelection(r) /\ StatusIsReady(r)
             /\ r.phase = q.phase /\ r.mode = "automatic" /\ r.inFlight = TRUE
             /\ r.gen = loads + 1 /\ r.asked = q.asked /\ r.source = q.source
             /\ r.refreshOn = q.refreshOn /\ r.selected = q.selected /\ r.hold = "none"
<1> DEFINE g == loads + 1
           n == NoHold(q)
           r == [n EXCEPT !.mode = "automatic", !.inFlight = TRUE, !.gen = g, !.hold = "none"]
<1>1. Started(q, "automatic", FALSE) = r
  BY DEF Started
<1>2. NoText \in StatusTexts /\ q.pending = NoText
  BY TextFacts DEF StatusIsReady
<1>g. g \in Nat /\ g = loads + 1
  OBVIOUS
<1> HIDE DEF g
<1>n. /\ n \in Pickers /\ n.pending = NoText /\ n.source = q.source /\ n.selected = q.selected
      /\ n.marks = q.marks /\ n.confirmOn = q.confirmOn /\ n.status = q.status
      /\ n.phase = q.phase /\ n.asked = q.asked /\ n.refreshOn = q.refreshOn
  BY <1>2 DEF NoHold, Pickers
<1> HIDE DEF n
<1>3. /\ r \in Pickers /\ r.mode = "automatic" /\ r.inFlight = TRUE /\ r.gen = g
      /\ r.hold = "none" /\ r.pending = NoText /\ r.source = q.source /\ r.selected = q.selected
      /\ r.marks = q.marks /\ r.confirmOn = q.confirmOn /\ r.status = q.status
      /\ r.phase = q.phase /\ r.asked = q.asked /\ r.refreshOn = q.refreshOn
  BY <1>2, <1>n, <1>g DEF Pickers
<1> HIDE DEF r
<1>4. SoundSelection(r)
  BY <1>3 DEF SoundSelection, MarkedAsSelected
<1>5. Results(r) = Results(q)
  BY <1>3 DEF Results
<1>6. StatusIsReady(r)
  BY <1>2, <1>3, <1>5 DEF StatusIsReady, TellsTruth
<1> QED BY <1>1, <1>3, <1>4, <1>6, <1>g

\* What every answer may rely on
Answerable(q) ==
    /\ IsFiniteSet(q.selected) /\ SoundSelection(q) /\ StatusIsReady(q)
    /\ q.phase # "initial"
    /\ q.hold # "none" => q.mode = "manual"
    /\ q.mode = "automatic" => q.refreshOn /\ q.phase \in {"ready", "error"}

\* What every answer leaves alone
AnswerAside(q, r) ==
    /\ r.mode = q.mode /\ r.gen = q.gen /\ r.first = q.first /\ r.asked = q.asked
    /\ r.selected = q.selected /\ r.hold \in {"none", q.hold}

\* A list that is final ends the load; another one, for which the user has
\* asked, says that its descriptions are on their way.
LoadShown(q, r, final) ==
    /\ final => r.inFlight = FALSE /\ r.phase = "ready"
    /\ ~final => r.inFlight = q.inFlight
    /\ ~final => r.phase = (IF q.mode = "automatic" THEN "ready" ELSE "enriching")
    /\ r.refreshOn = TRUE /\ r.source = q.source /\ r.age = q.age

\* A list, with or without its descriptions, is shown as it came (finishLoad).
LEMMA LoadedFacts ==
  ASSUME NEW q \in Pickers, Answerable(q), NEW seen \in SUBSET Names,
         NEW final \in BOOLEAN, NEW same \in BOOLEAN
  PROVE  LET r == Loaded(q, seen, final, same)
         IN  /\ r \in Pickers /\ SoundSelection(r) /\ StatusIsReady(r) /\ AnswerAside(q, r)
             /\ LoadShown(q, r, final)
<1> DEFINE flight == IF final THEN FALSE ELSE q.inFlight
           items == Items(q, seen)
           next == [q EXCEPT !.items = items, !.inFlight = flight]
           ph == IF ~final /\ q.mode # "automatic" THEN "enriching" ELSE "ready"
           on == Cardinality(next.selected) \in 1 .. Limit
           view == [next EXCEPT !.phase = ph, !.refreshOn = TRUE, !.confirmOn = on]
           f == Filtered(view)
           fon == Cardinality(f.selected) \in 1 .. Limit
           r == [f EXCEPT !.confirmOn = fon]
           still == [next EXCEPT !.phase = ph]
<1>1. Loaded(q, seen, final, same)
        = IF q.mode = "automatic" /\ Unchanged(q, next.items, same) THEN still ELSE r
  BY DEF Loaded, Previewed, View
<1>2. flight \in BOOLEAN /\ ph \in {"enriching", "ready"}
  BY DEF Pickers
<1>3. items \in PickerItems
  <2>1. /\ (q.selected \cap Names) \ seen \in SUBSET Names
        /\ seen \cap q.tried \cap Described \in SUBSET Names
    OBVIOUS
  <2> QED BY <2>1 DEF Items, PickerItems
<1>4. q.hold = "none" => q.pending = NoText
  BY DEF Answerable, StatusIsReady
<1>5. ph = "enriching" => q.mode # "automatic"
  OBVIOUS
<1> HIDE DEF flight, items, ph
<1>6. /\ next \in Pickers /\ next.inFlight = flight
      /\ next.mode = q.mode /\ next.gen = q.gen /\ next.first = q.first /\ next.asked = q.asked
      /\ next.selected = q.selected /\ next.hold = q.hold /\ next.pending = q.pending
      /\ next.status = q.status /\ next.marks = q.marks /\ next.confirmOn = q.confirmOn
      /\ next.phase = q.phase /\ next.source = q.source /\ next.refreshOn = q.refreshOn
      /\ next.age = q.age
  BY <1>2, <1>3 DEF Pickers
<1>7. on \in BOOLEAN /\ on = (Cardinality(q.selected) \in 1 .. Limit)
  BY <1>6
<1> HIDE DEF next, on
<1>8. CASE q.mode = "automatic" /\ Unchanged(q, next.items, same)
  <2>1. /\ still \in Pickers /\ still.phase = ph /\ still.inFlight = flight
        /\ still.mode = q.mode /\ still.gen = q.gen /\ still.first = q.first
        /\ still.asked = q.asked /\ still.selected = q.selected /\ still.hold = q.hold
        /\ still.pending = q.pending /\ still.status = q.status /\ still.marks = q.marks
        /\ still.confirmOn = q.confirmOn /\ still.source = q.source
        /\ still.refreshOn = q.refreshOn /\ still.age = q.age
    BY <1>2, <1>6 DEF Pickers
  <2> HIDE DEF still
  <2>2. /\ q.hold = "none" /\ q.refreshOn = TRUE /\ q.phase \in {"ready", "error"}
        /\ ph = "ready"
    <3>1. q.refreshOn \in BOOLEAN /\ q.refreshOn
      BY <1>8 DEF Pickers, Answerable
    <3>2. q.hold = "none" /\ q.phase \in {"ready", "error"}
      BY <1>8 DEF Answerable
    <3>3. ph = "ready"
      BY <1>2, <1>5, <1>8
    <3> QED BY <3>1, <3>2, <3>3
  <2>3. SoundSelection(still)
    BY <2>1 DEF SoundSelection, MarkedAsSelected, Answerable
  <2>4. Results(still) = Results(q)
    BY <2>1 DEF Results
  <2>5. StatusIsReady(still)
    BY <2>1, <2>2, <2>4 DEF StatusIsReady, Answerable, TellsTruth
  <2>6. LoadShown(q, still, final)
    <3>1. final => flight = FALSE
      BY DEF flight
    <3>2. ~final => flight = q.inFlight
      BY DEF flight
    <3> QED BY <1>8, <2>1, <2>2, <3>1, <3>2 DEF LoadShown
  <2> QED BY <1>1, <1>8, <2>1, <2>2, <2>3, <2>5, <2>6 DEF AnswerAside
<1>9. CASE ~(q.mode = "automatic" /\ Unchanged(q, next.items, same))
  <2>1. /\ view \in Pickers /\ view.phase = ph /\ view.refreshOn = TRUE /\ view.confirmOn = on
        /\ view.inFlight = flight /\ view.mode = q.mode /\ view.gen = q.gen
        /\ view.first = q.first /\ view.asked = q.asked /\ view.selected = q.selected
        /\ view.hold = q.hold /\ view.pending = q.pending /\ view.marks = q.marks
        /\ view.source = q.source /\ view.age = q.age
    BY <1>2, <1>6, <1>7, ZenonT(40) DEF Pickers
  <2> HIDE DEF view
  <2>2. SoundSelection(view) /\ IsFiniteSet(view.selected)
    BY <1>7, <2>1 DEF SoundSelection, MarkedAsSelected, Answerable
  <2>3. view.phase \notin {"loading", "error"}
    BY <1>2, <2>1
  <2>4. /\ f \in Pickers /\ SoundSelection(f) /\ StatusIsReady(f)
        /\ f.phase = view.phase /\ f.mode = view.mode /\ f.inFlight = view.inFlight
        /\ f.age = view.age /\ f.gen = view.gen /\ f.first = view.first
        /\ f.source = view.source /\ f.asked = view.asked
        /\ f.selected = view.selected /\ f.refreshOn = view.refreshOn
        /\ f.hold \in {"none", view.hold}
    BY <1>4, <2>1, <2>2, <2>3, FilteredFacts
  <2> HIDE DEF f
  <2>5. fon = f.confirmOn
    BY <2>4 DEF SoundSelection, MarkedAsSelected
  <2> HIDE DEF fon
  <2>6. r = f
    BY <2>4, <2>5 DEF Pickers
  <2> HIDE DEF r
  <2>7. LoadShown(q, f, final)
    <3>1. final => flight = FALSE
      BY DEF flight
    <3>2. ~final => flight = q.inFlight
      BY DEF flight
    <3>3. final => ph = "ready"
      BY DEF ph
    <3>4. ~final => ph = (IF q.mode = "automatic" THEN "ready" ELSE "enriching")
      BY DEF ph
    <3> QED BY <2>1, <2>4, <3>1, <3>2, <3>3, <3>4 DEF LoadShown
  <2> QED BY <1>1, <1>9, <2>1, <2>4, <2>6, <2>7 DEF AnswerAside
<1> QED BY <1>8, <1>9

\* A load that fails says so to the user who asked for it (failLoad).
LEMMA FailedFacts ==
  ASSUME NEW q \in Pickers, Answerable(q)
  PROVE  LET r == Failed(q)
         IN  /\ r \in Pickers /\ SoundSelection(r) /\ StatusIsReady(r) /\ AnswerAside(q, r)
             /\ r.phase \in {"ready", "error"} /\ r.inFlight = FALSE /\ r.refreshOn = TRUE
             /\ r.source = q.source /\ r.hold = "none"
             /\ r.phase = "ready" => q.phase = "ready"
<1> DEFINE over == [q EXCEPT !.inFlight = FALSE]
           on == Cardinality(over.selected) \in 1 .. Limit
           view == [over EXCEPT !.phase = "error", !.refreshOn = TRUE, !.confirmOn = on]
           n == NoHold(view)
           r == [n EXCEPT !.status = Text("error")]
<1>1. Failed(q) = IF q.mode = "automatic" THEN over ELSE r
  BY DEF Failed, View
<1>2. /\ over \in Pickers /\ over.inFlight = FALSE
      /\ over.mode = q.mode /\ over.gen = q.gen /\ over.first = q.first /\ over.asked = q.asked
      /\ over.selected = q.selected /\ over.hold = q.hold /\ over.pending = q.pending
      /\ over.status = q.status /\ over.marks = q.marks /\ over.confirmOn = q.confirmOn
      /\ over.phase = q.phase /\ over.source = q.source /\ over.refreshOn = q.refreshOn
  BY DEF Pickers
<1>3. on \in BOOLEAN /\ on = (Cardinality(q.selected) \in 1 .. Limit)
  BY <1>2
<1>4. /\ NoText \in StatusTexts /\ Text("error") \in StatusTexts /\ Text("error").kind = "error"
  BY TextFacts DEF Kinds
<1> HIDE DEF over, on
<1>5. CASE q.mode = "automatic"
  <2>1. q.hold = "none" /\ q.phase \in {"ready", "error"} /\ q.refreshOn = TRUE
    <3>1. q.refreshOn \in BOOLEAN /\ q.refreshOn
      BY <1>5 DEF Pickers, Answerable
    <3>2. q.hold = "none" /\ q.phase \in {"ready", "error"}
      BY <1>5 DEF Answerable
    <3> QED BY <3>1, <3>2
  <2>2. SoundSelection(over)
    BY <1>2 DEF SoundSelection, MarkedAsSelected, Answerable
  <2>3. Results(over) = Results(q)
    BY <1>2 DEF Results
  <2>4. StatusIsReady(over)
    BY <1>2, <2>1, <2>3 DEF StatusIsReady, Answerable, TellsTruth
  <2> QED BY <1>1, <1>2, <1>5, <2>1, <2>2, <2>4 DEF AnswerAside
<1>6. CASE q.mode # "automatic"
  <2>1. /\ view \in Pickers /\ view.phase = "error" /\ view.refreshOn = TRUE /\ view.confirmOn = on
        /\ view.inFlight = FALSE /\ view.mode = q.mode /\ view.gen = q.gen
        /\ view.first = q.first /\ view.asked = q.asked /\ view.selected = q.selected
        /\ view.marks = q.marks /\ view.source = q.source
    BY <1>2, <1>3, ZenonT(40) DEF Pickers
  <2> HIDE DEF view
  <2>2. /\ n \in Pickers /\ n.phase = "error" /\ n.refreshOn = TRUE /\ n.confirmOn = on
        /\ n.inFlight = FALSE /\ n.mode = q.mode /\ n.gen = q.gen
        /\ n.first = q.first /\ n.asked = q.asked /\ n.selected = q.selected
        /\ n.marks = q.marks /\ n.source = q.source /\ n.hold = "none" /\ n.pending = NoText
    BY <1>4, <2>1 DEF Pickers, NoHold
  <2> HIDE DEF n
  <2>3. /\ r \in Pickers /\ r.phase = "error" /\ r.refreshOn = TRUE /\ r.confirmOn = on
        /\ r.inFlight = FALSE /\ r.mode = q.mode /\ r.gen = q.gen
        /\ r.first = q.first /\ r.asked = q.asked /\ r.selected = q.selected
        /\ r.marks = q.marks /\ r.source = q.source /\ r.hold = "none" /\ r.pending = NoText
        /\ r.status = Text("error")
    BY <1>4, <2>2 DEF Pickers
  <2> HIDE DEF r
  <2>4. SoundSelection(r)
    BY <1>3, <2>3 DEF SoundSelection, MarkedAsSelected, Answerable
  <2>5. StatusIsReady(r)
    BY <1>4, <2>3 DEF StatusIsReady
  <2> QED BY <1>1, <1>6, <2>3, <2>4, <2>5 DEF AnswerAside
<1> QED BY <1>5, <1>6

\* A load that failed: nothing but the view and the status changes.
LEMMA AnsweredFailed ==
  ASSUME Answerable(p), p \in Pickers, NEW post, post.kind = "failed", NEW same \in BOOLEAN,
         NEW r, r = Answered(p, post, same)
  PROVE  /\ r \in Pickers /\ SoundSelection(r) /\ StatusIsReady(r) /\ AnswerAside(p, r)
         /\ r.inFlight = FALSE /\ r.refreshOn = TRUE /\ r.phase \in {"ready", "error"}
         /\ r.phase = "ready" => p.phase = "ready"
         /\ r.source = p.source /\ r.hold = "none"
<1> DEFINE l == Failed(p)
<1>1. r = l
  BY DEF Answered
<1>2. /\ l \in Pickers /\ SoundSelection(l) /\ StatusIsReady(l) /\ AnswerAside(p, l)
      /\ l.phase \in {"ready", "error"} /\ l.inFlight = FALSE /\ l.refreshOn = TRUE
      /\ l.source = p.source /\ l.hold = "none"
      /\ l.phase = "ready" => p.phase = "ready"
  BY FailedFacts
<1> HIDE DEF l
<1> QED BY <1>1, <1>2

\* A list: the view is fresh, and the load goes on unless the list is all.
LEMMA AnsweredList ==
  ASSUME Answerable(p), p \in Pickers, NEW post \in LoadPosts, post.kind = "list",
         NEW same \in BOOLEAN, NEW r, r = Answered(p, post, same)
  PROVE  /\ r \in Pickers /\ SoundSelection(r) /\ StatusIsReady(r) /\ AnswerAside(p, r)
         /\ post.final => r.inFlight = FALSE /\ r.phase = "ready"
         /\ ~post.final => r.inFlight = p.inFlight /\ r.phase \in {"ready", "enriching"}
         /\ p.mode = "automatic" => r.phase = "ready"
         /\ r.refreshOn = TRUE /\ r.source = post.gen /\ r.age = "fresh"
<1> DEFINE g == post.gen
           seen == post.seen
           final == post.final
           q == [p EXCEPT !.age = "fresh", !.source = g]
           l == Loaded(q, seen, final, same)
<1>0. g \in Nat /\ seen \in SUBSET Names /\ final \in BOOLEAN
  BY DEF LoadPosts
<1>1. r = l
  BY DEF Answered
<1> HIDE DEF g, seen, final
<1>2. /\ q \in Pickers /\ q.age = "fresh" /\ q.source = g
      /\ q.phase = p.phase /\ q.mode = p.mode /\ q.inFlight = p.inFlight /\ q.gen = p.gen
      /\ q.first = p.first /\ q.asked = p.asked /\ q.marks = p.marks
      /\ q.selected = p.selected /\ q.status = p.status /\ q.pending = p.pending
      /\ q.hold = p.hold /\ q.refreshOn = p.refreshOn /\ q.confirmOn = p.confirmOn
  BY <1>0 DEF Pickers
<1> HIDE DEF q
<1>3. SoundSelection(q)
  BY <1>2 DEF SoundSelection, MarkedAsSelected, Answerable
<1>4. Results(q) = Results(p)
  BY <1>2 DEF Results
<1>5. StatusIsReady(q)
  BY <1>2, <1>4 DEF StatusIsReady, Answerable, TellsTruth
<1>6. Answerable(q)
  BY <1>2, <1>3, <1>5 DEF Answerable
<1>7. /\ l \in Pickers /\ SoundSelection(l) /\ StatusIsReady(l) /\ AnswerAside(q, l)
      /\ LoadShown(q, l, final)
  BY <1>0, <1>2, <1>6, LoadedFacts
<1> HIDE DEF l
<1>8. AnswerAside(p, l)
  BY <1>2, <1>7 DEF AnswerAside
<1>9. /\ final => l.inFlight = FALSE /\ l.phase = "ready"
      /\ ~final => l.inFlight = p.inFlight
      /\ l.refreshOn = TRUE /\ l.source = g /\ l.age = "fresh"
  BY <1>2, <1>7 DEF LoadShown
<1>10. /\ ~final => l.phase \in {"ready", "enriching"}
       /\ p.mode = "automatic" => l.phase = "ready"
  BY <1>2, <1>7 DEF LoadShown
<1>11. l \in Pickers /\ SoundSelection(l) /\ StatusIsReady(l)
  BY <1>7
<1> QED BY <1>1, <1>8, <1>9, <1>10, <1>11 DEF g, final

\* The descriptions: they end the load.
LEMMA AnsweredDescribed ==
  ASSUME Answerable(p), p \in Pickers, NEW post \in LoadPosts, post.kind = "described",
         NEW same \in BOOLEAN, NEW r, r = Answered(p, post, same)
  PROVE  /\ r \in Pickers /\ SoundSelection(r) /\ StatusIsReady(r) /\ AnswerAside(p, r)
         /\ r.inFlight = FALSE /\ r.phase = "ready"
         /\ r.refreshOn = TRUE /\ r.source = post.gen /\ r.age = p.age
<1> DEFINE g == post.gen
           seen == post.seen
           known == p.tried \cup post.wanted
           q == [p EXCEPT !.tried = known, !.source = g]
           l == Loaded(q, seen, TRUE, same)
<1>0. g \in Nat /\ seen \in SUBSET Names /\ known \in SUBSET Keys
  <2>1. g \in Nat /\ seen \in SUBSET Names /\ post.wanted \in SUBSET Keys
    BY DEF LoadPosts
  <2>2. p.tried \in SUBSET Keys
    BY DEF Pickers
  <2> QED BY <2>1, <2>2
<1>1. r = l
  BY DEF Answered
<1> HIDE DEF g, seen, known
<1>2. /\ q \in Pickers /\ q.age = p.age /\ q.source = g
      /\ q.phase = p.phase /\ q.mode = p.mode /\ q.inFlight = p.inFlight /\ q.gen = p.gen
      /\ q.first = p.first /\ q.asked = p.asked /\ q.marks = p.marks
      /\ q.selected = p.selected /\ q.status = p.status /\ q.pending = p.pending
      /\ q.hold = p.hold /\ q.refreshOn = p.refreshOn /\ q.confirmOn = p.confirmOn
  BY <1>0 DEF Pickers
<1> HIDE DEF q
<1>3. SoundSelection(q)
  BY <1>2 DEF SoundSelection, MarkedAsSelected, Answerable
<1>4. Results(q) = Results(p)
  BY <1>2 DEF Results
<1>5. StatusIsReady(q)
  BY <1>2, <1>4 DEF StatusIsReady, Answerable, TellsTruth
<1>6. Answerable(q)
  BY <1>2, <1>3, <1>5 DEF Answerable
<1>7. /\ l \in Pickers /\ SoundSelection(l) /\ StatusIsReady(l) /\ AnswerAside(q, l)
      /\ LoadShown(q, l, TRUE)
  BY <1>0, <1>2, <1>6, LoadedFacts
<1> HIDE DEF l
<1>8. AnswerAside(p, l)
  BY <1>2, <1>7 DEF AnswerAside
<1>9. /\ l.inFlight = FALSE /\ l.phase = "ready"
      /\ l.refreshOn = TRUE /\ l.source = g /\ l.age = p.age
  BY <1>2, <1>7 DEF LoadShown
<1> QED BY <1>1, <1>7, <1>8, <1>9 DEF g
-----------------------------------------------------------------------------
(* The loads: who still owes an answer *)

\* What stands in the queue keeps its order when the UI thread takes the head
\* away, or when what is posted is not for this load.
LEMMA OrderIsKept ==
  ASSUME AnswersComeInOrder, Open, posts \in Seq(LoadPosts), NEW d \in {0, 1},
         p'.inFlight = p.inFlight, p'.source = p.source, p'.gen = p.gen,
         Mine' = Mine, Mine \subseteq workers',
         Mail' = {i - d : i \in Mail},
         \A i \in Mail : i - d \in DOMAIN posts' /\ posts'[i - d] = posts[i]
  PROVE  AnswersComeInOrder'
<1>0. Mine \subseteq workers /\ Mail \subseteq DOMAIN posts /\ \A i \in DOMAIN posts : i \in Nat
  BY DEF Mine, Mail
<1>1. CASE ~p.inFlight
  BY <1>1 DEF AnswersComeInOrder
<1>2. CASE p.inFlight /\ p.source = p.gen
  <2>1. CASE Describing
    BY <1>2, <2>1 DEF AnswersComeInOrder, Describing
  <2>2. ASSUME NEW i \in DOMAIN posts, SecondAnswer(i) PROVE AnswersComeInOrder'
    <3>1. Mail' = {i - d} /\ i - d \in DOMAIN posts' /\ posts'[i - d].kind = "described"
      BY <2>2 DEF SecondAnswer
    <3>2. SecondAnswer(i - d)'
      BY <2>2, <3>1 DEF SecondAnswer
    <3> QED BY <1>2, <3>1, <3>2 DEF AnswersComeInOrder
  <2> QED BY <1>2, <2>1, <2>2 DEF AnswersComeInOrder
<1>3. CASE p.inFlight /\ p.source # p.gen
  <2>1. CASE Scanning
    <3>1. Scanning'
      BY <2>1 DEF Scanning
    <3> QED BY <1>3, <3>1 DEF AnswersComeInOrder
  <2>2. ASSUME NEW i \in DOMAIN posts, LastAnswer(i) PROVE AnswersComeInOrder'
    <3>1. Mail' = {i - d} /\ i - d \in DOMAIN posts' /\ posts'[i - d] = posts[i]
      BY <2>2 DEF LastAnswer
    <3>2. LastAnswer(i - d)'
      BY <2>2, <3>1 DEF LastAnswer
    <3> QED BY <1>3, <3>1, <3>2 DEF AnswersComeInOrder
  <2>3. ASSUME NEW i \in DOMAIN posts, FirstAnswer(i) PROVE AnswersComeInOrder'
    <3>1. Mail' = {i - d} /\ i - d \in DOMAIN posts' /\ posts'[i - d] = posts[i]
      BY <2>3 DEF FirstAnswer
    <3>2. FirstAnswer(i - d)'
      BY <2>3, <3>1 DEF FirstAnswer
    <3> QED BY <1>3, <3>1, <3>2 DEF AnswersComeInOrder
  <2>4. ASSUME NEW i \in DOMAIN posts, NEW j \in DOMAIN posts, BothAnswers(i, j)
        PROVE  AnswersComeInOrder'
    <3>1. /\ Mail' = {i - d, j - d} /\ i - d \in DOMAIN posts' /\ posts'[i - d] = posts[i]
          /\ j - d \in DOMAIN posts' /\ posts'[j - d] = posts[j]
      BY <2>4 DEF BothAnswers
    <3>2. i - d < j - d
      BY <1>0, <2>4 DEF BothAnswers
    <3>3. BothAnswers(i - d, j - d)'
      BY <2>4, <3>1, <3>2 DEF BothAnswers
    <3> QED BY <1>3, <3>1, <3>3 DEF AnswersComeInOrder
  <2> QED BY <1>3, <2>1, <2>2, <2>3, <2>4 DEF AnswersComeInOrder
<1> QED BY <1>1, <1>2, <1>3

\* What a post means for the letters of the load.
LEMMA MailIsPosted ==
  ASSUME posts \in Seq(LoadPosts), p'.gen = p.gen, NEW post \in LoadPosts,
         posts' = Append(posts, post)
  PROVE  LET n == Len(posts) + 1
         IN  /\ n \in DOMAIN posts' /\ posts'[n] = post /\ n \notin DOMAIN posts
             /\ \A i \in DOMAIN posts : i \in DOMAIN posts' /\ posts'[i] = posts[i] /\ i < n
             /\ Mail' = (IF post.kind # "browsed" /\ post.gen = p.gen THEN Mail \cup {n} ELSE Mail)
<1> DEFINE n == Len(posts) + 1
<1>1. /\ DOMAIN posts = 1 .. Len(posts) /\ DOMAIN posts' = 1 .. n /\ Len(posts) \in Nat
      /\ posts'[n] = post /\ \A i \in DOMAIN posts : posts'[i] = posts[i]
  OBVIOUS
<1>2. /\ n \in DOMAIN posts' /\ n \notin DOMAIN posts
      /\ \A i \in DOMAIN posts : i \in DOMAIN posts' /\ i < n
      /\ \A i \in DOMAIN posts' : i \in DOMAIN posts \/ i = n
  BY <1>1
<1> HIDE DEF n
<1>3. Mail' = (IF post.kind # "browsed" /\ post.gen = p.gen THEN Mail \cup {n} ELSE Mail)
  BY <1>1, <1>2 DEF Mail
<1> QED BY <1>1, <1>2, <1>3 DEF n

\* The head is taken: every other letter is one place further in front.
LEMMA MailIsTaken ==
  ASSUME posts \in Seq(LoadPosts), posts # <<>>, p'.gen = p.gen, posts' = Tail(posts)
  PROVE  /\ 1 \in DOMAIN posts /\ posts[1] = Head(posts) /\ Head(posts) \in LoadPosts
         /\ \A i \in DOMAIN posts : i # 1 => i - 1 \in DOMAIN posts' /\ posts'[i - 1] = posts[i]
         /\ \A i \in DOMAIN posts' : i + 1 \in DOMAIN posts /\ posts'[i] = posts[i + 1]
         /\ Mail' = {i - 1 : i \in Mail \ {1}}
<1>1. /\ 1 \in DOMAIN posts /\ posts[1] = Head(posts) /\ Head(posts) \in LoadPosts
      /\ \A i \in DOMAIN posts : i # 1 => i - 1 \in DOMAIN posts' /\ posts'[i - 1] = posts[i]
      /\ \A i \in DOMAIN posts' : /\ i + 1 \in DOMAIN posts /\ posts'[i] = posts[i + 1]
                                  /\ (i + 1) - 1 = i /\ i + 1 # 1
  OBVIOUS
<1>2. ASSUME NEW i \in Mail' PROVE i \in {j - 1 : j \in Mail \ {1}}
  <2>1. i \in DOMAIN posts' /\ posts'[i].kind # "browsed" /\ posts'[i].gen = p.gen
    BY DEF Mail
  <2>2. i + 1 \in Mail \ {1} /\ i = (i + 1) - 1
    BY <1>1, <2>1 DEF Mail
  <2> QED BY <2>2
<1>3. ASSUME NEW j \in Mail \ {1} PROVE j - 1 \in Mail'
  BY <1>1 DEF Mail
<1> QED BY <1>1, <1>2, <1>3

\* The goroutine of a load begins with a scan.
LEMMA WorkerFacts ==
  ASSUME NEW q \in Pickers
  PROVE  Worker(q) \in LoadWorkers /\ Worker(q).gen = q.gen /\ Worker(q).step = "scanning"
<1> DEFINE skip == IF q.mode = "manual" THEN q.tried \cap Described ELSE q.tried
<1>1. skip \in SUBSET Keys /\ q.selected \in SUBSET Keys /\ q.gen \in Nat
  BY DEF Pickers
<1>2. Worker(q) = [gen |-> q.gen, step |-> "scanning", skip |-> skip,
                   wanted |-> (q.selected \cap Paths) \ skip, seen |-> {}]
  BY DEF Worker
<1> HIDE DEF skip
<1> QED BY <1>1, <1>2 DEF LoadWorkers

\* A load that begins takes a generation nobody else works for.
LEMMA LoadBegins ==
  ASSUME PickerStateTypes, GenerationsAreTaken, p' \in Pickers, p'.gen = loads + 1,
         loads' = loads + 1, p'.inFlight = TRUE, p'.source <= loads, p'.asked <= p'.gen,
         workers' = workers \cup {Worker(p')}, posts' = posts
  PROVE  GenerationsAreTaken' /\ AnswersComeInOrder'
<1> DEFINE w == Worker(p')
<1>1. /\ loads \in Nat /\ posts \in Seq(LoadPosts) /\ workers \in SUBSET LoadWorkers
      /\ \A i \in DOMAIN posts : posts[i] \in LoadPosts /\ posts[i].gen \in Nat
      /\ \A v \in workers : v.gen \in Nat
  <2>1. loads \in Nat /\ posts \in Seq(LoadPosts) /\ workers \in SUBSET LoadWorkers
    BY PickerAssumption DEF PickerStateTypes
  <2>2. \A x \in LoadPosts : x.gen \in Nat
    BY DEF LoadPosts
  <2>3. \A v \in LoadWorkers : v.gen \in Nat
    BY DEF LoadWorkers
  <2> QED BY <2>1, <2>2, <2>3
<1>2. w \in LoadWorkers /\ w.gen = loads + 1 /\ w.step = "scanning"
  BY WorkerFacts
<1> HIDE DEF w
<1>3. workers' = workers \cup {w}
  BY DEF w
<1>4. Mine' = {w}
  <2>1. \A v \in workers : v.gen # loads + 1
    BY <1>1 DEF GenerationsAreTaken
  <2> QED BY <1>2, <1>3, <2>1 DEF Mine
<1>5. Mail' = {}
  BY <1>1 DEF Mail, GenerationsAreTaken
<1>6. GenerationsAreTaken'
  <2>1. \A v \in workers' : v.gen <= loads'
    BY <1>1, <1>2, <1>3 DEF GenerationsAreTaken
  <2>2. \A i \in DOMAIN posts' : posts'[i].kind # "browsed" => posts'[i].gen <= loads'
    BY <1>1 DEF GenerationsAreTaken
  <2>3. p'.gen >= 1 /\ p'.gen <= loads' /\ p'.source <= p'.gen
    <3>1. p'.source \in Nat
      BY DEF Pickers
    <3> QED BY <1>1, <3>1
  <2> QED BY <2>1, <2>2, <2>3 DEF GenerationsAreTaken
<1>7. p'.source # p'.gen
  <2>1. p'.source \in Nat
    BY DEF Pickers
  <2> QED BY <1>1, <2>1
<1>8. Scanning'
  BY <1>2, <1>3, <1>4, <1>5 DEF Scanning
<1> QED BY <1>6, <1>7, <1>8 DEF AnswersComeInOrder

\* What the user does with the rows, the search and the files is no load.
LEMMA LoadGoesOn ==
  ASSUME PickerStateTypes, GenerationsAreTaken, AnswersComeInOrder, Open,
         p'.inFlight = p.inFlight, p'.source = p.source, p'.gen = p.gen, p'.asked = p.asked,
         workers' = workers, loads' = loads,
         \/ posts' = posts
         \/ \E post \in LoadPosts : post.kind = "browsed" /\ posts' = Append(posts, post)
  PROVE  GenerationsAreTaken' /\ AnswersComeInOrder'
<1>0. posts \in Seq(LoadPosts)
  BY DEF PickerStateTypes
<1>1. Mine' = Mine /\ Mine \subseteq workers'
  BY DEF Mine
<1>2. /\ Mail' = Mail /\ \A i \in Mail : i \in DOMAIN posts' /\ posts'[i] = posts[i]
      /\ \A i \in DOMAIN posts' : posts'[i].kind # "browsed" => posts'[i].gen <= loads
  <2>1. CASE posts' = posts
    BY <2>1 DEF Mail, GenerationsAreTaken
  <2>2. ASSUME NEW post \in LoadPosts, post.kind = "browsed", posts' = Append(posts, post)
        PROVE  /\ Mail' = Mail /\ \A i \in Mail : i \in DOMAIN posts' /\ posts'[i] = posts[i]
               /\ \A i \in DOMAIN posts' : posts'[i].kind # "browsed" => posts'[i].gen <= loads
    <3>1. /\ Mail' = Mail
          /\ \A i \in DOMAIN posts : i \in DOMAIN posts' /\ posts'[i] = posts[i]
      BY <1>0, <2>2, MailIsPosted
    <3>2. \A i \in DOMAIN posts' : posts'[i].kind # "browsed" => i \in DOMAIN posts /\ posts'[i] = posts[i]
      BY <1>0, <2>2
    <3> QED BY <3>1, <3>2 DEF Mail, GenerationsAreTaken
  <2> QED BY <2>1, <2>2
<1>3. \A i \in Mail : i \in Int /\ i - 0 = i
  BY <1>0 DEF Mail
<1>4. Mail' = {i - 0 : i \in Mail}
  BY <1>2, <1>3
<1>5. \A i \in Mail : i - 0 \in DOMAIN posts' /\ posts'[i - 0] = posts[i]
  BY <1>2, <1>3
<1>6. AnswersComeInOrder'
  BY <1>0, <1>1, <1>4, <1>5, OrderIsKept
<1> QED BY <1>2, <1>6 DEF GenerationsAreTaken

\* The part of the invariant that only looks at the picker.
LEMMA InvParts ==
  ASSUME PickerInv, Open
  PROVE  /\ p \in Pickers /\ p.phase # "initial" /\ IsFiniteSet(p.selected)
         /\ StatusIsReady(p) /\ SoundSelection(p) /\ MarkedAsSelected(p)
         /\ p.hold = "none" => p.pending = NoText
         /\ Answerable(p)
         /\ posts \in Seq(LoadPosts) /\ workers \in SUBSET LoadWorkers
         /\ ownerOn = FALSE /\ loads \in Nat
<1>1. /\ p \in Pickers /\ p.phase # "initial" /\ IsFiniteSet(p.selected)
      /\ posts \in Seq(LoadPosts) /\ workers \in SUBSET LoadWorkers /\ loads \in Nat
  BY PickerAssumption DEF PickerInv, PickerStateTypes
<1>2. StatusIsReady(p) /\ SoundSelection(p) /\ MarkedAsSelected(p)
  BY DEF PickerInv, SoundSelection
<1>3. p.hold = "none" => p.pending = NoText
  BY <1>2 DEF StatusIsReady
<1>4. Answerable(p)
  BY <1>1, <1>2 DEF Answerable, PickerInv, HoldIsManual, ViewFollowsLoad
<1>5. ownerOn = FALSE
  BY DEF PickerInv, OwnerComesBack
<1> QED BY <1>1, <1>2, <1>3, <1>4, <1>5

\* A step of the user in the window leaves the load alone.
LEMMA ViewStep ==
  ASSUME PickerInv, Open, p' \in Pickers, IsFiniteSet(p'.selected),
         SoundSelection(p'), StatusIsReady(p'),
         p'.phase = p.phase, p'.mode = p.mode, p'.inFlight = p.inFlight, p'.gen = p.gen,
         p'.source = p.source, p'.asked = p.asked, p'.refreshOn = p.refreshOn,
         p'.hold # "none" => p.hold # "none" /\ p'.age = p.age,
         UNCHANGED <<ownerOn, given, workers, loads, shows>>,
         \/ posts' = posts
         \/ \E post \in LoadPosts : post.kind = "browsed" /\ posts' = Append(posts, post)
  PROVE  PickerInv'
<1>1. Open'
  BY PickersAreOpen DEF Open
<1>2. posts' \in Seq(LoadPosts)
  <2>1. posts \in Seq(LoadPosts)
    BY InvParts
  <2> QED BY <2>1
<1>3. PickerStateTypes'
  BY <1>1, <1>2, InvParts DEF PickerInv, PickerStateTypes
<1>4. GenerationsAreTaken' /\ AnswersComeInOrder'
  BY LoadGoesOn DEF PickerInv
<1>5. ViewFollowsLoad'
  BY DEF PickerInv, ViewFollowsLoad
<1>6. HoldIsManual'
  BY DEF PickerInv, HoldIsManual
<1>7. OwnerComesBack'
  BY <1>1, InvParts DEF OwnerComesBack
<1> QED BY <1>3, <1>4, <1>5, <1>6, <1>7 DEF PickerInv

\* The user types into the search (scheduleFilter).
LEMMA TypeTextStep == ASSUME PickerInv, NEW text \in Texts, TypeText(text) PROVE PickerInv' /\ p'.selected = p.selected
<1>1. Open /\ p' = [p EXCEPT !.typed = text] /\ Still
  BY DEF TypeText, AtHand
<1>2. p \in Pickers
  BY <1>1, InvParts
<1>3. /\ p' \in Pickers /\ p'.marks = p.marks /\ p'.selected = p.selected
      /\ p'.confirmOn = p.confirmOn /\ p'.status = p.status /\ p'.pending = p.pending
      /\ p'.hold = p.hold /\ p'.age = p.age
      /\ p'.phase = p.phase /\ p'.mode = p.mode /\ p'.inFlight = p.inFlight /\ p'.gen = p.gen
      /\ p'.source = p.source /\ p'.asked = p.asked /\ p'.refreshOn = p.refreshOn
  BY <1>1, <1>2 DEF Pickers
<1>4. SoundSelection(p')
  BY <1>1, <1>3, InvParts DEF SoundSelection, MarkedAsSelected
<1>5. Results(p') = Results(p)
  BY <1>3 DEF Results
<1>6. StatusIsReady(p')
  BY <1>1, <1>3, <1>5, InvParts DEF StatusIsReady, TellsTruth
<1>7. IsFiniteSet(p'.selected)
  BY <1>1, <1>3, InvParts
<1> QED BY <1>1, <1>3, <1>4, <1>6, <1>7, ViewStep DEF Still

\* The timer of the search, or a new order of the rows.
LEMMA ApplyFilterStep == ASSUME PickerInv, ApplyFilter PROVE PickerInv' /\ p'.selected = p.selected
<1>1. Open /\ p' = Filtered(p) /\ Still
  BY DEF ApplyFilter
<1> DEFINE r == Filtered(p)
<1>2. /\ r \in Pickers /\ SoundSelection(r) /\ StatusIsReady(r)
      /\ r.phase = p.phase /\ r.mode = p.mode /\ r.inFlight = p.inFlight /\ r.age = p.age
      /\ r.gen = p.gen /\ r.first = p.first /\ r.source = p.source /\ r.asked = p.asked
      /\ r.selected = p.selected /\ r.refreshOn = p.refreshOn
      /\ r.hold \in {"none", p.hold}
  BY <1>1, InvParts, FilteredFacts
<1>3. p' = r
  BY <1>1
<1> HIDE DEF r
<1>4. IsFiniteSet(p'.selected)
  BY <1>1, <1>2, <1>3, InvParts
<1> QED BY <1>1, <1>2, <1>3, <1>4, ViewStep DEF Still

\* The file dialog opens.
LEMMA OpenDialogStep == ASSUME PickerInv, OpenDialog PROVE PickerInv' /\ p'.selected = p.selected
<1>1. Open /\ p' = [p EXCEPT !.dialog = TRUE] /\ Still
  BY DEF OpenDialog, AtHand
<1>2. p \in Pickers
  BY <1>1, InvParts
<1>3. /\ p' \in Pickers /\ p'.marks = p.marks /\ p'.selected = p.selected
      /\ p'.confirmOn = p.confirmOn /\ p'.status = p.status /\ p'.pending = p.pending
      /\ p'.hold = p.hold /\ p'.age = p.age
      /\ p'.phase = p.phase /\ p'.mode = p.mode /\ p'.inFlight = p.inFlight /\ p'.gen = p.gen
      /\ p'.source = p.source /\ p'.asked = p.asked /\ p'.refreshOn = p.refreshOn
  BY <1>1, <1>2 DEF Pickers
<1>4. SoundSelection(p')
  BY <1>1, <1>3, InvParts DEF SoundSelection, MarkedAsSelected
<1>5. Results(p') = Results(p)
  BY <1>3 DEF Results
<1>6. StatusIsReady(p')
  BY <1>1, <1>3, <1>5, InvParts DEF StatusIsReady, TellsTruth
<1>7. IsFiniteSet(p'.selected)
  BY <1>1, <1>3, InvParts
<1> QED BY <1>1, <1>3, <1>4, <1>6, <1>7, ViewStep DEF Still

\* The picker with another status at once
Refused(q, on, text) == [q EXCEPT !.dialog = on, !.status = text]

\* A refusal is always true, whatever is held behind it.
LEMMA RefusedFacts ==
  ASSUME NEW q \in Pickers, SoundSelection(q), StatusIsReady(q), NEW on \in BOOLEAN,
         NEW text \in {q.status, Text("refused")}
  PROVE  LET r == Refused(q, on, text)
         IN  /\ r \in Pickers /\ SoundSelection(r) /\ StatusIsReady(r)
             /\ r.phase = q.phase /\ r.mode = q.mode /\ r.inFlight = q.inFlight /\ r.age = q.age
             /\ r.gen = q.gen /\ r.source = q.source /\ r.asked = q.asked
             /\ r.selected = q.selected /\ r.refreshOn = q.refreshOn /\ r.hold = q.hold
<1> DEFINE r == [q EXCEPT !.dialog = on, !.status = text]
<1>1. /\ text \in StatusTexts
      /\ text = q.status \/ text.kind = "refused"
  <2>1. Text("refused") \in StatusTexts /\ Text("refused").kind = "refused"
    BY TextFacts DEF Kinds
  <2>2. q.status \in StatusTexts
    BY DEF Pickers
  <2> QED BY <2>1, <2>2
<1>2. /\ r \in Pickers /\ r.status = text
      /\ r.phase = q.phase /\ r.mode = q.mode /\ r.inFlight = q.inFlight /\ r.age = q.age
      /\ r.gen = q.gen /\ r.source = q.source /\ r.asked = q.asked
      /\ r.selected = q.selected /\ r.refreshOn = q.refreshOn /\ r.hold = q.hold
      /\ r.pending = q.pending /\ r.marks = q.marks /\ r.confirmOn = q.confirmOn
  BY <1>1 DEF Pickers
<1> HIDE DEF r
<1>3. SoundSelection(r)
  BY <1>2 DEF SoundSelection, MarkedAsSelected
<1>4. Results(r) = Results(q)
  BY <1>2 DEF Results
<1>5. StatusIsReady(r)
  BY <1>1, <1>2, <1>4 DEF StatusIsReady, TellsTruth
<1> QED BY <1>2, <1>3, <1>5 DEF r, Refused

\* The dialog ends without a file.
LEMMA DialogFailsStep == ASSUME PickerInv, DialogFails PROVE PickerInv' /\ p'.selected = p.selected
<1>1. Open /\ Still
  BY DEF DialogFails
<1>2. PICK text \in {p.status, Text("refused")} : p' = [p EXCEPT !.dialog = FALSE, !.status = text]
  BY DEF DialogFails
<1> DEFINE on == FALSE
           r == Refused(p, on, text)
<1>3. /\ r \in Pickers /\ SoundSelection(r) /\ StatusIsReady(r)
      /\ r.phase = p.phase /\ r.mode = p.mode /\ r.inFlight = p.inFlight /\ r.age = p.age
      /\ r.gen = p.gen /\ r.source = p.source /\ r.asked = p.asked
      /\ r.selected = p.selected /\ r.refreshOn = p.refreshOn /\ r.hold = p.hold
  BY <1>1, InvParts, RefusedFacts
<1>4. p' = r
  BY <1>2 DEF Refused
<1> HIDE DEF r
<1>5. IsFiniteSet(p'.selected)
  BY <1>1, <1>3, <1>4, InvParts
<1> QED BY <1>1, <1>3, <1>4, <1>5, ViewStep DEF Still

\* The timers run.
LEMMA TimePassesStep == ASSUME PickerInv, TimePasses PROVE PickerInv' /\ p'.selected = p.selected
<1>1. Open /\ Still
  BY DEF TimePasses
<1>2. p \in Pickers
  BY <1>1, InvParts
<1>3. \/ p.hold = "running" /\ p' = [p EXCEPT !.hold = "due"]
      \/ p.hold = "none" /\ p' = [p EXCEPT !.age = "old"]
  BY DEF TimePasses
<1>4. /\ p' \in Pickers /\ p'.marks = p.marks /\ p'.selected = p.selected
      /\ p'.confirmOn = p.confirmOn /\ p'.status = p.status /\ p'.pending = p.pending
      /\ p'.hold = "none" <=> p.hold = "none"
      /\ p'.hold # "none" => p'.age = p.age
      /\ p'.phase = p.phase /\ p'.mode = p.mode /\ p'.inFlight = p.inFlight /\ p'.gen = p.gen
      /\ p'.source = p.source /\ p'.asked = p.asked /\ p'.refreshOn = p.refreshOn
  BY <1>2, <1>3 DEF Pickers
<1>5. SoundSelection(p')
  BY <1>1, <1>4, InvParts DEF SoundSelection, MarkedAsSelected
<1>6. Results(p') = Results(p)
  BY <1>4 DEF Results
<1>7. StatusIsReady(p')
  BY <1>1, <1>4, <1>6, InvParts DEF StatusIsReady, TellsTruth
<1>8. IsFiniteSet(p'.selected)
  BY <1>1, <1>4, InvParts
<1> QED BY <1>1, <1>4, <1>5, <1>7, <1>8, ViewStep DEF Still

\* The hold is over: what waited is shown, or the view as it is.
LEMMA StatusTimerStep == ASSUME PickerInv, StatusTimer PROVE PickerInv' /\ p'.selected = p.selected
<1>1. Open /\ Still /\ p.hold = "due" /\ p' = EndHold(p)
  BY DEF StatusTimer
<1>2. p \in Pickers /\ StatusIsReady(p) /\ SoundSelection(p) /\ IsFiniteSet(p.selected)
  BY <1>1, InvParts
<1> DEFINE n == NoHold(p)
<1>3. /\ n \in Pickers /\ n.hold = "none" /\ n.pending = NoText /\ n.status = p.status
      /\ n.marks = p.marks /\ n.selected = p.selected /\ n.confirmOn = p.confirmOn
      /\ n.age = p.age /\ n.phase = p.phase /\ n.mode = p.mode /\ n.inFlight = p.inFlight
      /\ n.gen = p.gen /\ n.source = p.source /\ n.asked = p.asked
      /\ n.refreshOn = p.refreshOn
  BY <1>2, TextFacts DEF Pickers, NoHold
<1>4. p' = IF p.pending # NoText THEN [n EXCEPT !.status = p.pending] ELSE RefreshStatus(n)
  BY <1>1 DEF EndHold
<1> HIDE DEF n
<1>5. CASE p.pending # NoText
  <2>1. p.pending \in StatusTexts
    BY <1>2 DEF Pickers
  <2>2. /\ p' \in Pickers /\ p'.hold = "none" /\ p'.pending = NoText /\ p'.status = p.pending
        /\ p'.marks = p.marks /\ p'.selected = p.selected /\ p'.confirmOn = p.confirmOn
        /\ p'.age = p.age /\ p'.phase = p.phase /\ p'.mode = p.mode
        /\ p'.inFlight = p.inFlight
        /\ p'.gen = p.gen /\ p'.source = p.source /\ p'.asked = p.asked
        /\ p'.refreshOn = p.refreshOn
    BY <1>3, <1>4, <1>5, <2>1 DEF Pickers
  <2>3. Results(p') = Results(p)
    BY <2>2 DEF Results
  <2>4. Text("describing").kind = "describing"
    BY TextFacts DEF Kinds
  <2>5. StatusIsReady(p')
    BY <1>1, <1>2, <1>5, <2>2, <2>3, <2>4 DEF StatusIsReady, TellsTruth
  <2>6. SoundSelection(p')
    BY <1>2, <2>2 DEF SoundSelection, MarkedAsSelected
  <2>7. IsFiniteSet(p'.selected)
    BY <1>2, <2>2
  <2> QED BY <1>1, <2>2, <2>5, <2>6, <2>7, ViewStep DEF Still
<1>6. CASE p.pending = NoText
  <2>1. n.phase \in {"loading", "error"} => StatusIsReady(n)
    BY <1>2, <1>3 DEF StatusIsReady
  <2> DEFINE r == RefreshStatus(n)
  <2>2. /\ r \in Pickers /\ StatusAside(n, r) /\ StatusIsReady(r)
        /\ r.hold \in {"none", n.hold}
    BY <1>2, <1>3, <2>1, RefreshStatusFacts
  <2>3. p' = r
    BY <1>4, <1>6
  <2> HIDE DEF r
  <2>4. SoundSelection(p')
    BY <1>2, <1>3, <2>2, <2>3 DEF SoundSelection, MarkedAsSelected, StatusAside
  <2>5. IsFiniteSet(p'.selected)
    BY <1>2, <1>3, <2>2, <2>3 DEF StatusAside
  <2>6. /\ p'.phase = p.phase /\ p'.mode = p.mode /\ p'.inFlight = p.inFlight /\ p'.gen = p.gen
        /\ p'.source = p.source /\ p'.asked = p.asked /\ p'.refreshOn = p.refreshOn
        /\ p'.hold = "none" /\ p'.selected = p.selected
    BY <1>3, <2>2, <2>3 DEF StatusAside
  <2> QED BY <1>1, <2>2, <2>3, <2>4, <2>5, <2>6, ViewStep DEF Still
<1> QED BY <1>5, <1>6

\* A row is clicked: refused, or the selection follows the mark.
LEMMA ToggleStep == ASSUME PickerInv, NEW v, Toggle(v) PROVE PickerInv'
<1>1. Open /\ Still /\ v \in DOMAIN p.marks
  BY DEF Toggle, AtHand
<1>2. p \in Pickers /\ StatusIsReady(p) /\ SoundSelection(p) /\ MarkedAsSelected(p)
      /\ IsFiniteSet(p.selected)
  BY <1>1, InvParts
<1>3. CASE ~p.marks[v] /\ ~CanAdd(p.selected, v)
  <2> DEFINE on == p.dialog
             text == Text("refused")
             r == Refused(p, on, text)
  <2>1. on \in BOOLEAN /\ text \in {p.status, Text("refused")}
    BY <1>2 DEF Pickers
  <2>2. p' = r
    <3>1. p' = [p EXCEPT !.status = Text("refused")]
      BY <1>3 DEF Toggle
    <3> QED BY <1>2, <3>1 DEF Pickers, Refused
  <2> HIDE DEF on, text
  <2>3. /\ r \in Pickers /\ SoundSelection(r) /\ StatusIsReady(r)
        /\ r.phase = p.phase /\ r.mode = p.mode /\ r.inFlight = p.inFlight /\ r.age = p.age
        /\ r.gen = p.gen /\ r.source = p.source /\ r.asked = p.asked
        /\ r.selected = p.selected /\ r.refreshOn = p.refreshOn /\ r.hold = p.hold
    BY <1>2, <2>1, RefusedFacts
  <2> HIDE DEF r
  <2>4. IsFiniteSet(p'.selected)
    BY <1>2, <2>2, <2>3
  <2> QED BY <1>1, <2>2, <2>3, <2>4, ViewStep DEF Still
<1>4. CASE ~(~p.marks[v] /\ ~CanAdd(p.selected, v))
  <2> DEFINE marks == [p.marks EXCEPT ![v] = ~@]
             q == [p EXCEPT !.marks = marks]
             c == Captured(q)
             r == RefreshStatus(c)
  <2>1. p' = r
    BY <1>4 DEF Toggle
  <2>2. /\ marks \in UNION {[S -> BOOLEAN] : S \in SUBSET Names}
        /\ DOMAIN marks = DOMAIN p.marks
        /\ \A u \in DOMAIN marks : u # v => marks[u] = p.marks[u]
    <3>1. PICK S \in SUBSET Names : p.marks \in [S -> BOOLEAN]
      BY <1>2 DEF Pickers
    <3>2. marks \in [S -> BOOLEAN]
      BY <3>1
    <3> QED BY <3>1, <3>2
  <2> HIDE DEF marks
  <2>3. /\ q \in Pickers /\ q.marks = marks /\ q.selected = p.selected
        /\ q.status = p.status /\ q.pending = p.pending
        /\ q.hold = p.hold /\ q.age = p.age
        /\ q.phase = p.phase /\ q.mode = p.mode /\ q.inFlight = p.inFlight /\ q.gen = p.gen
        /\ q.source = p.source /\ q.asked = p.asked /\ q.refreshOn = p.refreshOn
    BY <1>2, <2>2 DEF Pickers
  <2> HIDE DEF q
  <2>4. \E w : \A u \in DOMAIN q.marks : u # w => q.marks[u] = (u \in q.selected)
    <3>1. \A u \in DOMAIN q.marks : u # v => q.marks[u] = (u \in q.selected)
      BY <1>2, <2>2, <2>3 DEF MarkedAsSelected
    <3> QED BY <3>1
  <2>5. IsFiniteSet(q.selected)
    BY <1>2, <2>3
  <2>6. /\ c \in Pickers /\ SelectionAside(q, c) /\ SoundSelection(c)
        /\ IsFiniteSet(c.selected)
    BY <2>3, <2>4, <2>5, CapturedFacts
  <2> HIDE DEF c
  <2>7. /\ c.hold = p.hold /\ c.pending = p.pending /\ c.status = p.status /\ c.age = p.age
        /\ c.phase = p.phase /\ c.mode = p.mode /\ c.inFlight = p.inFlight /\ c.gen = p.gen
        /\ c.source = p.source /\ c.asked = p.asked /\ c.refreshOn = p.refreshOn
    BY <2>3, <2>6 DEF SelectionAside
  <2>8. /\ c.hold = "none" => c.pending = NoText
        /\ c.phase \in {"loading", "error"} => StatusIsReady(c)
    BY <1>2, <2>7 DEF StatusIsReady
  <2>9. /\ r \in Pickers /\ StatusAside(c, r) /\ StatusIsReady(r)
        /\ r.hold \in {"none", c.hold}
    BY <2>6, <2>8, RefreshStatusFacts
  <2> HIDE DEF r
  <2>10. SoundSelection(r) /\ IsFiniteSet(r.selected)
    BY <2>6, <2>9 DEF SoundSelection, MarkedAsSelected, StatusAside
  <2>11. /\ r.phase = p.phase /\ r.mode = p.mode /\ r.inFlight = p.inFlight /\ r.gen = p.gen
         /\ r.source = p.source /\ r.asked = p.asked /\ r.refreshOn = p.refreshOn
         /\ r.age = p.age /\ r.hold \in {"none", p.hold}
    BY <2>7, <2>9 DEF StatusAside
  <2> QED BY <1>1, <2>1, <2>9, <2>10, <2>11, ViewStep DEF Still
<1> QED BY <1>3, <1>4

\* A file is chosen: refused, or its path replaces the name.
LEMMA BrowseStep == ASSUME PickerInv, NEW path \in Paths, Browse(path) PROVE PickerInv'
<1>1. Open /\ UNCHANGED <<ownerOn, given, workers, loads, shows>>
  BY DEF Browse
<1>2. p \in Pickers /\ StatusIsReady(p) /\ SoundSelection(p) /\ IsFiniteSet(p.selected)
  BY <1>1, InvParts
<1>3. CASE ~CanAdd(p.selected \ {ExeOf[path]}, path)
  <2> DEFINE on == FALSE
             text == Text("refused")
             r == Refused(p, on, text)
  <2>1. on \in BOOLEAN /\ text \in {p.status, Text("refused")}
    OBVIOUS
  <2>2. p' = r /\ posts' = posts
    BY <1>3 DEF Browse, Refused
  <2> HIDE DEF on, text
  <2>3. /\ r \in Pickers /\ SoundSelection(r) /\ StatusIsReady(r)
        /\ r.phase = p.phase /\ r.mode = p.mode /\ r.inFlight = p.inFlight /\ r.age = p.age
        /\ r.gen = p.gen /\ r.source = p.source /\ r.asked = p.asked
        /\ r.selected = p.selected /\ r.refreshOn = p.refreshOn /\ r.hold = p.hold
    BY <1>2, <2>1, RefusedFacts
  <2> HIDE DEF r
  <2>4. IsFiniteSet(p'.selected)
    BY <1>2, <2>2, <2>3
  <2> QED BY <1>1, <2>2, <2>3, <2>4, ViewStep
<1>4. CASE CanAdd(p.selected \ {ExeOf[path]}, path)
  <2> DEFINE q == [p EXCEPT !.dialog = FALSE]
             keys == (q.selected \ {ExeOf[path]}) \cup {path}
             c == Take(q, keys)
             r == RefreshStatus(c)
             post == [kind |-> "browsed", gen |-> p.first, key |-> path]
  <2>1. p' = r /\ posts' = Append(posts, post)
    BY <1>4 DEF Browse, Browsed
  <2>2. post \in LoadPosts /\ post.kind = "browsed"
    BY <1>2 DEF LoadPosts, Pickers
  <2>3. /\ q \in Pickers /\ q.marks = p.marks /\ q.selected = p.selected
        /\ q.status = p.status /\ q.pending = p.pending
        /\ q.hold = p.hold /\ q.age = p.age
        /\ q.phase = p.phase /\ q.mode = p.mode /\ q.inFlight = p.inFlight /\ q.gen = p.gen
        /\ q.source = p.source /\ q.asked = p.asked /\ q.refreshOn = p.refreshOn
    BY <1>2 DEF Pickers
  <2> HIDE DEF q, post
  <2>4. keys \in SUBSET Keys
    BY <1>2, <2>3 DEF Pickers, Keys
  <2>5. IsFiniteSet(keys)
    <3>1. IsFiniteSet(q.selected \ {ExeOf[path]})
      BY <1>2, <2>3, FS_Subset
    <3> QED BY <3>1, FS_AddElement
  <2> HIDE DEF keys
  <2>6. /\ c \in Pickers /\ SelectionAside(q, c) /\ SoundSelection(c)
        /\ IsFiniteSet(c.selected)
    BY <2>3, <2>4, <2>5, TakeFacts
  <2> HIDE DEF c
  <2>7. /\ c.hold = p.hold /\ c.pending = p.pending /\ c.status = p.status /\ c.age = p.age
        /\ c.phase = p.phase /\ c.mode = p.mode /\ c.inFlight = p.inFlight /\ c.gen = p.gen
        /\ c.source = p.source /\ c.asked = p.asked /\ c.refreshOn = p.refreshOn
    BY <2>3, <2>6 DEF SelectionAside
  <2>8. /\ c.hold = "none" => c.pending = NoText
        /\ c.phase \in {"loading", "error"} => StatusIsReady(c)
    BY <1>2, <2>7 DEF StatusIsReady
  <2>9. /\ r \in Pickers /\ StatusAside(c, r) /\ StatusIsReady(r)
        /\ r.hold \in {"none", c.hold}
    BY <2>6, <2>8, RefreshStatusFacts
  <2> HIDE DEF r
  <2>10. SoundSelection(r) /\ IsFiniteSet(r.selected)
    BY <2>6, <2>9 DEF SoundSelection, MarkedAsSelected, StatusAside
  <2>11. /\ r.phase = p.phase /\ r.mode = p.mode /\ r.inFlight = p.inFlight /\ r.gen = p.gen
         /\ r.source = p.source /\ r.asked = p.asked /\ r.refreshOn = p.refreshOn
         /\ r.age = p.age /\ r.hold \in {"none", p.hold}
    BY <2>7, <2>9 DEF StatusAside
  <2> QED BY <1>1, <2>1, <2>2, <2>9, <2>10, <2>11, ViewStep
<1> QED BY <1>3, <1>4

\* The picker goes, and what was on its way to it finds nobody.
LEMMA PickerGone ==
  ASSUME PickerInv, p' = NoPicker, ownerOn' = TRUE, UNCHANGED <<posts>>,
         given' \in SUBSET Keys, Normal(given') = given', IsFiniteSet(given'),
         \/ workers' = workers /\ loads' = loads
         \/ \E w \in LoadWorkers : w.gen = loads + 1 /\ workers' = workers \cup {w} /\ loads' = loads + 1,
         loads' <= MaxLoads, shows' \in 0 .. MaxShows
  PROVE  PickerInv'
<1>1. ~Open'
  BY DEF Open
<1>2. loads \in Nat /\ MaxLoads \in Nat /\ workers \in SUBSET LoadWorkers
      /\ posts \in Seq(LoadPosts)
  BY PickerAssumption DEF PickerInv, PickerStateTypes
<1>3. PickerStateTypes'
  BY <1>1, <1>2 DEF PickerStateTypes
<1>4. GenerationsAreTaken'
  <2>1. /\ \A w \in workers : w.gen \in Nat
        /\ \A i \in DOMAIN posts : posts[i].gen \in Nat
    <3>1. \A x \in LoadPosts : x.gen \in Nat
      BY DEF LoadPosts
    <3>2. \A w \in LoadWorkers : w.gen \in Nat
      BY DEF LoadWorkers
    <3> QED BY <1>2, <3>1, <3>2
  <2> QED BY <1>1, <1>2, <2>1 DEF PickerInv, GenerationsAreTaken
<1> QED BY <1>1, <1>3, <1>4
        DEF PickerInv, AnswersComeInOrder, ViewFollowsLoad, HoldIsManual, OwnerComesBack

\* Cancel, Hide or a lost frame.
LEMMA CloseStep == ASSUME PickerInv, Close PROVE PickerInv'
<1>1. /\ p' = NoPicker /\ ownerOn' = TRUE /\ UNCHANGED <<given, workers, posts, loads, shows>>
  BY DEF Close, Release
<1>2. given' \in SUBSET Keys /\ Normal(given') = given' /\ IsFiniteSet(given')
      /\ loads' <= MaxLoads /\ shows' \in 0 .. MaxShows
  BY <1>1, PickerAssumption DEF PickerInv, PickerStateTypes
<1> QED BY <1>1, <1>2, PickerGone

\* The selection is handed over, and the picker goes.
LEMMA ConfirmStep ==
  ASSUME PickerInv, Confirm
  PROVE  PickerInv' /\ given' = p.selected
<1>1. /\ Open /\ p' = NoPicker /\ ownerOn' = TRUE /\ UNCHANGED <<workers, posts, loads, shows>>
      /\ given' = Captured(p).selected
  BY DEF Confirm, Release, AtHand
<1>2. p \in Pickers /\ MarkedAsSelected(p) /\ IsFiniteSet(p.selected)
  BY <1>1, InvParts
<1>3. Captured(p).selected = p.selected
  <2>1. \E v : \A u \in DOMAIN p.marks : u # v => p.marks[u] = (u \in p.selected)
    BY <1>2 DEF MarkedAsSelected
  <2> QED BY <1>2, <2>1, CapturedFacts
<1>4. given' \in SUBSET Keys /\ Normal(given') = given' /\ IsFiniteSet(given')
  BY <1>1, <1>2, <1>3 DEF MarkedAsSelected, Pickers
<1>5. loads' <= MaxLoads /\ shows' \in 0 .. MaxShows
  BY <1>1, PickerAssumption DEF PickerInv, PickerStateTypes
<1> QED BY <1>1, <1>3, <1>4, <1>5, PickerGone

\* A picker that is made shows what the rule holds, as it is.
LEMMA FreshFacts ==
  ASSUME PickerInv, NEW known \in SUBSET (given \cap Described)
  PROVE  /\ Fresh(known) \in Pickers /\ MarkedAsSelected(Fresh(known)) /\ IsFiniteSet(Fresh(known).selected)
         /\ Fresh(known).source = 0
<1>1. /\ given \in SUBSET Keys /\ Normal(given) = given /\ IsFiniteSet(given) /\ loads \in Nat
      /\ Names \in Texts
  BY PickerAssumption DEF PickerInv, PickerStateTypes
<1>0. known \in SUBSET Keys
  BY PickerAssumption
<1> DEFINE marks == [v \in {} |-> FALSE]
           first == loads + 1
<1>2. marks \in [{} -> BOOLEAN] /\ DOMAIN marks = {}
  OBVIOUS
<1>3. marks \in UNION {[S -> BOOLEAN] : S \in SUBSET Names}
  BY <1>2
<1>4. NoText \in StatusTexts
  BY TextFacts
<1>5. Fresh(known) = [phase |-> "initial", mode |-> "initial", inFlight |-> FALSE, age |-> "never",
               gen |-> 0, first |-> first, source |-> 0, asked |-> 0,
               items |-> [live |-> {}, gone |-> {}, named |-> {}], marks |-> marks,
               typed |-> Names, selected |-> given, tried |-> known,
               status |-> NoText, pending |-> NoText, hold |-> "none",
               refreshOn |-> TRUE, confirmOn |-> FALSE, dialog |-> FALSE]
  BY DEF Fresh
<1>6. first \in Nat
  BY <1>1
<1> HIDE DEF marks, first
<1>7. [live |-> {}, gone |-> {}, named |-> {}] \in PickerItems
  BY DEF PickerItems
<1>8. Fresh(known) \in Pickers /\ Fresh(known).marks = marks /\ Fresh(known).selected = given /\ Fresh(known).source = 0
  BY <1>1, <1>0, <1>3, <1>4, <1>5, <1>6, <1>7 DEF Pickers
<1>9. MarkedAsSelected(Fresh(known))
  BY <1>1, <1>2, <1>8 DEF MarkedAsSelected
<1> QED BY <1>1, <1>8, <1>9

\* A load that has begun leaves the invariant whole.
LEMMA LoadStep ==
  ASSUME PickerInv, NEW r \in Pickers, p' = r, ownerOn' = FALSE,
         SoundSelection(r), StatusIsReady(r), IsFiniteSet(r.selected),
         r.inFlight = TRUE, r.gen = loads + 1, r.source <= loads, r.asked <= r.gen,
         r.hold # "none" => r.mode = "manual",
         IF r.mode = "automatic" THEN r.refreshOn /\ r.phase \in {"ready", "error"}
                                 ELSE r.phase = "loading",
         r.phase \in {"enriching", "ready"} => r.source >= r.asked,
         UNCHANGED <<given, posts>>, loads < MaxLoads, loads' = loads + 1,
         workers' = workers \cup {Worker(r)}, shows' \in 0 .. MaxShows
  PROVE  PickerInv'
<1>1. Open'
  BY PickersAreOpen DEF Open
<1>2. loads \in Nat /\ MaxLoads \in Nat
  BY PickerAssumption DEF PickerInv, PickerStateTypes
<1>3. r.phase # "initial"
  OBVIOUS
<1>4. PickerStateTypes'
  <2>1. workers' \in SUBSET LoadWorkers
    BY WorkerFacts DEF PickerInv, PickerStateTypes
  <2>2. loads' \in 0 .. MaxLoads
    BY <1>2
  <2> QED BY <1>1, <1>3, <2>1, <2>2 DEF PickerInv, PickerStateTypes
<1>5. GenerationsAreTaken' /\ AnswersComeInOrder'
  BY LoadBegins DEF PickerInv
<1>6. ViewFollowsLoad'
  BY DEF ViewFollowsLoad
<1>7. HoldIsManual'
  <2>1. r.source \in Nat
    BY DEF Pickers
  <2>2. r.source # r.gen
    BY <1>2, <2>1
  <2> QED BY <2>2 DEF HoldIsManual
<1>8. OwnerComesBack'
  BY <1>1 DEF OwnerComesBack
<1> QED BY <1>4, <1>5, <1>6, <1>7, <1>8 DEF PickerInv

\* The picker is opened; or its window could not be shown, and the goroutine
\* of its load works for nobody.
LEMMA ShowStep == ASSUME PickerInv, Show PROVE PickerInv'
<1>0. PICK known \in SUBSET (given \cap Described) :
        /\ workers' = workers \cup {Worker(Started(Fresh(known), "initial", FALSE))}
        /\ \/ p' = Started(Fresh(known), "initial", FALSE) /\ ownerOn' = FALSE
           \/ AbortCreate
  BY DEF Show
<1> DEFINE mode == "initial"
           held == FALSE
           q == Fresh(known)
           r == Started(q, mode, held)
<1>1. /\ shows' = shows + 1 /\ shows < MaxShows /\ loads < MaxLoads /\ loads' = loads + 1
      /\ workers' = workers \cup {Worker(r)} /\ UNCHANGED <<given, posts>>
      /\ (p' = r /\ ownerOn' = FALSE) \/ (p' = NoPicker /\ ownerOn' = TRUE)
  BY <1>0 DEF Show, AbortCreate
<1>2. loads \in Nat /\ MaxLoads \in Nat /\ shows' \in 0 .. MaxShows
      /\ given \in SUBSET Keys /\ Normal(given) = given /\ IsFiniteSet(given)
  BY <1>1, PickerAssumption DEF PickerInv, PickerStateTypes
<1>3. mode \in {"initial", "manual"} /\ held \in BOOLEAN
  OBVIOUS
<1> HIDE DEF mode, held
<1>4. /\ r \in Pickers /\ SoundSelection(r) /\ StatusIsReady(r)
      /\ r.phase = "loading" /\ r.mode = mode /\ r.inFlight = TRUE
      /\ r.gen = loads + 1 /\ r.asked = loads + 1 /\ r.source = q.source
      /\ r.selected = q.selected
      /\ r.hold # "none" => mode = "manual"
  <2>1. /\ q \in Pickers /\ MarkedAsSelected(q) /\ IsFiniteSet(q.selected)
    BY FreshFacts
  <2> HIDE DEF q
  <2>2. /\ r \in Pickers /\ SoundSelection(r) /\ StatusIsReady(r) /\ LoadAsked(q, r, mode)
    BY <1>2, <1>3, <2>1, StartedFacts
  <2> HIDE DEF r
  <2> QED BY <2>2 DEF LoadAsked
<1> HIDE DEF r
<1>5. r.source <= loads /\ r.asked <= r.gen /\ IsFiniteSet(r.selected)
  BY <1>2, <1>4, FreshFacts
<1>6. CASE p' = r /\ ownerOn' = FALSE
  <2>1. r.hold # "none" => r.mode = "manual"
    BY <1>4
  <2>2. IF r.mode = "automatic" THEN r.refreshOn /\ r.phase \in {"ready", "error"}
                                ELSE r.phase = "loading"
    BY <1>3, <1>4
  <2>3. r.phase \in {"enriching", "ready"} => r.source >= r.asked
    BY <1>4
  <2> QED BY <1>1, <1>2, <1>4, <1>5, <1>6, <2>1, <2>2, <2>3, LoadStep
<1>7. CASE p' = NoPicker /\ ownerOn' = TRUE
  <2>1. Worker(r) \in LoadWorkers /\ Worker(r).gen = loads + 1
    BY <1>4, WorkerFacts
  <2>2. loads' <= MaxLoads
    BY <1>1, <1>2
  <2> QED BY <1>1, <1>2, <1>7, <2>1, <2>2, PickerGone
<1> QED BY <1>1, <1>6, <1>7

\* The Refresh button.
LEMMA RefreshStep == ASSUME PickerInv, Refresh PROVE PickerInv' /\ p'.selected = p.selected
<1>1. PICK held \in BOOLEAN : BeginLoad(Started(p, "manual", held))
  BY DEF Refresh
<1> DEFINE mode == "manual"
           r == Started(p, mode, held)
<1>2. /\ Open /\ loads < MaxLoads /\ loads' = loads + 1 /\ p' = r
      /\ workers' = workers \cup {Worker(r)} /\ UNCHANGED <<ownerOn, given, posts, shows>>
  BY <1>1 DEF Refresh, BeginLoad, AtHand
<1>3. loads \in Nat /\ shows' \in 0 .. MaxShows
  BY <1>2, PickerAssumption DEF PickerInv, PickerStateTypes
<1>4. p \in Pickers /\ MarkedAsSelected(p) /\ IsFiniteSet(p.selected) /\ ownerOn = FALSE
  BY <1>2, InvParts
<1>5. mode \in {"initial", "manual"}
  OBVIOUS
<1> HIDE DEF mode
<1>6. /\ r \in Pickers /\ SoundSelection(r) /\ StatusIsReady(r)
      /\ r.phase = "loading" /\ r.mode = mode /\ r.inFlight = TRUE
      /\ r.gen = loads + 1 /\ r.asked = loads + 1 /\ r.source = p.source
      /\ r.selected = p.selected
      /\ r.hold # "none" => mode = "manual"
  <2>1. /\ r \in Pickers /\ SoundSelection(r) /\ StatusIsReady(r) /\ LoadAsked(p, r, mode)
    BY <1>3, <1>4, <1>5, StartedFacts
  <2> HIDE DEF r
  <2> QED BY <2>1 DEF LoadAsked
<1> HIDE DEF r
<1>7. r.source <= loads /\ r.asked <= r.gen /\ IsFiniteSet(r.selected)
  <2>1. p.source <= p.gen /\ p.gen <= loads /\ p.source \in Nat /\ p.gen \in Nat
    BY <1>2, <1>4 DEF PickerInv, GenerationsAreTaken, Pickers
  <2> QED BY <1>3, <1>4, <1>6, <2>1
<1>8. r.hold # "none" => r.mode = "manual"
  BY <1>6
<1>9. IF r.mode = "automatic" THEN r.refreshOn /\ r.phase \in {"ready", "error"}
                              ELSE r.phase = "loading"
  BY <1>5, <1>6
<1>10. r.phase \in {"enriching", "ready"} => r.source >= r.asked
  BY <1>6
<1>11. ownerOn' = FALSE
  BY <1>2, <1>4
<1>12. PickerInv'
  BY <1>2, <1>3, <1>6, <1>7, <1>8, <1>9, <1>10, <1>11, LoadStep
<1> QED BY <1>2, <1>6, <1>12

\* The window is activated, and what it shows is old.
LEMMA ActivateStep == ASSUME PickerInv, Activate PROVE PickerInv' /\ p'.selected = p.selected
<1> DEFINE r == Started(p, "automatic", FALSE)
<1>1. /\ Open /\ loads < MaxLoads /\ loads' = loads + 1 /\ p' = r /\ ~p.inFlight /\ p.age = "old"
      /\ workers' = workers \cup {Worker(r)} /\ UNCHANGED <<ownerOn, given, posts, shows>>
  BY DEF Activate, BeginLoad, AtHand
<1>2. loads \in Nat /\ shows' \in 0 .. MaxShows
  BY <1>1, PickerAssumption DEF PickerInv, PickerStateTypes
<1>3. p \in Pickers /\ SoundSelection(p) /\ StatusIsReady(p) /\ IsFiniteSet(p.selected)
      /\ ownerOn = FALSE
  BY <1>1, InvParts
<1>4. p.refreshOn /\ p.phase \in {"ready", "error"} /\ p.hold = "none"
      /\ (p.phase = "ready" => p.source >= p.asked)
  BY <1>1 DEF PickerInv, ViewFollowsLoad, HoldIsManual
<1>5. /\ r \in Pickers /\ SoundSelection(r) /\ StatusIsReady(r)
      /\ r.phase = p.phase /\ r.mode = "automatic" /\ r.inFlight = TRUE
      /\ r.gen = loads + 1 /\ r.asked = p.asked /\ r.source = p.source
      /\ r.refreshOn = p.refreshOn /\ r.selected = p.selected /\ r.hold = "none"
  BY <1>2, <1>3, <1>4, StartedQuietly
<1> HIDE DEF r
<1>6. r.source <= loads /\ r.asked <= r.gen /\ IsFiniteSet(r.selected)
  <2>1. p.source <= p.gen /\ p.gen <= loads /\ p.asked <= p.gen
        /\ p.source \in Nat /\ p.gen \in Nat /\ p.asked \in Nat
    BY <1>1, <1>3 DEF PickerInv, GenerationsAreTaken, Pickers
  <2> QED BY <1>2, <1>3, <1>5, <2>1
<1>7. r.hold # "none" => r.mode = "manual"
  BY <1>5
<1>8. IF r.mode = "automatic" THEN r.refreshOn /\ r.phase \in {"ready", "error"}
                              ELSE r.phase = "loading"
  BY <1>4, <1>5
<1>9. r.phase \in {"enriching", "ready"} => r.source >= r.asked
  BY <1>4, <1>5
<1>10. ownerOn' = FALSE
  BY <1>1, <1>3
<1>11. PickerInv'
  BY <1>1, <1>2, <1>5, <1>6, <1>7, <1>8, <1>9, <1>10, LoadStep
<1> QED BY <1>1, <1>5, <1>11
-----------------------------------------------------------------------------
(* What the goroutines post, and what the UI thread makes of it *)

\* The four things that are posted.
LEMMA PostKinds ==
  ASSUME NEW post \in LoadPosts
  PROVE  /\ post.kind \in {"failed", "list", "described", "browsed"} /\ post.gen \in Nat
         /\ post.kind = "list" => post.seen \in SUBSET Names /\ post.final \in BOOLEAN
         /\ post.kind = "browsed" => post.key \in Paths
BY DEF LoadPosts

\* A goroutine that still works for the picker is the only one, and its step
\* says what has been posted of its load.
LEMMA StageOfWorker ==
  ASSUME PickerInv, Open, NEW w \in workers, w.gen = p.gen
  PROVE  /\ p.inFlight /\ Mine = {w}
         /\ w.step = "scanning" => Mail = {} /\ p.source # p.gen
         /\ w.step = "describing" =>
              IF p.source = p.gen THEN Mail = {} ELSE \E i \in DOMAIN posts : FirstAnswer(i)
<1>1. w \in Mine
  BY DEF Mine
<1>2. AnswersComeInOrder
  BY DEF PickerInv
<1>3. p.inFlight
  BY <1>1, <1>2 DEF AnswersComeInOrder
<1>4. CASE p.source = p.gen
  <2>1. Describing
    BY <1>1, <1>2, <1>3, <1>4 DEF AnswersComeInOrder, SecondAnswer
  <2> QED BY <1>1, <1>3, <1>4, <2>1 DEF Describing
<1>5. CASE p.source # p.gen
  <2>1. Scanning \/ \E i \in DOMAIN posts : FirstAnswer(i)
    BY <1>1, <1>2, <1>3, <1>5 DEF AnswersComeInOrder, LastAnswer, BothAnswers
  <2>2. CASE Scanning
    BY <1>1, <1>3, <1>5, <2>2 DEF Scanning
  <2>3. ASSUME NEW i \in DOMAIN posts, FirstAnswer(i)
        PROVE  Mine = {w} /\ w.step = "describing" /\ \E k \in DOMAIN posts : FirstAnswer(k)
    BY <1>1, <2>3 DEF FirstAnswer
  <2>4. CASE \E i \in DOMAIN posts : FirstAnswer(i)
    BY <1>3, <1>5, <2>3, <2>4
  <2> QED BY <2>1, <2>2, <2>4
<1> QED BY <1>4, <1>5

\* A goroutine posts: nothing changes for the picker but who owes what.
LEMMA PostStep ==
  ASSUME PickerInv, UNCHANGED <<p, ownerOn, given, loads, shows>>, NEW post \in LoadPosts,
         posts' = Append(posts, post), post.gen <= loads,
         workers' \in SUBSET LoadWorkers, \A v \in workers' : v.gen <= loads,
         Open => AnswersComeInOrder'
  PROVE  PickerInv'
<1>1. posts \in Seq(LoadPosts)
  BY DEF PickerInv, PickerStateTypes
<1>2. Open' = Open
  BY DEF Open
<1>3. PickerStateTypes'
  BY <1>1, <1>2 DEF PickerInv, PickerStateTypes
<1>4. GenerationsAreTaken'
  <2>1. \A i \in DOMAIN posts' :
            posts'[i] = post \/ (i \in DOMAIN posts /\ posts'[i] = posts[i])
    BY <1>1
  <2> QED BY <1>2, <2>1 DEF PickerInv, GenerationsAreTaken
<1>5. AnswersComeInOrder'
  BY <1>2 DEF AnswersComeInOrder
<1>6. ViewFollowsLoad' /\ HoldIsManual' /\ OwnerComesBack'
  BY <1>2 DEF PickerInv, ViewFollowsLoad, HoldIsManual, OwnerComesBack
<1>7. (Open => StatusIsReady(p) /\ SoundSelection(p))'
  <2>1. CASE Open
    <3>1. p' = p /\ StatusIsReady(p) /\ SoundSelection(p)
      BY <2>1 DEF PickerInv
    <3> DEFINE q == p
    <3>2. StatusIsReady(q) /\ SoundSelection(q) /\ p' = q
      BY <3>1
    <3> HIDE DEF q
    <3> QED BY <3>2
  <2> QED BY <1>2, <2>1
<1> QED BY <1>3, <1>4, <1>5, <1>6, <1>7 DEF PickerInv

\* What a goroutine of another load posts is not for this picker.
LEMMA ForSomebodyElse ==
  ASSUME PickerInv, Open, UNCHANGED p, NEW post \in LoadPosts, posts' = Append(posts, post),
         post.gen # p.gen, \A v : v.gen = p.gen => (v \in workers' <=> v \in workers)
  PROVE  AnswersComeInOrder'
<1>1. posts \in Seq(LoadPosts) /\ AnswersComeInOrder
  BY DEF PickerInv, PickerStateTypes
<1>2. Mine' = Mine /\ Mine \subseteq workers'
  BY DEF Mine
<1>3. /\ Mail' = Mail
      /\ \A i \in Mail : i \in Int /\ i - 0 = i /\ i \in DOMAIN posts' /\ posts'[i] = posts[i]
  <2>1. Mail' = Mail /\ \A i \in DOMAIN posts : i \in DOMAIN posts' /\ posts'[i] = posts[i]
    BY <1>1, MailIsPosted
  <2>2. \A i \in Mail : i \in DOMAIN posts /\ i \in Int /\ i - 0 = i
    BY <1>1 DEF Mail
  <2> QED BY <2>1, <2>2
<1>4. Mail' = {i - 0 : i \in Mail}
  BY <1>3
<1>5. \A i \in Mail : i - 0 \in DOMAIN posts' /\ posts'[i - 0] = posts[i]
  BY <1>3
<1> QED BY <1>1, <1>2, <1>4, <1>5, OrderIsKept
\* The letter that has just been posted for the picker's load stands last.
LEMMA PostedForMe ==
  ASSUME PickerInv, Open, UNCHANGED p, NEW post \in LoadPosts, posts' = Append(posts, post),
         post.gen = p.gen, post.kind # "browsed"
  PROVE  \E n \in DOMAIN posts' :
            /\ posts'[n] = post /\ Mail' = Mail \cup {n}
            /\ \A i \in DOMAIN posts : i \in DOMAIN posts' /\ posts'[i] = posts[i] /\ i < n
<1>1. posts \in Seq(LoadPosts)
  BY DEF PickerInv, PickerStateTypes
<1> QED BY <1>1, MailIsPosted

\* The goroutine has read the processes, or could not (loadProcesses).
LEMMA ScanStep == ASSUME PickerInv, NEW w \in workers, Scan(w) PROVE PickerInv' /\ p' = p
<1>1. w.step = "scanning" /\ UNCHANGED <<p, ownerOn, given, loads, shows>>
  BY DEF Scan
<1>2. /\ workers \in SUBSET LoadWorkers /\ w \in LoadWorkers /\ w.gen \in Nat /\ w.gen <= loads
      /\ \A v \in workers : v.gen <= loads
  <2>1. workers \in SUBSET LoadWorkers /\ w \in LoadWorkers
    BY DEF PickerInv, PickerStateTypes
  <2>2. w.gen \in Nat
    BY <2>1 DEF LoadWorkers
  <2> QED BY <2>1, <2>2 DEF PickerInv, GenerationsAreTaken
<1>3. CASE /\ posts' = Append(posts, [kind |-> "failed", gen |-> w.gen])
           /\ workers' = workers \ {w}
  <2> DEFINE post == [kind |-> "failed", gen |-> w.gen]
  <2>1. /\ post \in LoadPosts /\ post.gen = w.gen /\ post.kind = "failed"
        /\ posts' = Append(posts, post)
    BY <1>2, <1>3 DEF LoadPosts
  <2> HIDE DEF post
  <2>2. ASSUME Open, w.gen # p.gen PROVE AnswersComeInOrder'
    <3>1. \A v : v.gen = p.gen => (v \in workers' <=> v \in workers)
      BY <1>3, <2>2
    <3> QED BY <1>1, <2>1, <2>2, <3>1, ForSomebodyElse
  <2>3. ASSUME Open, w.gen = p.gen PROVE AnswersComeInOrder'
    <3>1. p.inFlight /\ Mine = {w} /\ Mail = {} /\ p.source # p.gen
      BY <1>1, <2>3, StageOfWorker
    <3>2. PICK n \in DOMAIN posts' : posts'[n] = post /\ Mail' = Mail \cup {n}
      BY <1>1, <2>1, <2>3, PostedForMe
    <3>3. Mine' = {}
      BY <1>1, <1>3, <3>1 DEF Mine
    <3>4. LastAnswer(n)'
      BY <2>1, <3>1, <3>2, <3>3 DEF LastAnswer
    <3> QED BY <1>1, <3>1, <3>2, <3>4 DEF AnswersComeInOrder
  <2>4. Open => AnswersComeInOrder'
    BY <2>2, <2>3
  <2>5. workers' \in SUBSET LoadWorkers /\ \A v \in workers' : v.gen <= loads
    BY <1>2, <1>3
  <2> QED BY <1>1, <1>2, <2>1, <2>4, <2>5, PostStep
<1>4. ASSUME NEW seen \in Snapshots, NEW wanted, wanted = Wanted(w, seen),
             posts' = Append(posts, [kind |-> "list", gen |-> w.gen, seen |-> seen,
                                     final |-> wanted = {}]),
             workers' = (workers \ {w}) \cup
               (IF wanted = {} THEN {}
                ELSE {[w EXCEPT !.step = "describing", !.seen = seen, !.wanted = wanted]})
      PROVE  PickerInv'
  <2> DEFINE all == wanted = {}
             post == [kind |-> "list", gen |-> w.gen, seen |-> seen, final |-> all]
             next == [w EXCEPT !.step = "describing", !.seen = seen, !.wanted = wanted]
  <2>1. seen \in SUBSET Names /\ wanted \in SUBSET Keys
    <3>1. seen \in SUBSET Names /\ Names \subseteq Keys
      BY PickerAssumption DEF Keys
    <3>2. w.wanted \in SUBSET Keys
      BY <1>2 DEF LoadWorkers
    <3> QED BY <1>4, <3>1, <3>2 DEF Wanted
  <2>2. /\ post \in LoadPosts /\ post.gen = w.gen /\ post.kind = "list" /\ post.final = all
        /\ posts' = Append(posts, post)
    <3>1. all \in BOOLEAN
      OBVIOUS
    <3>2. posts' = Append(posts, post)
      BY <1>4
    <3> HIDE DEF all
    <3> QED BY <1>2, <2>1, <3>1, <3>2 DEF LoadPosts
  <2>3. next \in LoadWorkers /\ next.gen = w.gen /\ next.step = "describing"
    BY <1>2, <2>1 DEF LoadWorkers
  <2>4. workers' = IF all THEN workers \ {w} ELSE (workers \ {w}) \cup {next}
    BY <1>4
  <2> HIDE DEF post, next, all
  <2>5. ASSUME Open, w.gen # p.gen PROVE AnswersComeInOrder'
    <3>1. \A v : v.gen = p.gen => (v \in workers' <=> v \in workers)
      BY <2>3, <2>4, <2>5
    <3> QED BY <1>1, <2>2, <2>5, <3>1, ForSomebodyElse
  <2>6. ASSUME Open, w.gen = p.gen PROVE AnswersComeInOrder'
    <3>1. p.inFlight /\ Mine = {w} /\ Mail = {} /\ p.source # p.gen
      BY <1>1, <2>6, StageOfWorker
    <3>2. PICK n \in DOMAIN posts' : posts'[n] = post /\ Mail' = Mail \cup {n}
      BY <1>1, <2>2, <2>6, PostedForMe
    <3>3. CASE all
      <4>1. Mine' = {}
        BY <1>1, <2>4, <3>1, <3>3 DEF Mine
      <4>2. LastAnswer(n)'
        BY <2>2, <3>1, <3>2, <3>3, <4>1 DEF LastAnswer
      <4> QED BY <1>1, <3>1, <3>2, <4>2 DEF AnswersComeInOrder
    <3>4. CASE ~all
      <4>1. Mine' = {next} /\ next \in workers'
        BY <1>1, <2>3, <2>4, <2>6, <3>1, <3>4 DEF Mine
      <4>2. FirstAnswer(n)'
        BY <2>2, <2>3, <3>1, <3>2, <3>4, <4>1 DEF FirstAnswer
      <4> QED BY <1>1, <3>1, <3>2, <4>2 DEF AnswersComeInOrder
    <3> QED BY <3>3, <3>4
  <2>7. Open => AnswersComeInOrder'
    BY <2>5, <2>6
  <2>8. workers' \in SUBSET LoadWorkers /\ \A v \in workers' : v.gen <= loads
    BY <1>2, <2>3, <2>4
  <2> QED BY <1>1, <1>2, <2>2, <2>7, <2>8, PostStep
<1> QED BY <1>1, <1>3, <1>4 DEF Scan

\* The goroutine has read the descriptions (loadDescriptions).
LEMMA DescribeStep == ASSUME PickerInv, NEW w \in workers, Describe(w) PROVE PickerInv' /\ p' = p
<1> DEFINE post == [kind |-> "described", gen |-> w.gen, seen |-> w.seen, wanted |-> w.wanted]
<1>1. /\ w.step = "describing" /\ UNCHANGED <<p, ownerOn, given, loads, shows>>
      /\ workers' = workers \ {w} /\ posts' = Append(posts, post)
  BY DEF Describe
<1>2. /\ workers \in SUBSET LoadWorkers /\ w \in LoadWorkers /\ w.gen \in Nat /\ w.gen <= loads
      /\ \A v \in workers : v.gen <= loads
  <2>1. workers \in SUBSET LoadWorkers /\ w \in LoadWorkers
    BY DEF PickerInv, PickerStateTypes
  <2>2. w.gen \in Nat
    BY <2>1 DEF LoadWorkers
  <2> QED BY <2>1, <2>2 DEF PickerInv, GenerationsAreTaken
<1>3. post \in LoadPosts /\ post.gen = w.gen /\ post.kind = "described"
  BY <1>2 DEF LoadPosts, LoadWorkers
<1> HIDE DEF post
<1>4. ASSUME Open, w.gen # p.gen PROVE AnswersComeInOrder'
  <2>1. \A v : v.gen = p.gen => (v \in workers' <=> v \in workers)
    BY <1>1, <1>4
  <2> QED BY <1>1, <1>3, <1>4, <2>1, ForSomebodyElse
<1>5. ASSUME Open, w.gen = p.gen PROVE AnswersComeInOrder'
  <2>1. p.inFlight /\ Mine = {w}
        /\ IF p.source = p.gen THEN Mail = {} ELSE \E i \in DOMAIN posts : FirstAnswer(i)
    BY <1>1, <1>5, StageOfWorker
  <2>2. PICK n \in DOMAIN posts' :
            /\ posts'[n] = post /\ Mail' = Mail \cup {n}
            /\ \A i \in DOMAIN posts : i \in DOMAIN posts' /\ posts'[i] = posts[i] /\ i < n
    BY <1>1, <1>3, <1>5, PostedForMe
  <2>3. Mine' = {}
    BY <1>1, <2>1 DEF Mine
  <2>4. CASE p.source = p.gen
    <3>1. SecondAnswer(n)'
      BY <1>3, <2>1, <2>2, <2>3, <2>4 DEF SecondAnswer
    <3> QED BY <1>1, <2>1, <2>2, <2>4, <3>1 DEF AnswersComeInOrder
  <2>5. CASE p.source # p.gen
    <3>1. PICK i \in DOMAIN posts : FirstAnswer(i)
      BY <2>1, <2>5
    <3>2. i \in DOMAIN posts' /\ posts'[i] = posts[i] /\ i < n /\ Mail' = {i, n}
      BY <2>2, <3>1 DEF FirstAnswer
    <3>3. BothAnswers(i, n)'
      BY <1>3, <2>2, <2>3, <3>1, <3>2 DEF FirstAnswer, BothAnswers
    <3> QED BY <1>1, <2>1, <2>2, <2>5, <3>2, <3>3 DEF AnswersComeInOrder
  <2> QED BY <2>4, <2>5
<1>6. Open => AnswersComeInOrder'
  BY <1>4, <1>5
<1>7. workers' \in SUBSET LoadWorkers /\ \A v \in workers' : v.gen <= loads
  BY <1>1, <1>2
<1> QED BY <1>1, <1>2, <1>3, <1>6, <1>7, PostStep
\* The UI thread takes an answer of the load in flight: what is still to come.
LEMMA AnswerIsTaken ==
  ASSUME PickerInv, Open, posts # <<>>, posts' = Tail(posts), NEW post, post = Head(posts),
         post.kind # "browsed", post.gen = p.gen, p'.gen = p.gen, workers' = workers
  PROVE  /\ p.inFlight
         /\ post.kind = "failed" \/ (post.kind = "list" /\ post.final) \/ post.kind = "described" =>
              Mine' = {} /\ Mail' = {}
         /\ post.kind = "list" /\ ~post.final => Describing' \/ \E j \in DOMAIN posts' : SecondAnswer(j)'
         /\ post.kind = "described" => p.source = p.gen
<1>1. posts \in Seq(LoadPosts) /\ AnswersComeInOrder
  BY DEF PickerInv, PickerStateTypes
<1>2. /\ 1 \in DOMAIN posts /\ posts[1] = post
      /\ \A i \in DOMAIN posts : i \in Int /\ (i # 1 => i - 1 \in DOMAIN posts' /\ posts'[i - 1] = posts[i])
      /\ Mail' = {i - 1 : i \in Mail \ {1}}
  <2>1. \A i \in DOMAIN posts : i \in Int
    BY <1>1
  <2> QED BY <1>1, <2>1, MailIsTaken
<1>3. 1 \in Mail
  BY <1>2 DEF Mail
<1>4. Mine' = Mine
  BY DEF Mine
<1>5. p.inFlight
  BY <1>1, <1>3 DEF AnswersComeInOrder
<1>6. CASE p.source = p.gen
  <2>1. PICK i \in DOMAIN posts : SecondAnswer(i)
    BY <1>1, <1>3, <1>5, <1>6 DEF AnswersComeInOrder, Describing
  <2>2. i = 1 /\ Mine = {} /\ Mail = {1} /\ post.kind = "described"
    BY <1>2, <1>3, <2>1 DEF SecondAnswer
  <2> QED BY <1>2, <1>4, <1>5, <1>6, <2>2
<1>7. CASE p.source # p.gen
  <2>1. \/ \E i \in DOMAIN posts : LastAnswer(i) \/ FirstAnswer(i)
        \/ \E i, j \in DOMAIN posts : BothAnswers(i, j)
    BY <1>1, <1>3, <1>5, <1>7 DEF AnswersComeInOrder, Scanning
  <2>2. ASSUME NEW i \in DOMAIN posts, LastAnswer(i)
        PROVE  /\ Mine' = {} /\ Mail' = {}
               /\ post.kind = "failed" \/ (post.kind = "list" /\ post.final)
    <3>1. i = 1 /\ Mine = {} /\ Mail = {1}
      BY <1>3, <2>2 DEF LastAnswer
    <3> QED BY <1>2, <1>4, <2>2, <3>1 DEF LastAnswer
  <2>3. ASSUME NEW i \in DOMAIN posts, FirstAnswer(i)
        PROVE  Describing' /\ post.kind = "list" /\ ~post.final
    <3>1. i = 1 /\ Mail = {1}
      BY <1>3, <2>3 DEF FirstAnswer
    <3>2. Mail' = {}
      BY <1>2, <3>1
    <3> QED BY <1>2, <1>4, <2>3, <3>1, <3>2 DEF FirstAnswer, Describing
  <2>4. ASSUME NEW i \in DOMAIN posts, NEW j \in DOMAIN posts, BothAnswers(i, j)
        PROVE  j - 1 \in DOMAIN posts' /\ SecondAnswer(j - 1)' /\ post.kind = "list" /\ ~post.final
    <3>1. Mail = {i, j} /\ i < j /\ i \in Nat /\ j \in Nat /\ i >= 1
      BY <1>1, <2>4 DEF BothAnswers
    <3>2. i = 1 /\ j # 1
      BY <1>3, <3>1
    <3>3. Mail' = {j - 1} /\ j - 1 \in DOMAIN posts' /\ posts'[j - 1] = posts[j]
      BY <1>2, <3>1, <3>2
    <3> QED BY <1>2, <1>4, <2>4, <3>2, <3>3 DEF BothAnswers, SecondAnswer
  <2>5. CASE \E i \in DOMAIN posts : LastAnswer(i)
    BY <1>5, <2>2, <2>5
  <2>6. CASE \E i \in DOMAIN posts : FirstAnswer(i)
    BY <1>5, <2>3, <2>6
  <2>7. CASE \E i, j \in DOMAIN posts : BothAnswers(i, j)
    BY <1>5, <2>4, <2>7
  <2> QED BY <2>1, <2>5, <2>6, <2>7
<1> QED BY <1>6, <1>7

\* An answer that is somebody else's, or the description of a chosen file,
\* leaves the order of what is on its way to the picker.
LEMMA OtherIsTaken ==
  ASSUME PickerInv, Open, posts # <<>>, posts' = Tail(posts), workers' = workers,
         Head(posts).kind = "browsed" \/ Head(posts).gen # p.gen,
         p'.gen = p.gen, p'.inFlight = p.inFlight, p'.source = p.source
  PROVE  AnswersComeInOrder'
<1>1. posts \in Seq(LoadPosts) /\ AnswersComeInOrder
  BY DEF PickerInv, PickerStateTypes
<1>2. /\ 1 \in DOMAIN posts /\ posts[1] = Head(posts)
      /\ \A i \in DOMAIN posts : i # 1 => i - 1 \in DOMAIN posts' /\ posts'[i - 1] = posts[i]
      /\ Mail' = {i - 1 : i \in Mail \ {1}}
  BY <1>1, MailIsTaken
<1>3. 1 \notin Mail
  BY <1>2 DEF Mail
<1>4. Mail' = {i - 1 : i \in Mail}
  <2>1. Mail \ {1} = Mail
    BY <1>3
  <2> QED BY <1>2, <2>1
<1>5. \A i \in Mail : i - 1 \in DOMAIN posts' /\ posts'[i - 1] = posts[i]
  BY <1>2, <1>3 DEF Mail
<1>6. Mine' = Mine /\ Mine \subseteq workers'
  BY DEF Mine
<1> QED BY <1>1, <1>4, <1>5, <1>6, OrderIsKept

\* The head of the queue is gone: what that leaves of the invariant.
LEMMA AnswerStep ==
  ASSUME PickerInv, posts # <<>>, posts' = Tail(posts),
         UNCHANGED <<ownerOn, given, workers, loads, shows>>,
         IF Open
         THEN /\ p' \in Pickers /\ p'.phase # "initial" /\ IsFiniteSet(p'.selected)
              /\ SoundSelection(p') /\ StatusIsReady(p')
              /\ p'.gen = p.gen /\ p'.asked = p.asked /\ p'.source \in {p.source, p.gen}
         ELSE p' = p,
         AnswersComeInOrder', ViewFollowsLoad', HoldIsManual'
  PROVE  PickerInv'
<1>1. posts \in Seq(LoadPosts) /\ posts' \in Seq(LoadPosts)
      /\ \A i \in DOMAIN posts' : i + 1 \in DOMAIN posts /\ posts'[i] = posts[i + 1]
  <2>1. posts \in Seq(LoadPosts)
    BY DEF PickerInv, PickerStateTypes
  <2> QED BY <2>1
<1>2. Open' = Open
  BY PickersAreOpen DEF Open
<1>3. PickerStateTypes'
  BY <1>1, <1>2 DEF PickerInv, PickerStateTypes
<1>4. GenerationsAreTaken'
  <2>1. \A i \in DOMAIN posts' : posts'[i].kind # "browsed" => posts'[i].gen <= loads'
    BY <1>1 DEF PickerInv, GenerationsAreTaken
  <2>2. \A w \in workers' : w.gen <= loads'
    BY DEF PickerInv, GenerationsAreTaken
  <2>3. Open => p.gen \in Nat
    BY DEF PickerInv, PickerStateTypes, Pickers
  <2>4. Open' => p'.gen >= 1 /\ p'.gen <= loads' /\ p'.asked <= p'.gen /\ p'.source <= p'.gen
    BY <1>2, <2>3 DEF PickerInv, GenerationsAreTaken
  <2> QED BY <2>1, <2>2, <2>4 DEF GenerationsAreTaken
<1>5. OwnerComesBack'
  BY <1>2 DEF PickerInv, OwnerComesBack
<1>6. (Open => StatusIsReady(p) /\ SoundSelection(p))'
  BY <1>2
<1> QED BY <1>3, <1>4, <1>5, <1>6 DEF PickerInv
\* The list of a load: the view shows what it says, and is fresh.
LEMMA ListStep ==
  ASSUME PickerInv, Open, posts # <<>>, posts' = Tail(posts), NEW post \in LoadPosts,
         post = Head(posts), post.kind = "list", post.gen = p.gen, NEW same \in BOOLEAN,
         p' = Answered(p, post, same), UNCHANGED <<ownerOn, given, workers, loads, shows>>
  PROVE  PickerInv' /\ p'.selected = p.selected
<1>1. p \in Pickers /\ Answerable(p) /\ IsFiniteSet(p.selected)
  BY InvParts
<1> DEFINE r == Answered(p, post, same)
<1>2. /\ r \in Pickers /\ SoundSelection(r) /\ StatusIsReady(r) /\ AnswerAside(p, r)
      /\ post.final => r.inFlight = FALSE /\ r.phase = "ready"
      /\ ~post.final => r.inFlight = p.inFlight /\ r.phase \in {"ready", "enriching"}
      /\ p.mode = "automatic" => r.phase = "ready"
      /\ r.refreshOn = TRUE /\ r.source = post.gen /\ r.age = "fresh"
  BY <1>1, AnsweredList
<1>3. p' = r
  OBVIOUS
<1> HIDE DEF r
<1>4. /\ r.mode = p.mode /\ r.gen = p.gen /\ r.asked = p.asked /\ r.selected = p.selected
      /\ r.hold \in {"none", p.hold}
  BY <1>2 DEF AnswerAside
<1>5. /\ p.inFlight
      /\ post.final => Mine' = {} /\ Mail' = {}
      /\ ~post.final => Describing' \/ \E j \in DOMAIN posts' : SecondAnswer(j)'
  <2>1. p'.gen = p.gen /\ post.kind # "browsed"
    BY <1>3, <1>4
  <2> QED BY <2>1, AnswerIsTaken
<1>6. AnswersComeInOrder'
  <2>1. CASE post.final
    BY <1>2, <1>3, <1>5, <2>1 DEF AnswersComeInOrder
  <2>2. CASE ~post.final
    <3>1. p'.inFlight = p.inFlight /\ p'.source = p'.gen
      BY <1>2, <1>3, <1>4, <2>2
    <3> QED BY <1>5, <2>2, <3>1 DEF AnswersComeInOrder
  <2> QED BY <2>1, <2>2
<1>7. ViewFollowsLoad'
  <2>1. p.asked <= p.gen
    BY DEF PickerInv, GenerationsAreTaken
  <2>2. p'.inFlight = FALSE => p'.phase = "ready"
    <3>1. CASE post.final
      BY <1>2, <1>3, <3>1
    <3>2. CASE ~post.final
      <4>1. p'.inFlight = p.inFlight
        BY <1>2, <1>3, <3>2
      <4> QED BY <1>5, <4>1
    <3> QED BY <3>1, <3>2
  <2>3. ~p'.inFlight => p'.phase = "ready"
    <3>1. p'.inFlight \in BOOLEAN
      BY <1>2, <1>3 DEF Pickers
    <3> QED BY <2>2, <3>1
  <2> QED BY <1>2, <1>3, <1>4, <2>1, <2>3 DEF ViewFollowsLoad
<1>8. HoldIsManual'
  <2>1. p'.hold # "none" => p.hold # "none"
    BY <1>3, <1>4
  <2>2. p.hold # "none" => p.mode = "manual"
    BY DEF PickerInv, HoldIsManual
  <2> QED BY <1>2, <1>3, <1>4, <2>1, <2>2 DEF HoldIsManual
<1>9. /\ p' \in Pickers /\ p'.phase # "initial" /\ IsFiniteSet(p'.selected)
      /\ SoundSelection(p') /\ StatusIsReady(p')
      /\ p'.gen = p.gen /\ p'.asked = p.asked /\ p'.source \in {p.source, p.gen}
  <2>1. r.phase # "initial"
    BY <1>2
  <2> QED BY <1>1, <1>2, <1>3, <1>4, <2>1
<1>10. PickerInv'
  BY <1>6, <1>7, <1>8, <1>9, AnswerStep
<1> QED BY <1>3, <1>4, <1>10

\* The end of a load, with its descriptions or with an error.
LEMMA EndStep ==
  ASSUME PickerInv, Open, posts # <<>>, posts' = Tail(posts), NEW post \in LoadPosts,
         post = Head(posts), post.kind \in {"failed", "described"}, post.gen = p.gen,
         NEW same \in BOOLEAN, p' = Answered(p, post, same),
         UNCHANGED <<ownerOn, given, workers, loads, shows>>
  PROVE  PickerInv' /\ p'.selected = p.selected
<1>1. p \in Pickers /\ Answerable(p) /\ IsFiniteSet(p.selected)
  BY InvParts
<1> DEFINE r == Answered(p, post, same)
<1>2. /\ r \in Pickers /\ SoundSelection(r) /\ StatusIsReady(r) /\ AnswerAside(p, r)
      /\ r.inFlight = FALSE /\ r.refreshOn = TRUE /\ r.phase \in {"ready", "error"}
      /\ post.kind = "failed" => /\ r.phase = "ready" => p.phase = "ready"
                                 /\ r.source = p.source /\ r.hold = "none"
      /\ post.kind = "described" => r.source = p.gen /\ r.age = p.age
  <2>1. CASE post.kind = "failed"
    BY <1>1, <2>1, AnsweredFailed, ZenonT(40)
  <2>2. CASE post.kind = "described"
    BY <1>1, <2>2, AnsweredDescribed
  <2> QED BY <2>1, <2>2
<1>3. p' = r
  OBVIOUS
<1> HIDE DEF r
<1>4. /\ r.mode = p.mode /\ r.gen = p.gen /\ r.asked = p.asked /\ r.selected = p.selected
      /\ r.hold \in {"none", p.hold}
  BY <1>2 DEF AnswerAside
<1>5. Mine' = {} /\ Mail' = {} /\ (post.kind = "described" => p.source = p.gen)
  <2>1. p'.gen = p.gen /\ post.kind # "browsed"
    BY <1>3, <1>4
  <2> QED BY <2>1, AnswerIsTaken
<1>6. AnswersComeInOrder'
  BY <1>2, <1>3, <1>5 DEF AnswersComeInOrder
<1>7. ViewFollowsLoad'
  <2>1. p.asked <= p.gen /\ (p.phase = "ready" => p.source >= p.asked)
    BY DEF PickerInv, GenerationsAreTaken, ViewFollowsLoad
  <2>2. p'.phase = "ready" => p'.source >= p'.asked
    BY <1>2, <1>3, <1>4, <2>1
  <2> QED BY <1>2, <1>3, <1>4, <2>2 DEF ViewFollowsLoad
<1>8. HoldIsManual'
  <2>1. p'.hold # "none" => p.hold # "none" /\ post.kind = "described"
    BY <1>2, <1>3, <1>4
  <2>2. p.hold # "none" => p.mode = "manual" /\ (p.source = p.gen => p.age = "fresh")
    BY DEF PickerInv, HoldIsManual
  <2> QED BY <1>2, <1>3, <1>4, <1>5, <2>1, <2>2 DEF HoldIsManual
<1>9. /\ p' \in Pickers /\ p'.phase # "initial" /\ IsFiniteSet(p'.selected)
      /\ SoundSelection(p') /\ StatusIsReady(p')
      /\ p'.gen = p.gen /\ p'.asked = p.asked /\ p'.source \in {p.source, p.gen}
  <2>1. r.phase # "initial" /\ r.source \in {p.source, p.gen}
    BY <1>2
  <2> QED BY <1>1, <1>2, <1>3, <1>4, <2>1
<1>10. PickerInv'
  BY <1>6, <1>7, <1>8, <1>9, AnswerStep
<1> QED BY <1>3, <1>4, <1>10

\* The description of a file the user has chosen.
LEMMA BrowsedStep ==
  ASSUME PickerInv, Open, posts # <<>>, posts' = Tail(posts), NEW post \in LoadPosts,
         post = Head(posts), post.kind = "browsed", NEW same \in BOOLEAN,
         p' = Answered(p, post, same), UNCHANGED <<ownerOn, given, workers, loads, shows>>
  PROVE  PickerInv' /\ p'.selected = p.selected
<1> DEFINE known == p.tried \cup {post.key}
           r == [p EXCEPT !.tried = known]
<1>1. p \in Pickers /\ SoundSelection(p) /\ StatusIsReady(p) /\ IsFiniteSet(p.selected)
      /\ p.phase # "initial"
  BY InvParts
<1>2. p' = r
  BY DEF Answered
<1>3. known \in SUBSET Keys
  BY <1>1, PostKinds DEF Pickers, Keys
<1> HIDE DEF known
<1>4. /\ r \in Pickers /\ r.marks = p.marks /\ r.selected = p.selected
      /\ r.confirmOn = p.confirmOn /\ r.status = p.status /\ r.pending = p.pending
      /\ r.hold = p.hold /\ r.age = p.age
      /\ r.phase = p.phase /\ r.mode = p.mode /\ r.inFlight = p.inFlight /\ r.gen = p.gen
      /\ r.source = p.source /\ r.asked = p.asked /\ r.refreshOn = p.refreshOn
  BY <1>1, <1>3 DEF Pickers
<1> HIDE DEF r
<1>5. SoundSelection(r)
  BY <1>1, <1>4 DEF SoundSelection, MarkedAsSelected
<1>6. Results(r) = Results(p)
  BY <1>4 DEF Results
<1>7. StatusIsReady(r)
  BY <1>1, <1>4, <1>6 DEF StatusIsReady, TellsTruth
<1>8. AnswersComeInOrder'
  <2>1. p'.gen = p.gen /\ p'.inFlight = p.inFlight /\ p'.source = p.source
    BY <1>2, <1>4
  <2> QED BY <2>1, OtherIsTaken
<1>9. ViewFollowsLoad' /\ HoldIsManual'
  BY <1>2, <1>4 DEF PickerInv, ViewFollowsLoad, HoldIsManual
<1>10. /\ p' \in Pickers /\ p'.phase # "initial" /\ IsFiniteSet(p'.selected)
       /\ SoundSelection(p') /\ StatusIsReady(p')
       /\ p'.gen = p.gen /\ p'.asked = p.asked /\ p'.source \in {p.source, p.gen}
  BY <1>1, <1>2, <1>4, <1>5, <1>7
<1>11. PickerInv'
  BY <1>8, <1>9, <1>10, AnswerStep
<1> QED BY <1>2, <1>4, <1>11

\* The UI thread runs the first closure that waits for it.
LEMMA RunPostStep ==
  ASSUME PickerInv, RunPost
  PROVE  PickerInv' /\ (Open => p'.selected = p.selected)
<1>1. posts # <<>> /\ posts' = Tail(posts) /\ UNCHANGED <<ownerOn, given, workers, loads, shows>>
  BY DEF RunPost
<1> DEFINE post == Head(posts)
<1>2. PICK same \in BOOLEAN : p' = IF Awaited(post) THEN Answered(p, post, same) ELSE p
  BY DEF RunPost
<1>3. post \in LoadPosts
  BY <1>1 DEF PickerInv, PickerStateTypes
<1>4. CASE Awaited(post)
  <2>1. Open /\ p' = Answered(p, post, same) /\ (post.kind # "browsed" => post.gen = p.gen)
    BY <1>2, <1>4 DEF Awaited
  <2>2. CASE post.kind = "list"
    BY <1>1, <1>3, <2>1, <2>2, ListStep
  <2>3. CASE post.kind \in {"failed", "described"}
    BY <1>1, <1>3, <2>1, <2>3, EndStep
  <2>4. CASE post.kind = "browsed"
    BY <1>1, <1>3, <2>1, <2>4, BrowsedStep
  <2> QED BY <1>3, <2>2, <2>3, <2>4, PostKinds
<1>5. CASE ~Awaited(post)
  <2>1. p' = p
    BY <1>2, <1>5
  <2>2. AnswersComeInOrder'
    <3>1. CASE Open
      <4>1. post.kind = "browsed" \/ post.gen # p.gen
        BY <1>5, <3>1 DEF Awaited
      <4> QED BY <1>1, <2>1, <3>1, <4>1, OtherIsTaken
    <3>2. CASE ~Open
      BY <2>1, <3>2 DEF AnswersComeInOrder, Open
    <3> QED BY <3>1, <3>2
  <2>3. ViewFollowsLoad' /\ HoldIsManual'
    BY <2>1 DEF PickerInv, ViewFollowsLoad, HoldIsManual, Open
  <2>4. CASE Open
    <3> DEFINE q == p
    <3>1. /\ q \in Pickers /\ q.phase # "initial" /\ IsFiniteSet(q.selected)
          /\ SoundSelection(q) /\ StatusIsReady(q) /\ p = q /\ p' = q
      BY <2>1, <2>4, InvParts
    <3> HIDE DEF q
    <3>2. /\ p' \in Pickers /\ p'.phase # "initial" /\ IsFiniteSet(p'.selected)
          /\ SoundSelection(p') /\ StatusIsReady(p')
          /\ p'.gen = p.gen /\ p'.asked = p.asked /\ p'.source \in {p.source, p.gen}
      BY <3>1
    <3>3. PickerInv'
      BY <1>1, <2>2, <2>3, <2>4, <3>2, AnswerStep
    <3> QED BY <2>1, <3>3
  <2>5. CASE ~Open
    BY <1>1, <2>1, <2>2, <2>3, <2>5, AnswerStep
  <2> QED BY <2>4, <2>5
<1> QED BY <1>4, <1>5
-----------------------------------------------------------------------------
(* The picker, whatever happens to it *)

\* The invariant holds when the program has opened no picker yet.
LEMMA InitPickerInv == PickerInit => PickerInv
<1> SUFFICES ASSUME PickerInit PROVE PickerInv
  OBVIOUS
<1>1. ~Open
  BY DEF PickerInit, Open
<1>2. given \in SUBSET Keys /\ Normal(given) = given /\ IsFiniteSet(given)
  BY PickerAssumption DEF PickerInit
<1>3. PickerStateTypes
  BY <1>1, <1>2, PickerAssumption DEF PickerInit, PickerStateTypes
<1>4. GenerationsAreTaken
  BY <1>1 DEF PickerInit, GenerationsAreTaken
<1> QED BY <1>1, <1>3, <1>4 DEF PickerInv, PickerInit, AnswersComeInOrder, ViewFollowsLoad,
                               HoldIsManual, OwnerComesBack

\* What a step may do to the selection
SelectionStays ==
    /\ Open /\ p' # NoPicker /\ p'.selected # p.selected =>
             (\E v \in Names : Toggle(v)) \/ (\E path \in Paths : Browse(path))
    /\ Confirm => given' = p.selected
    /\ given' # given => Confirm

\* Every step keeps the invariant, and the selection is the user's.
LEMMA NextPickerInv ==
  ASSUME PickerInv, [PickerNext]_pickerVars
  PROVE  PickerInv' /\ SelectionStays
<1>0. Confirm => given' = p.selected
  BY ConfirmStep
<1>1. CASE Show
  <2>1. ~Open /\ given' = given
    BY <1>1 DEF Show
  <2> QED BY <1>0, <1>1, <2>1, ShowStep DEF SelectionStays
<1>2. CASE Close
  <2>1. p' = NoPicker /\ given' = given
    BY <1>2 DEF Close, Release
  <2> QED BY <1>0, <1>2, <2>1, CloseStep DEF SelectionStays
<1>3. CASE Confirm
  <2>1. p' = NoPicker
    BY <1>3 DEF Confirm, Release
  <2> QED BY <1>0, <1>3, <2>1, ConfirmStep DEF SelectionStays
<1>4. CASE Refresh
  <2>1. given' = given
    BY <1>4 DEF Refresh
  <2> QED BY <1>0, <1>4, <2>1, RefreshStep DEF SelectionStays
<1>5. CASE Activate
  <2>1. given' = given
    BY <1>5 DEF Activate
  <2> QED BY <1>0, <1>5, <2>1, ActivateStep DEF SelectionStays
<1>6. CASE OpenDialog
  <2>1. given' = given
    BY <1>6 DEF OpenDialog, Still
  <2> QED BY <1>0, <1>6, <2>1, OpenDialogStep DEF SelectionStays
<1>7. CASE DialogFails
  <2>1. given' = given
    BY <1>7 DEF DialogFails, Still
  <2> QED BY <1>0, <1>7, <2>1, DialogFailsStep DEF SelectionStays
<1>8. ASSUME NEW v \in Names, Toggle(v) PROVE PickerInv' /\ SelectionStays
  <2>1. given' = given
    BY <1>8 DEF Toggle, Still
  <2> QED BY <1>0, <1>8, <2>1, ToggleStep DEF SelectionStays
<1>9. ASSUME NEW text \in Texts, TypeText(text) PROVE PickerInv' /\ SelectionStays
  <2>1. given' = given
    BY <1>9 DEF TypeText, Still
  <2> QED BY <1>0, <1>9, <2>1, TypeTextStep DEF SelectionStays
<1>10. ASSUME NEW path \in Paths, Browse(path) PROVE PickerInv' /\ SelectionStays
  <2>1. given' = given
    BY <1>10 DEF Browse
  <2> QED BY <1>0, <1>10, <2>1, BrowseStep DEF SelectionStays
<1>11. ASSUME NEW w \in workers, Scan(w) \/ Describe(w) PROVE PickerInv' /\ SelectionStays
  <2>1. given' = given
    BY <1>11 DEF Scan, Describe
  <2>2. PickerInv' /\ p' = p
    BY <1>11, ScanStep, DescribeStep
  <2>3. p'.selected = p.selected
    BY <2>2
  <2> QED BY <1>0, <2>1, <2>2, <2>3 DEF SelectionStays
<1>12. CASE RunPost
  <2>1. given' = given
    BY <1>12 DEF RunPost
  <2> QED BY <1>0, <1>12, <2>1, RunPostStep DEF SelectionStays
<1>13. CASE ApplyFilter
  <2>1. given' = given
    BY <1>13 DEF ApplyFilter, Still
  <2> QED BY <1>0, <1>13, <2>1, ApplyFilterStep DEF SelectionStays
<1>14. CASE StatusTimer
  <2>1. given' = given
    BY <1>14 DEF StatusTimer, Still
  <2> QED BY <1>0, <1>14, <2>1, StatusTimerStep DEF SelectionStays
<1>15. CASE TimePasses
  <2>1. given' = given
    BY <1>15 DEF TimePasses, Still
  <2> QED BY <1>0, <1>15, <2>1, TimePassesStep DEF SelectionStays
<1>16. CASE UNCHANGED pickerVars
  <2>1. p' = p /\ UNCHANGED <<ownerOn, given, workers, posts, loads, shows>>
    BY <1>16 DEF pickerVars
  <2>2. SelectionStays
    BY <1>0, <2>1 DEF SelectionStays
  <2>3. /\ PickerStateTypes' /\ GenerationsAreTaken' /\ ViewFollowsLoad' /\ HoldIsManual'
        /\ OwnerComesBack'
    BY <2>1 DEF PickerInv, PickerStateTypes, GenerationsAreTaken, ViewFollowsLoad, HoldIsManual,
                OwnerComesBack, Open
  <2>4. AnswersComeInOrder'
    BY <2>1 DEF PickerInv, AnswersComeInOrder, Open, Mine, Mail, Describing, SecondAnswer,
                Scanning, LastAnswer, FirstAnswer, BothAnswers
  <2>5. (Open => StatusIsReady(p) /\ SoundSelection(p))'
    <3>1. CASE Open
      <4> DEFINE q == p
      <4>1. StatusIsReady(q) /\ SoundSelection(q) /\ p' = q
        BY <2>1, <3>1 DEF PickerInv
      <4> HIDE DEF q
      <4> QED BY <4>1
    <3>2. CASE ~Open
      BY <2>1, <3>2 DEF Open
    <3> QED BY <3>1, <3>2
  <2> QED BY <2>2, <2>3, <2>4, <2>5 DEF PickerInv
<1> QED BY <1>1, <1>2, <1>3, <1>4, <1>5, <1>6, <1>7, <1>8, <1>9, <1>10, <1>11, <1>12, <1>13,
           <1>14, <1>15, <1>16 DEF PickerNext, WorkerNext, UserNext

\* The invariant of the picker holds of every run.
THEOREM PickerInvariance == PickerSpec => []PickerInv
<1>1. PickerInv /\ [PickerNext]_pickerVars => PickerInv'
  BY NextPickerInv
<1> QED BY InitPickerInv, <1>1, PTL DEF PickerSpec

\* Marks, buttons, owner and answers fit together, whatever overtakes whatever
\* (finishLoad, releaseResources).
THEOREM PickerIsAlwaysSound == PickerSpec => []PickerIsSound
<1>1. PickerInv => PickerIsSound
  <2> SUFFICES ASSUME PickerInv PROVE PickerIsSound
    OBVIOUS
  <2>1. Open => p \in Pickers /\ p.phase # "initial"
    BY DEF PickerInv, PickerStateTypes
  <2>2. PickerTypes
    <3>1. Open =>
           /\ p.phase \in {"loading", "enriching", "ready", "error"}
           /\ p.mode \in {"initial", "automatic", "manual"} /\ p.age \in {"never", "fresh", "old"}
           /\ p.hold \in {"none", "running", "due"}
           /\ p.typed \in Texts
           /\ p.selected \subseteq Keys /\ p.tried \subseteq Keys
      BY <2>1 DEF Pickers
    <3>2. Open => p.items.live \subseteq Names /\ p.items.gone \subseteq Names
      BY <2>1 DEF Pickers, PickerItems
    <3>3. Open => DOMAIN p.marks \subseteq Names
      BY <2>1 DEF Pickers
    <3>4. Open => {p.inFlight, p.refreshOn, p.confirmOn, p.dialog} \subseteq BOOLEAN
      BY <2>1 DEF Pickers
    <3>5. loads \in 0 .. MaxLoads /\ shows \in 0 .. MaxShows /\ given \subseteq Keys
      BY DEF PickerInv, PickerStateTypes
    <3>6. Open => p.gen \in 1 .. loads
      <4>1. Open => p.gen \in Nat /\ p.gen >= 1 /\ p.gen <= loads
        BY <2>1 DEF PickerInv, GenerationsAreTaken, Pickers
      <4> QED BY <3>5, <4>1, PickerAssumption
    <3> QED BY <3>1, <3>2, <3>3, <3>4, <3>5, <3>6 DEF PickerTypes
  <2>3. SelectionIsSound
    BY DEF PickerInv, SelectionIsSound, SoundSelection, MarkedAsSelected
  <2>4. OwnerComesBack
    BY DEF PickerInv
  <2>5. AnswerIsOwed
    <3>1. CASE Open /\ p.inFlight
      <4>1. Mine # {} \/ Mail # {}
        BY <3>1 DEF PickerInv, AnswersComeInOrder, Describing, SecondAnswer, Scanning, LastAnswer,
                    FirstAnswer, BothAnswers
      <4>2. Owed
        BY <4>1 DEF Owed, Mine, Mail
      <4> QED BY <3>1, <4>2 DEF AnswerIsOwed
    <3>2. CASE Open /\ ~p.inFlight
      BY <3>2 DEF PickerInv, ViewFollowsLoad, AnswerIsOwed
    <3>3. CASE ~Open
      BY <3>3 DEF AnswerIsOwed
    <3> QED BY <3>1, <3>2, <3>3
  <2>6. AskedIsAnswered
    BY DEF PickerInv, ViewFollowsLoad, AskedIsAnswered
  <2> QED BY <2>2, <2>3, <2>4, <2>5, <2>6 DEF PickerIsSound
<1> QED BY <1>1, PickerInvariance, PTL

\* The status line tells the truth when no manual refresh holds its text
\* (setStatus, finishStatusHold).
THEOREM StatusIsAlwaysTrue == PickerSpec => []StatusIsTrue
<1>1. PickerInv => StatusIsTrue
  <2> SUFFICES ASSUME PickerInv, Open, p.hold = "none", Cardinality(p.selected) <= Limit
               PROVE  CASE p.status.kind = "loading" -> p.phase = "loading"
                        [] p.status.kind = "describing" -> p.phase = "enriching"
                        [] p.status.kind = "results" -> p.phase = "ready" /\ p.status = Results(p)
                        [] OTHER -> TRUE
    BY DEF StatusIsTrue
  <2>1. p.phase \in {"loading", "enriching", "ready", "error"} /\ StatusIsReady(p)
    BY DEF PickerInv, PickerStateTypes, Pickers
  <2>2. CASE p.phase = "ready"
    BY <2>1, <2>2 DEF StatusIsReady, TellsTruth
  <2>3. CASE p.phase = "loading"
    BY <2>1, <2>3 DEF StatusIsReady
  <2>4. CASE p.phase = "enriching"
    BY <2>1, <2>4 DEF StatusIsReady
  <2>5. CASE p.phase = "error"
    BY <2>1, <2>5 DEF StatusIsReady
  <2> QED BY <2>1, <2>2, <2>3, <2>4, <2>5
<1> QED BY <1>1, PickerInvariance, PTL

\* No load, no search and no late answer adds to the selection or takes from
\* it, and OnConfirm gets exactly it.
THEOREM SelectionIsAlwaysTheUsers == PickerSpec => SelectionIsTheUsers
<1>1. PickerInv /\ [PickerNext]_pickerVars => SelectionStays
  BY NextPickerInv
<1>2. PickerInv /\ [PickerNext]_pickerVars =>
        [/\ Open /\ p' # NoPicker /\ p'.selected # p.selected =>
               (\E v \in Names : Toggle(v)) \/ (\E path \in Paths : Browse(path))
         /\ Confirm => given' = p.selected
         /\ given' # given => Confirm]_pickerVars
  BY <1>1 DEF SelectionStays
<1> QED BY <1>2, PickerInvariance, PTL DEF PickerSpec, SelectionIsTheUsers

(***************************************************************************)
(* The control panel's frame                                               *)
(***************************************************************************)

FrameMessages == {"apply", "commit"} \cup ChoiceTriggers
Frames ==
    [monitor : DPIs, fonts : DPIs, bounds : DPIs, lost : SUBSET {"fonts", "place"},
     pending : DPIs \cup {0}, generation : Nat, ready : Nat, failures : Nat,
     applyPosted : BOOLEAN, commitPosted : BOOLEAN, transition : BOOLEAN, cloaked : BOOLEAN,
     msgs : Seq(FrameMessages), direct : {"none", "apply", "commit"}]

IsQueued(s, m) == \E i \in DOMAIN s : s[i] = m
Once(s, m) == \A i, j \in DOMAIN s : s[i] = m /\ s[j] = m => i = j

\* The flags say which of the two messages wait, and none waits beside a call
\* of its handler.
Flagged(f) ==
    /\ f.applyPosted = IsQueued(f.msgs, "apply") /\ f.commitPosted = IsQueued(f.msgs, "commit")
    /\ Once(f.msgs, "apply") /\ Once(f.msgs, "commit")
    /\ f.direct = "apply" => ~f.applyPosted
    /\ f.direct = "commit" => ~f.commitPosted

\* Fonts and bounds that Fits accepts
Made(f) ==
    /\ f.fonts = f.monitor \/ "fonts" \in f.lost
    /\ f.fonts = f.bounds \/ f.lost = {"fonts", "place"}

\* Until the last change is worked off, the window stands as Windows has placed
\* it and a message to build for it waits; what has been built for it fits.
WorkedOff(f) ==
    /\ f.ready <= f.generation
    /\ f.cloaked => f.pending # 0
    /\ f.pending # 0 => /\ f.pending = f.monitor
                        /\ f.ready # f.generation => f.bounds = f.pending
    /\ f.applyPosted \/ f.direct = "apply" => f.pending # 0 /\ f.ready # f.generation
    /\ f.pending = 0 \/ f.ready = f.generation => Made(f)

Coming(f) == f.applyPosted \/ f.commitPosted \/ f.direct # "none"

FrameIsSound(f) ==
    f \in Frames /\ Flagged(f) /\ WorkedOff(f) /\ (f.pending # 0 => Coming(f))

\* g is f, but for what is posted
PostsAside(f, g) ==
    /\ g.monitor = f.monitor /\ g.fonts = f.fonts /\ g.bounds = f.bounds /\ g.lost = f.lost
    /\ g.pending = f.pending /\ g.generation = f.generation /\ g.ready = f.ready
    /\ g.failures = f.failures /\ g.transition = f.transition /\ g.cloaked = f.cloaked

\* What is posted waits behind what waits.
LEMMA AppendWaits ==
  ASSUME NEW s \in Seq(FrameMessages), NEW m \in FrameMessages
  PROVE  /\ Append(s, m) \in Seq(FrameMessages)
         /\ \A x : IsQueued(Append(s, m), x) <=> IsQueued(s, x) \/ x = m
         /\ \A x : Once(s, x) /\ (x = m => ~IsQueued(s, x)) => Once(Append(s, m), x)
<1> DEFINE l == Append(s, m)
           n == Len(s) + 1
<1>1. /\ l \in Seq(FrameMessages) /\ DOMAIN l = 1 .. n /\ DOMAIN s = 1 .. Len(s)
      /\ Len(s) \in Nat /\ l[n] = m /\ \A i \in DOMAIN s : l[i] = s[i]
  OBVIOUS
<1>2. \A i \in DOMAIN l : i \in DOMAIN s \/ i = n
  BY <1>1
<1>3. n \in DOMAIN l /\ \A i \in DOMAIN s : i \in DOMAIN l
  BY <1>1
<1> HIDE DEF l, n
<1>4. \A x : IsQueued(l, x) <=> IsQueued(s, x) \/ x = m
  BY <1>1, <1>2, <1>3 DEF IsQueued
<1>5. \A x : Once(s, x) /\ (x = m => ~IsQueued(s, x)) => Once(l, x)
  BY <1>1, <1>2, <1>3 DEF Once, IsQueued
<1> QED BY <1>1, <1>4, <1>5 DEF l

\* What waits once does not wait any more when it has been taken.
LEMMA TailWaits ==
  ASSUME NEW s \in Seq(FrameMessages), s # <<>>
  PROVE  /\ Tail(s) \in Seq(FrameMessages)
         /\ \A x : Once(s, x) => Once(Tail(s), x)
         /\ \A x : x # Head(s) => (IsQueued(Tail(s), x) <=> IsQueued(s, x))
         /\ Once(s, Head(s)) => ~IsQueued(Tail(s), Head(s))
<1> DEFINE l == Tail(s)
<1>1. /\ l \in Seq(FrameMessages) /\ 1 \in DOMAIN s /\ s[1] = Head(s)
      /\ \A i \in DOMAIN l : i + 1 \in DOMAIN s /\ i + 1 # 1 /\ l[i] = s[i + 1]
      /\ \A i \in DOMAIN s : i # 1 => i - 1 \in DOMAIN l /\ l[i - 1] = s[i]
      /\ \A i, j \in DOMAIN l : i + 1 = j + 1 => i = j
  OBVIOUS
<1> HIDE DEF l
<1>2. \A x : Once(s, x) => Once(l, x)
  BY <1>1 DEF Once
<1>3. \A x : x # Head(s) => (IsQueued(l, x) <=> IsQueued(s, x))
  BY <1>1 DEF IsQueued
<1>4. Once(s, Head(s)) => ~IsQueued(l, Head(s))
  BY <1>1 DEF Once, IsQueued
<1> QED BY <1>1, <1>2, <1>3, <1>4 DEF l

\* A message is posted once, or its handler is called (ensureDPIApplyPosted).
LEMMA EnsureApplyFacts ==
  ASSUME NEW f \in Frames, Flagged(f), f.direct = "none", NEW posted \in BOOLEAN
  PROVE  LET r == EnsureApply(f, posted)
         IN  /\ r \in Frames /\ Flagged(r) /\ PostsAside(f, r) /\ Coming(r)
             /\ r.applyPosted \/ r.direct = "apply"
<1> DEFINE r == EnsureApply(f, posted)
<1>1. f.applyPosted \in BOOLEAN /\ f.commitPosted \in BOOLEAN /\ f.msgs \in Seq(FrameMessages)
  BY DEF Frames
<1>2. CASE f.applyPosted
  <2>1. r = f
    BY <1>2 DEF EnsureApply
  <2> QED BY <1>2, <2>1 DEF PostsAside, Coming
<1>3. CASE ~f.applyPosted /\ posted
  <2> DEFINE l == Append(f.msgs, "apply")
  <2>1. r = [f EXCEPT !.applyPosted = TRUE, !.msgs = l]
    BY <1>3 DEF EnsureApply
  <2>2. "apply" \in FrameMessages
    BY DEF FrameMessages
  <2>3. /\ l \in Seq(FrameMessages)
        /\ \A x : IsQueued(l, x) <=> IsQueued(f.msgs, x) \/ x = "apply"
        /\ \A x : Once(f.msgs, x) /\ (x = "apply" => ~IsQueued(f.msgs, x)) => Once(l, x)
    BY <1>1, <2>2, AppendWaits
  <2> HIDE DEF l, r
  <2>4. /\ r \in Frames /\ r.applyPosted = TRUE /\ r.msgs = l /\ r.direct = "none"
        /\ r.commitPosted = f.commitPosted
    BY <2>1, <2>3 DEF Frames
  <2>5. PostsAside(f, r)
    BY <2>1 DEF Frames, PostsAside
  <2>6. IsQueued(l, "apply") = TRUE /\ IsQueued(l, "commit") = IsQueued(f.msgs, "commit")
    <3>1. IsQueued(l, "apply") /\ (IsQueued(l, "commit") <=> IsQueued(f.msgs, "commit"))
      BY <2>3
    <3> QED BY <3>1 DEF IsQueued
  <2>7. Once(l, "apply") /\ Once(l, "commit")
    <3>1. ~IsQueued(f.msgs, "apply") /\ Once(f.msgs, "apply") /\ Once(f.msgs, "commit")
      BY <1>1, <1>3 DEF Flagged
    <3> QED BY <2>3, <3>1
  <2>8. Flagged(r)
    BY <2>4, <2>6, <2>7 DEF Flagged
  <2> QED BY <2>4, <2>5, <2>8 DEF Coming, r
<1>4. CASE ~f.applyPosted /\ ~posted
  <2>1. r = [f EXCEPT !.direct = "apply"]
    BY <1>4 DEF EnsureApply
  <2> HIDE DEF r
  <2>2. /\ r \in Frames /\ r.applyPosted = f.applyPosted /\ r.commitPosted = f.commitPosted
        /\ r.msgs = f.msgs /\ r.direct = "apply" /\ PostsAside(f, r)
    BY <2>1 DEF Frames, PostsAside
  <2>3. Flagged(r)
    BY <1>4, <2>2 DEF Flagged
  <2> QED BY <2>2, <2>3 DEF Coming, r
<1> QED BY <1>2, <1>3, <1>4

\* The same of the message that shows what was built (ensureDPICommitPosted).
LEMMA EnsureCommitFacts ==
  ASSUME NEW f \in Frames, Flagged(f), f.direct = "none", NEW posted \in BOOLEAN
  PROVE  LET r == EnsureCommit(f, posted)
         IN  /\ r \in Frames /\ Flagged(r) /\ PostsAside(f, r) /\ Coming(r)
             /\ r.applyPosted = f.applyPosted /\ r.direct # "apply"
<1> DEFINE r == EnsureCommit(f, posted)
<1>1. f.applyPosted \in BOOLEAN /\ f.commitPosted \in BOOLEAN /\ f.msgs \in Seq(FrameMessages)
  BY DEF Frames
<1>2. CASE f.commitPosted
  <2>1. r = f
    BY <1>2 DEF EnsureCommit
  <2> QED BY <1>2, <2>1 DEF PostsAside, Coming
<1>3. CASE ~f.commitPosted /\ posted
  <2> DEFINE l == Append(f.msgs, "commit")
  <2>1. r = [f EXCEPT !.commitPosted = TRUE, !.msgs = l]
    BY <1>3 DEF EnsureCommit
  <2>2. "commit" \in FrameMessages
    BY DEF FrameMessages
  <2>3. /\ l \in Seq(FrameMessages)
        /\ \A x : IsQueued(l, x) <=> IsQueued(f.msgs, x) \/ x = "commit"
        /\ \A x : Once(f.msgs, x) /\ (x = "commit" => ~IsQueued(f.msgs, x)) => Once(l, x)
    BY <1>1, <2>2, AppendWaits
  <2> HIDE DEF l, r
  <2>4. /\ r \in Frames /\ r.commitPosted = TRUE /\ r.msgs = l /\ r.direct = "none"
        /\ r.applyPosted = f.applyPosted
    BY <2>1, <2>3 DEF Frames
  <2>5. PostsAside(f, r)
    BY <2>1 DEF Frames, PostsAside
  <2>6. IsQueued(l, "commit") = TRUE /\ IsQueued(l, "apply") = IsQueued(f.msgs, "apply")
    <3>1. IsQueued(l, "commit") /\ (IsQueued(l, "apply") <=> IsQueued(f.msgs, "apply"))
      BY <2>3
    <3> QED BY <3>1 DEF IsQueued
  <2>7. Once(l, "apply") /\ Once(l, "commit")
    <3>1. ~IsQueued(f.msgs, "commit") /\ Once(f.msgs, "apply") /\ Once(f.msgs, "commit")
      BY <1>1, <1>3 DEF Flagged
    <3> QED BY <2>3, <3>1
  <2>8. Flagged(r)
    BY <2>4, <2>6, <2>7 DEF Flagged
  <2> QED BY <2>4, <2>5, <2>8 DEF Coming, r
<1>4. CASE ~f.commitPosted /\ ~posted
  <2>1. r = [f EXCEPT !.direct = "commit"]
    BY <1>4 DEF EnsureCommit
  <2> HIDE DEF r
  <2>2. /\ r \in Frames /\ r.applyPosted = f.applyPosted /\ r.commitPosted = f.commitPosted
        /\ r.msgs = f.msgs /\ r.direct = "commit" /\ PostsAside(f, r)
    BY <2>1 DEF Frames, PostsAside
  <2>3. Flagged(r)
    BY <1>4, <2>2 DEF Flagged
  <2> QED BY <2>2, <2>3 DEF Coming, r
<1> QED BY <1>2, <1>3, <1>4

\* r has neither call nor message of m any more, and nothing else of f is gone.
TookOne(f, r, m) ==
    /\ r.direct = "none"
    /\ m = "apply" => r.applyPosted = FALSE /\ r.commitPosted = f.commitPosted
    /\ m = "commit" => r.commitPosted = FALSE /\ r.applyPosted = f.applyPosted

\* The handler of a message takes it from the queue, or is called in place.
LEMMA TakenFacts ==
  ASSUME NEW f \in Frames, Flagged(f), NEW m \in {"apply", "commit"},
         f.direct = m \/ (f.direct = "none" /\ f.msgs # <<>> /\ Head(f.msgs) = m)
  PROVE  LET r == Taken(f, m)
         IN  r \in Frames /\ Flagged(r) /\ PostsAside(f, r) /\ TookOne(f, r, m)
<1>1. f.applyPosted \in BOOLEAN /\ f.commitPosted \in BOOLEAN /\ f.msgs \in Seq(FrameMessages)
  BY DEF Frames
<1> DEFINE g == IF f.direct = m THEN [f EXCEPT !.direct = "none"] ELSE [f EXCEPT !.msgs = Tail(@)]
           r == IF m = "apply" THEN [g EXCEPT !.applyPosted = FALSE]
                               ELSE [g EXCEPT !.commitPosted = FALSE]
<1>2. Taken(f, m) = r
  BY DEF Taken
<1>3. /\ g \in Frames /\ PostsAside(f, g) /\ g.direct = "none"
      /\ g.applyPosted = f.applyPosted /\ g.commitPosted = f.commitPosted
      /\ Once(g.msgs, "apply") /\ Once(g.msgs, "commit")
      /\ ~IsQueued(g.msgs, m)
      /\ \A x : x # m => (IsQueued(g.msgs, x) <=> IsQueued(f.msgs, x))
  <2>0. Once(f.msgs, "apply") /\ Once(f.msgs, "commit")
    BY DEF Flagged
  <2>1. CASE f.direct = m
    <3>1. g = [f EXCEPT !.direct = "none"]
      BY <2>1
    <3> HIDE DEF g
    <3>2. g \in Frames /\ g.msgs = f.msgs /\ g.direct = "none" /\ PostsAside(f, g)
          /\ g.applyPosted = f.applyPosted /\ g.commitPosted = f.commitPosted
      BY <3>1 DEF Frames, PostsAside
    <3>3. ~IsQueued(f.msgs, m)
      BY <1>1, <2>1 DEF Flagged
    <3> QED BY <2>0, <3>2, <3>3
  <2>2. CASE f.direct # m
    <3> DEFINE l == Tail(f.msgs)
    <3>1. f.direct = "none" /\ f.msgs # <<>> /\ Head(f.msgs) = m
      BY <2>2
    <3>2. g = [f EXCEPT !.msgs = l]
      BY <2>2
    <3> DEFINE s == f.msgs
    <3>3. /\ l \in Seq(FrameMessages)
          /\ \A x : Once(s, x) => Once(l, x)
          /\ \A x : x # m => (IsQueued(l, x) <=> IsQueued(s, x))
          /\ Once(s, m) => ~IsQueued(l, m)
      <4>1. s \in Seq(FrameMessages) /\ s # <<>> /\ Head(s) = m /\ l = Tail(s)
        BY <1>1, <3>1
      <4> HIDE DEF s, l
      <4> QED BY <4>1, TailWaits
    <3> HIDE DEF g, l
    <3>4. g \in Frames /\ g.msgs = l /\ g.direct = "none" /\ PostsAside(f, g)
          /\ g.applyPosted = f.applyPosted /\ g.commitPosted = f.commitPosted
      BY <3>1, <3>2, <3>3 DEF Frames, PostsAside
    <3> QED BY <2>0, <3>3, <3>4
  <2> QED BY <2>1, <2>2
<1> HIDE DEF g
<1>4. CASE m = "apply"
  <2>1. r = [g EXCEPT !.applyPosted = FALSE]
    BY <1>4
  <2> HIDE DEF r
  <2>2. /\ r \in Frames /\ r.applyPosted = FALSE /\ r.commitPosted = f.commitPosted
        /\ r.msgs = g.msgs /\ r.direct = "none" /\ PostsAside(f, r)
    BY <1>3, <2>1 DEF Frames, PostsAside
  <2>3. IsQueued(r.msgs, "apply") = FALSE /\ IsQueued(r.msgs, "commit") = IsQueued(f.msgs, "commit")
    <3>1. ~IsQueued(r.msgs, "apply") /\ (IsQueued(r.msgs, "commit") <=> IsQueued(f.msgs, "commit"))
      BY <1>3, <1>4, <2>2
    <3> QED BY <3>1 DEF IsQueued
  <2>4. Flagged(r)
    BY <1>3, <2>2, <2>3 DEF Flagged
  <2>5. TookOne(f, r, m)
    BY <1>4, <2>2 DEF TookOne
  <2> QED BY <1>2, <2>2, <2>4, <2>5 DEF r
<1>5. CASE m = "commit"
  <2>1. r = [g EXCEPT !.commitPosted = FALSE]
    BY <1>5
  <2> HIDE DEF r
  <2>2. /\ r \in Frames /\ r.commitPosted = FALSE /\ r.applyPosted = f.applyPosted
        /\ r.msgs = g.msgs /\ r.direct = "none" /\ PostsAside(f, r)
    BY <1>3, <2>1 DEF Frames, PostsAside
  <2>3. IsQueued(r.msgs, "commit") = FALSE /\ IsQueued(r.msgs, "apply") = IsQueued(f.msgs, "apply")
    <3>1. ~IsQueued(r.msgs, "commit") /\ (IsQueued(r.msgs, "apply") <=> IsQueued(f.msgs, "apply"))
      BY <1>3, <1>5, <2>2
    <3> QED BY <3>1 DEF IsQueued
  <2>4. Flagged(r)
    BY <1>3, <2>2, <2>3 DEF Flagged
  <2>5. TookOne(f, r, m)
    BY <1>5, <2>2 DEF TookOne
  <2> QED BY <1>2, <2>2, <2>4, <2>5 DEF r
<1> QED BY <1>4, <1>5

\* WM_DPICHANGED, whatever the frame had come to (queueDPIChange).
LEMMA QueueDPIFacts ==
  ASSUME NEW f \in Frames, Flagged(f), f.direct = "none", f.ready <= f.generation,
         NEW dpi \in DPIs, NEW posted \in BOOLEAN
  PROVE  FrameIsSound(QueueDPI(f, dpi, posted))
<1> DEFINE c == IF f.transition THEN f ELSE Cloaked(f)
           n == f.generation + 1
           q == [c EXCEPT !.monitor = dpi, !.pending = dpi, !.generation = n,
                          !.transition = TRUE, !.bounds = dpi]
           r == EnsureApply(q, posted)
<1>1. /\ c \in Frames /\ c.ready = f.ready /\ c.generation = f.generation /\ c.direct = f.direct
      /\ c.msgs = f.msgs /\ c.applyPosted = f.applyPosted /\ c.commitPosted = f.commitPosted
  BY DEF Frames, Cloaked
<1>2. QueueDPI(f, dpi, posted) = r
  BY <1>1 DEF QueueDPI
<1>3. n \in Nat /\ f.ready \in Nat /\ f.ready # n /\ f.ready <= n /\ dpi # 0
  BY DPIAssumption DEF Frames
<1> HIDE DEF c, n
<1>4. /\ q \in Frames /\ q.monitor = dpi /\ q.pending = dpi /\ q.generation = n /\ q.bounds = dpi
      /\ q.ready = f.ready /\ q.direct = "none" /\ q.msgs = f.msgs
      /\ q.applyPosted = f.applyPosted /\ q.commitPosted = f.commitPosted
  BY <1>1, <1>3 DEF Frames
<1> HIDE DEF q
<1>5. Flagged(q)
  BY <1>4 DEF Flagged
<1>6. /\ r \in Frames /\ Flagged(r) /\ PostsAside(q, r) /\ Coming(r)
      /\ r.applyPosted \/ r.direct = "apply"
  BY <1>4, <1>5, EnsureApplyFacts
<1> HIDE DEF r
<1>7. WorkedOff(r)
  BY <1>3, <1>4, <1>6 DEF PostsAside, WorkedOff
<1> QED BY <1>2, <1>6, <1>7 DEF FrameIsSound

\* A window that is made waits for nothing.
LEMMA NewFrameFacts ==
  ASSUME NEW dpi \in DPIs
  PROVE  /\ NewFrame(dpi) \in Frames /\ FrameIsSound(NewFrame(dpi))
         /\ NewFrame(dpi).direct = "none"
<1> DEFINE r == NewFrame(dpi)
           s == <<>>
<1>1. s \in Seq(FrameMessages) /\ ~IsQueued(s, "apply") /\ ~IsQueued(s, "commit")
      /\ Once(s, "apply") /\ Once(s, "commit")
  BY DEF IsQueued, Once
<1>2. r = [monitor |-> dpi, fonts |-> dpi, bounds |-> dpi, lost |-> {},
           pending |-> 0, generation |-> 0, ready |-> 0, failures |-> 0,
           applyPosted |-> FALSE, commitPosted |-> FALSE, transition |-> FALSE,
           cloaked |-> FALSE, msgs |-> s, direct |-> "none"]
  BY DEF NewFrame
<1>3. (IsQueued(s, "apply") = FALSE) /\ (IsQueued(s, "commit") = FALSE)
  BY <1>1 DEF IsQueued
<1> HIDE DEF r, s
<1>4. /\ r \in Frames /\ r.monitor = dpi /\ r.fonts = dpi /\ r.bounds = dpi /\ r.pending = 0
      /\ r.generation = 0 /\ r.ready = 0 /\ r.applyPosted = FALSE /\ r.commitPosted = FALSE
      /\ r.cloaked = FALSE /\ r.msgs = s /\ r.direct = "none"
  BY <1>1, <1>2 DEF Frames
<1>5. Flagged(r)
  BY <1>1, <1>3, <1>4 DEF Flagged
<1>6. WorkedOff(r)
  BY <1>4 DEF WorkedOff, Made
<1> QED BY <1>4, <1>5, <1>6 DEF FrameIsSound, r

\* wmApplyDPI: what is built fits, or the change that came in between waits for
\* its own message (applyPendingDPI).
LEMMA ApplyDPIFacts ==
  ASSUME NEW f, FrameIsSound(f), NEW lost \in SUBSET {"fonts", "place"},
         NEW nested \in DPIs \cup {0}, NEW posted \in BOOLEAN,
         f.direct = "apply" \/ (f.direct = "none" /\ f.msgs # <<>> /\ Head(f.msgs) = "apply")
  PROVE  FrameIsSound(ApplyDPI(f, lost, nested, posted))
<1>0. f \in Frames /\ Flagged(f) /\ WorkedOff(f)
  BY DEF FrameIsSound
<1> DEFINE g == Taken(f, "apply")
<1>1. g \in Frames /\ Flagged(g) /\ PostsAside(f, g) /\ TookOne(f, g, "apply")
  <2> DEFINE m == "apply"
  <2>1. m \in {"apply", "commit"}
        /\ (f.direct = m \/ (f.direct = "none" /\ f.msgs # <<>> /\ Head(f.msgs) = m))
    OBVIOUS
  <2> HIDE DEF m
  <2>2. LET r == Taken(f, m)
        IN  r \in Frames /\ Flagged(r) /\ PostsAside(f, r) /\ TookOne(f, r, m)
    BY <1>0, <2>1, TakenFacts
  <2> QED BY <2>2 DEF m
<1>2. f.pending # 0 /\ f.ready # f.generation /\ f.bounds = f.pending /\ f.pending = f.monitor
  <2>1. f.applyPosted \/ f.direct = "apply"
    <3>1. CASE f.direct = "none" /\ f.msgs # <<>> /\ Head(f.msgs) = "apply"
      <4>1. f.msgs \in Seq(FrameMessages)
        BY <1>0 DEF Frames
      <4>2. 1 \in DOMAIN f.msgs /\ f.msgs[1] = "apply"
        BY <3>1, <4>1
      <4>3. IsQueued(f.msgs, "apply")
        BY <4>2 DEF IsQueued
      <4> QED BY <1>0, <4>3 DEF Flagged
    <3> QED BY <3>1
  <2> QED BY <1>0, <2>1 DEF WorkedOff
<1> DEFINE fonts == IF "fonts" \in lost THEN g.fonts ELSE g.pending
           h == [g EXCEPT !.fonts = fonts, !.lost = lost]
           bounds == IF "place" \in lost THEN h.bounds ELSE h.fonts
           built == [h EXCEPT !.bounds = bounds]
<1>3. /\ g.pending # 0 /\ g.bounds = g.pending /\ g.pending = g.monitor /\ g.pending \in DPIs
      /\ g.direct = "none" /\ g.applyPosted = FALSE /\ g.ready <= g.generation
      /\ g.fonts \in DPIs /\ g.bounds \in DPIs
  <2>1. g.ready <= g.generation
    BY <1>0, <1>1 DEF PostsAside, WorkedOff
  <2> QED BY <1>1, <1>2, <2>1 DEF PostsAside, TookOne, Frames
<1>4. ApplyDPI(f, lost, nested, posted)
        = IF nested # 0 THEN QueueDPI(built, nested, TRUE)
          ELSE EnsureCommit([built EXCEPT !.ready = built.generation], posted)
  BY <1>3 DEF ApplyDPI, Placed, Refonted
<1> HIDE DEF g
<1>5. fonts \in DPIs
  BY <1>3
<1>6. ("fonts" \notin lost => fonts = g.pending)
  OBVIOUS
<1> HIDE DEF fonts
<1>7. /\ h \in Frames /\ h.fonts = fonts /\ h.lost = lost
      /\ h.bounds = g.bounds /\ h.pending = g.pending /\ h.monitor = g.monitor
      /\ h.generation = g.generation /\ h.ready = g.ready /\ h.direct = "none"
      /\ h.applyPosted = FALSE /\ h.commitPosted = g.commitPosted /\ h.msgs = g.msgs
      /\ h.cloaked = g.cloaked
  BY <1>1, <1>3, <1>5 DEF Frames
<1> HIDE DEF h
<1>8. bounds \in DPIs /\ ("place" \in lost => bounds = g.pending) /\ ("place" \notin lost => bounds = fonts)
  BY <1>3, <1>5, <1>7
<1> HIDE DEF bounds
<1>9. /\ built \in Frames /\ built.fonts = fonts /\ built.lost = lost /\ built.bounds = bounds
      /\ built.pending = g.pending /\ built.monitor = g.pending
      /\ built.generation = g.generation /\ built.ready = g.ready /\ built.direct = "none"
      /\ built.applyPosted = FALSE /\ built.commitPosted = g.commitPosted /\ built.msgs = g.msgs
      /\ built.cloaked = g.cloaked
  BY <1>3, <1>7, <1>8 DEF Frames
<1>10. built.applyPosted = g.applyPosted /\ built.direct = g.direct
  BY <1>3, <1>9
<1> HIDE DEF built
<1>11. Made(built)
  <2>1. CASE "fonts" \notin lost
    BY <1>6, <1>8, <1>9, <2>1 DEF Made
  <2>2. CASE "fonts" \in lost /\ "place" \notin lost
    BY <1>8, <1>9, <2>2 DEF Made
  <2>3. CASE "fonts" \in lost /\ "place" \in lost
    <3>1. lost = {"fonts", "place"}
      BY <2>3
    <3> QED BY <1>9, <2>3, <3>1 DEF Made
  <2> QED BY <2>1, <2>2, <2>3
<1>12. Flagged(built)
  BY <1>1, <1>9, <1>10 DEF Flagged
<1>13. CASE nested # 0
  <2>1. nested \in DPIs /\ built.ready <= built.generation
    BY <1>3, <1>9, <1>13
  <2> DEFINE yes == TRUE
  <2>2. yes \in BOOLEAN
    OBVIOUS
  <2> HIDE DEF yes
  <2>3. FrameIsSound(QueueDPI(built, nested, yes))
    BY <1>9, <1>12, <2>1, <2>2, QueueDPIFacts
  <2> QED BY <1>4, <1>13, <2>3 DEF yes
<1>14. CASE nested = 0
  <2> DEFINE n == built.generation
             q == [built EXCEPT !.ready = n]
             r == EnsureCommit(q, posted)
  <2>1. n \in Nat
    BY <1>9 DEF Frames
  <2>2. n = built.generation
    OBVIOUS
  <2> HIDE DEF n
  <2>3. /\ q \in Frames /\ q.fonts = built.fonts /\ q.lost = built.lost /\ q.bounds = built.bounds
        /\ q.pending = built.pending /\ q.monitor = built.monitor /\ q.generation = n
        /\ q.ready = n /\ q.direct = built.direct /\ q.applyPosted = built.applyPosted
        /\ q.commitPosted = built.commitPosted /\ q.msgs = built.msgs
    BY <1>9, <2>1, <2>2 DEF Frames
  <2> HIDE DEF q
  <2>4. Flagged(q) /\ Made(q)
    BY <1>11, <1>12, <2>3 DEF Flagged, Made
  <2>5. q.direct = "none" /\ q.applyPosted = FALSE
    BY <1>9, <2>3
  <2>6. /\ r \in Frames /\ Flagged(r) /\ PostsAside(q, r) /\ Coming(r)
        /\ r.applyPosted = q.applyPosted /\ r.direct # "apply"
    BY <2>3, <2>4, <2>5, EnsureCommitFacts
  <2> HIDE DEF r
  <2>7. Made(r)
    BY <2>4, <2>6 DEF Made, PostsAside
  <2>8. r.pending # 0 /\ r.pending = r.monitor /\ r.ready = r.generation /\ r.ready <= r.generation
    BY <1>3, <1>9, <2>1, <2>3, <2>6 DEF PostsAside
  <2>9. WorkedOff(r)
    BY <2>5, <2>6, <2>7, <2>8 DEF WorkedOff
  <2> QED BY <1>4, <1>14, <2>2, <2>6, <2>9 DEF FrameIsSound, r, q
<1> QED BY <1>13, <1>14

\* wmCommitDPI: what fits is shown, tried again or given up with its window;
\* what is out of date waits for what replaces it (commitPendingDPI).
LEMMA CommitDPIFacts ==
  ASSUME NEW f, FrameIsSound(f), NEW fits \in BOOLEAN, NEW posted \in BOOLEAN,
         f.direct = "commit" \/ (f.direct = "none" /\ f.msgs # <<>> /\ Head(f.msgs) = "commit")
  PROVE  CommitDPI(f, fits, posted) = NoFrame \/ FrameIsSound(CommitDPI(f, fits, posted))
<1>0. f \in Frames /\ Flagged(f) /\ WorkedOff(f)
  BY DEF FrameIsSound
<1> DEFINE g == Taken(f, "commit")
<1>1. g \in Frames /\ Flagged(g) /\ PostsAside(f, g) /\ TookOne(f, g, "commit")
  <2> DEFINE m == "commit"
  <2>1. m \in {"apply", "commit"}
        /\ (f.direct = m \/ (f.direct = "none" /\ f.msgs # <<>> /\ Head(f.msgs) = m))
    OBVIOUS
  <2> HIDE DEF m
  <2>2. LET r == Taken(f, m)
        IN  r \in Frames /\ Flagged(r) /\ PostsAside(f, r) /\ TookOne(f, r, m)
    BY <1>0, <2>1, TakenFacts
  <2> QED BY <2>2 DEF m
<1> DEFINE n == g.failures + 1
           again == [g EXCEPT !.failures = n]
<1>2. CommitDPI(f, fits, posted)
        = IF g.pending = 0 THEN g
          ELSE IF g.ready # g.generation THEN EnsureApply(g, posted)
          ELSE IF fits THEN Settled(g)
          ELSE IF n < 3 THEN EnsureCommit(again, posted)
          ELSE NoFrame
  BY DEF CommitDPI
<1>3. g.direct = "none" /\ g.commitPosted = FALSE /\ g.applyPosted = f.applyPosted
  BY <1>1 DEF TookOne
<1>4. WorkedOff(g)
  BY <1>0, <1>1, <1>3 DEF WorkedOff, PostsAside, Made
<1>5. n \in Nat
  BY <1>1 DEF Frames
<1> HIDE DEF g, n
<1>6. CASE g.pending = 0
  BY <1>1, <1>2, <1>4, <1>6 DEF FrameIsSound
<1>7. CASE g.pending # 0 /\ g.ready # g.generation
  <2> DEFINE r == EnsureApply(g, posted)
  <2>1. /\ r \in Frames /\ Flagged(r) /\ PostsAside(g, r) /\ Coming(r)
        /\ r.applyPosted \/ r.direct = "apply"
    BY <1>1, <1>3, EnsureApplyFacts
  <2>2. CommitDPI(f, fits, posted) = r
    BY <1>2, <1>7
  <2> HIDE DEF r
  <2>3. WorkedOff(r)
    BY <1>4, <1>7, <2>1 DEF WorkedOff, PostsAside
  <2> QED BY <2>1, <2>2, <2>3 DEF FrameIsSound
<1>8. CASE g.pending # 0 /\ g.ready = g.generation /\ fits
  <2> DEFINE c == [g EXCEPT !.cloaked = FALSE]
             r == [c EXCEPT !.transition = FALSE, !.pending = 0, !.failures = 0]
  <2>1. CommitDPI(f, fits, posted) = r
    BY <1>2, <1>8 DEF Settled, Presented
  <2>2. /\ c \in Frames /\ c.cloaked = FALSE
        /\ c.fonts = g.fonts /\ c.bounds = g.bounds /\ c.lost = g.lost /\ c.monitor = g.monitor
        /\ c.generation = g.generation /\ c.ready = g.ready /\ c.msgs = g.msgs
        /\ c.applyPosted = g.applyPosted /\ c.commitPosted = g.commitPosted
        /\ c.direct = g.direct
    BY <1>1 DEF Frames, PostsAside
  <2> HIDE DEF c
  <2>3. /\ r \in Frames /\ r.cloaked = FALSE /\ r.pending = 0
        /\ r.fonts = g.fonts /\ r.bounds = g.bounds /\ r.lost = g.lost /\ r.monitor = g.monitor
        /\ r.generation = g.generation /\ r.ready = g.ready /\ r.msgs = g.msgs
        /\ r.applyPosted = g.applyPosted /\ r.commitPosted = g.commitPosted
        /\ r.direct = g.direct
    BY <2>2 DEF Frames
  <2> HIDE DEF r
  <2>4. Flagged(r)
    BY <1>1, <2>3 DEF Flagged
  <2>5. WorkedOff(r)
    BY <1>3, <1>4, <1>8, <2>3 DEF WorkedOff, Made
  <2> QED BY <2>1, <2>3, <2>4, <2>5 DEF FrameIsSound
<1>9. CASE g.pending # 0 /\ g.ready = g.generation /\ ~fits /\ n < 3
  <2> DEFINE r == EnsureCommit(again, posted)
  <2>1. CommitDPI(f, fits, posted) = r
    BY <1>2, <1>9
  <2>2. /\ again \in Frames
        /\ again.fonts = g.fonts /\ again.bounds = g.bounds /\ again.lost = g.lost
        /\ again.monitor = g.monitor /\ again.pending = g.pending
        /\ again.generation = g.generation /\ again.ready = g.ready /\ again.msgs = g.msgs
        /\ again.applyPosted = g.applyPosted /\ again.commitPosted = g.commitPosted
        /\ again.direct = g.direct /\ again.cloaked = g.cloaked
    BY <1>1, <1>5 DEF Frames
  <2> HIDE DEF again
  <2>3. Flagged(again)
    BY <1>1, <2>2 DEF Flagged
  <2>4. /\ r \in Frames /\ Flagged(r) /\ PostsAside(again, r) /\ Coming(r)
        /\ r.applyPosted = again.applyPosted /\ r.direct # "apply"
    BY <1>3, <2>2, <2>3, EnsureCommitFacts
  <2> HIDE DEF r
  <2>5. WorkedOff(r)
    BY <1>3, <1>4, <1>9, <2>2, <2>4 DEF WorkedOff, Made, PostsAside
  <2> QED BY <2>1, <2>4, <2>5 DEF FrameIsSound
<1>10. CASE g.pending # 0 /\ g.ready = g.generation /\ ~fits /\ ~(n < 3)
  BY <1>2, <1>10
<1> QED BY <1>6, <1>7, <1>8, <1>9, <1>10

\* A new theme is shown at once, or the window is given up (refreshTheme).
LEMMA RefreshThemeFacts ==
  ASSUME NEW f, FrameIsSound(f), NEW failing \in 0 .. 3
  PROVE  RefreshTheme(f, failing) = NoFrame \/ FrameIsSound(RefreshTheme(f, failing))
<1>1. CASE failing = 3
  BY <1>1 DEF RefreshTheme
<1>2. CASE failing # 3
  <2> DEFINE r == [[f EXCEPT !.cloaked = TRUE] EXCEPT !.cloaked = FALSE]
  <2>1. RefreshTheme(f, failing) = r
    BY <1>2 DEF RefreshTheme, Presented, Cloaked
  <2>2. f \in Frames /\ Flagged(f) /\ WorkedOff(f) /\ (f.pending # 0 => Coming(f))
    BY DEF FrameIsSound
  <2>3. /\ r \in Frames
        /\ r.fonts = f.fonts /\ r.bounds = f.bounds /\ r.lost = f.lost
        /\ r.monitor = f.monitor /\ r.pending = f.pending
        /\ r.generation = f.generation /\ r.ready = f.ready /\ r.msgs = f.msgs
        /\ r.applyPosted = f.applyPosted /\ r.commitPosted = f.commitPosted
        /\ r.direct = f.direct /\ r.cloaked = FALSE
    BY <2>2 DEF Frames
  <2> HIDE DEF r
  <2>4. Flagged(r)
    BY <2>2, <2>3 DEF Flagged
  <2>5. WorkedOff(r)
    BY <2>2, <2>3 DEF WorkedOff, Made
  <2>6. r.pending # 0 => Coming(r)
    BY <2>2, <2>3 DEF Coming
  <2> QED BY <2>1, <2>3, <2>4, <2>5, <2>6 DEF FrameIsSound
<1> QED BY <1>1, <1>2

\* A message that is not about the frame leaves it as it is.
LEMMA OtherMessage ==
  ASSUME NEW f, FrameIsSound(f), NEW s,
         \/ \E id \in ChoiceTriggers : s = Append(f.msgs, id)
         \/ f.msgs # <<>> /\ Head(f.msgs) \in ChoiceTriggers /\ s = Tail(f.msgs)
  PROVE  FrameIsSound([f EXCEPT !.msgs = s])
<1>1. f \in Frames /\ Flagged(f) /\ WorkedOff(f) /\ (f.pending # 0 => Coming(f))
  BY DEF FrameIsSound
<1> DEFINE l == f.msgs
<1>2. l \in Seq(FrameMessages)
  BY <1>1 DEF Frames
<1>3. /\ s \in Seq(FrameMessages)
      /\ \A x \in {"apply", "commit"} :
            (IsQueued(s, x) <=> IsQueued(l, x)) /\ (Once(l, x) => Once(s, x))
  <2>1. ASSUME NEW id \in ChoiceTriggers, s = Append(l, id)
        PROVE  /\ s \in Seq(FrameMessages)
               /\ \A x \in {"apply", "commit"} :
                     (IsQueued(s, x) <=> IsQueued(l, x)) /\ (Once(l, x) => Once(s, x))
    <3>1. id \in FrameMessages /\ id # "apply" /\ id # "commit"
      BY DEF FrameMessages, ChoiceTriggers
    <3> HIDE DEF l
    <3> QED BY <1>2, <2>1, <3>1, AppendWaits
  <2>2. ASSUME l # <<>>, Head(l) \in ChoiceTriggers, s = Tail(l)
        PROVE  /\ s \in Seq(FrameMessages)
               /\ \A x \in {"apply", "commit"} :
                     (IsQueued(s, x) <=> IsQueued(l, x)) /\ (Once(l, x) => Once(s, x))
    <3>1. Head(l) # "apply" /\ Head(l) # "commit"
      BY <2>2 DEF ChoiceTriggers
    <3> HIDE DEF l
    <3> QED BY <1>2, <2>2, <3>1, TailWaits
  <2> QED BY <2>1, <2>2
<1> DEFINE r == [f EXCEPT !.msgs = s]
<1>4. /\ r \in Frames
      /\ r.fonts = f.fonts /\ r.bounds = f.bounds /\ r.lost = f.lost
      /\ r.monitor = f.monitor /\ r.pending = f.pending
      /\ r.generation = f.generation /\ r.ready = f.ready /\ r.msgs = s
      /\ r.applyPosted = f.applyPosted /\ r.commitPosted = f.commitPosted
      /\ r.direct = f.direct /\ r.cloaked = f.cloaked
  BY <1>1, <1>3 DEF Frames
<1> HIDE DEF r
<1>5. IsQueued(s, "apply") = IsQueued(l, "apply") /\ IsQueued(s, "commit") = IsQueued(l, "commit")
  <2>1. (IsQueued(s, "apply") <=> IsQueued(l, "apply")) /\ (IsQueued(s, "commit") <=> IsQueued(l, "commit"))
    BY <1>3
  <2> QED BY <2>1 DEF IsQueued
<1>6. Flagged(r)
  BY <1>1, <1>3, <1>4, <1>5 DEF Flagged
<1>7. WorkedOff(r)
  BY <1>1, <1>4 DEF WorkedOff, Made
<1>8. r.pending # 0 => Coming(r)
  BY <1>1, <1>4 DEF Coming
<1> QED BY <1>4, <1>6, <1>7, <1>8 DEF FrameIsSound, r

\* A window is no lost window.
LEMMA FrameIsThere == ASSUME NEW f, FrameIsSound(f) PROVE f # NoFrame
<1>1. f.monitor \in DPIs /\ DOMAIN f = DOMAIN [monitor |-> 0, fonts |-> 0, bounds |-> 0, lost |-> 0,
     pending |-> 0, generation |-> 0, ready |-> 0, failures |-> 0,
     applyPosted |-> 0, commitPosted |-> 0, transition |-> 0, cloaked |-> 0,
     msgs |-> 0, direct |-> 0]
  BY DEF FrameIsSound, Frames
<1>2. "monitor" \in DOMAIN f /\ "monitor" \notin DOMAIN NoFrame
  BY <1>1 DEF NoFrame
<1> QED BY <1>2

\* What a sound window means to the user (CloakEnds, ShownFrameFits).
LEMMA SoundFrameMeans ==
  ASSUME NEW f, FrameIsSound(f)
  PROVE  OnItsWay(f) /\ PostedOnce(f) /\ Fits(f)
<1>1. f \in Frames /\ Flagged(f) /\ WorkedOff(f) /\ (f.pending # 0 => Coming(f))
  BY DEF FrameIsSound
<1>2. PostedOnce(f)
  BY <1>1 DEF Flagged, Once, PostedOnce, Waiting
<1>3. Fits(f)
  BY <1>1 DEF WorkedOff, Made, Fits
<1>4. OnItsWay(f)
  <2> SUFFICES ASSUME f.cloaked \/ f.pending # 0, f.direct = "none"
               PROVE  \E i \in DOMAIN f.msgs : f.msgs[i] \in {"apply", "commit"}
    BY DEF OnItsWay
  <2>1. f.applyPosted \/ f.commitPosted
    BY <1>1 DEF WorkedOff, Coming
  <2>2. IsQueued(f.msgs, "apply") \/ IsQueued(f.msgs, "commit")
    BY <1>1, <2>1 DEF Flagged
  <2> QED BY <2>2 DEF IsQueued
<1> QED BY <1>2, <1>3, <1>4

(***************************************************************************)
(* The control panel                                                       *)
(***************************************************************************)

Configs == [noSleep : BOOLEAN, minutes : Minutes \cup {0}, automation : BOOLEAN,
            plain : BOOLEAN, language : Languages]
PanelActions == [what : {"noSleep", "idle", "automation", "plain"}, value : {0}]
                \cup [what : {"minutes"}, value : Minutes]
                \cup [what : {"language"}, value : Languages]
PanelCalls == [do : {"snapshot"}, by : Nat, refresh : BOOLEAN]
              \cup [do : {"action"}, by : Nat, action : PanelActions]
              \cup [do : {"hotkey", "reload"}]
Snaps == [do : {"show", "refresh"}, n : Nat, cfg : Configs, overtaken : BOOLEAN]
PanelTasks == Snaps \cup [do : {"automation"}, on : BOOLEAN] \cup [do : {"hide", "reopen"}]
Shows == [noSleep : BOOLEAN, idle : BOOLEAN, automation : BOOLEAN, plain : BOOLEAN,
          language : Languages]
Panels == [n : Nat, shown : Shows, minutes : Minutes, caption : Languages, dim : BOOLEAN,
           overtaken : BOOLEAN]
Choices == [id : ChoiceTriggers \cup {"none"}, popup : Nat, serial : Nat]

PanelStateTypes ==
    /\ cfg \in Configs /\ opens \in Nat
    /\ starting \in SUBSET [n : Nat, refresh : BOOLEAN]
    /\ calls \in Seq(PanelCalls) /\ ready \in SUBSET Snaps /\ tasks \in Seq(PanelTasks)
    /\ Visible => panel \in Panels
    /\ choice \in Choices

\* One popup, which is the last that was opened, or none.
PopupsAreTheChoice ==
    IF choice.id = "none" THEN popups = {} /\ choice.popup = 0
                          ELSE popups = {choice.popup} /\ choice.popup = choice.serial

WindowIsSound == IF Visible THEN FrameIsSound(frame) ELSE frame = NoFrame /\ popups = {}

(***************************************************************************)
(* An opening has a number of its own, and is at one place at a time: its  *)
(* goroutine, its call, the goroutine that has its snapshot, its task, the *)
(* panel.  Nobody clicks on a panel that is still to come.                 *)
(***************************************************************************)
Asks(i) == calls[i].do = "snapshot"
Shown(i) == tasks[i].do \in {"show", "refresh"}

NumbersAreGiven ==
    /\ \A g \in starting : g.n \in 1 .. opens
    /\ \A i \in DOMAIN calls : calls[i].do \in {"snapshot", "action"} => calls[i].by \in 1 .. opens
    /\ \A snap \in ready : snap.n \in 1 .. opens
    /\ \A i \in DOMAIN tasks : Shown(i) => tasks[i].n \in 1 .. opens
    /\ Visible => panel.n \in 1 .. opens

NumbersDiffer ==
    /\ \A g, h \in starting : g.n = h.n => g = h
    /\ \A i, j \in DOMAIN calls : Asks(i) /\ Asks(j) /\ calls[i].by = calls[j].by => i = j
    /\ \A s, t \in ready : s.n = t.n => s = t
    /\ \A i, j \in DOMAIN tasks : Shown(i) /\ Shown(j) /\ tasks[i].n = tasks[j].n => i = j
    /\ \A g \in starting :
          /\ \A i \in DOMAIN calls : Asks(i) => calls[i].by # g.n
          /\ \A t \in ready : t.n # g.n
          /\ \A i \in DOMAIN tasks : Shown(i) => tasks[i].n # g.n
    /\ \A i \in DOMAIN calls : Asks(i) =>
          /\ \A t \in ready : t.n # calls[i].by
          /\ \A j \in DOMAIN tasks : Shown(j) => tasks[j].n # calls[i].by
    /\ \A t \in ready : \A j \in DOMAIN tasks : Shown(j) => tasks[j].n # t.n

\* Nobody has clicked on the panel that gets number n.
Unused(n) ==
    /\ Visible => panel.n # n
    /\ \A i \in DOMAIN calls : ~Clicked(calls[i], n)

Comes(n) ==
    \/ \E g \in starting : g.n = n
    \/ \E i \in DOMAIN calls : Asks(i) /\ calls[i].by = n
    \/ \E snap \in ready : snap.n = n
    \/ \E i \in DOMAIN tasks : Shown(i) /\ tasks[i].n = n
ComingIsUnused == \A n \in 1 .. opens : Comes(n) => Unused(n)

Updates(i) == tasks[i].do = "automation"

\* A snapshot that is not overtaken is what the settings are, and no update of
\* the automation switch comes after it.
TasksHold ==
    \A i \in DOMAIN tasks : Shown(i) /\ ~tasks[i].overtaken =>
        tasks[i].cfg = cfg /\ \A j \in DOMAIN tasks : j > i => ~Updates(j)
SnapshotsHold == TasksHold /\ \A snap \in ready : ~snap.overtaken => snap.cfg = cfg

\* The last update tells the truth; without one, so does the panel, unless the
\* user has clicked on the switch.
LastUpdateHolds ==
    \A i \in DOMAIN tasks :
        Updates(i) /\ (\A j \in DOMAIN tasks : j > i => ~Updates(j)) => tasks[i].on = cfg.automation
OwnUpdate(call) == Clicked(call, panel.n) /\ call.action.what = "automation"
NoOwnUpdate == \A i \in DOMAIN calls : ~OwnUpdate(calls[i])
AutomationIsTold ==
    Visible /\ ~panel.overtaken =>
    /\ LastUpdateHolds
    /\ NoUpdates /\ NoOwnUpdate => panel.shown.automation = cfg.automation

Without(x) == [x EXCEPT !.automation = FALSE]
SwitchesFollow ==
    Visible =>
    /\ panel.dim = ~panel.shown.idle
    /\ ~panel.overtaken => Without(panel.shown) = Without(Switches(After(cfg, calls, panel.n)))

\* Texts in another language are about to be replaced.
RefreshComes ==
    \/ \E g \in starting : g.refresh
    \/ \E i \in DOMAIN calls : Asks(i) /\ calls[i].refresh
    \/ \E snap \in ready : snap.do = "refresh"
    \/ \E i \in DOMAIN tasks : tasks[i].do \in {"reopen", "refresh"}
TextsAreReplaced ==
    Visible /\ ~panel.overtaken /\ panel.caption # cfg.language => RefreshComes

PanelInv ==
    /\ PanelStateTypes /\ PopupsAreTheChoice /\ WindowIsSound
    /\ NumbersAreGiven /\ NumbersDiffer /\ ComingIsUnused
    /\ SnapshotsHold /\ AutomationIsTold /\ SwitchesFollow /\ TextsAreReplaced
-----------------------------------------------------------------------------
(* Serving one call after the other *)

\* A set of numbers has a least one.
LEMMA LeastNumber ==
  ASSUME NEW S, S \subseteq Nat, S # {}
  PROVE  \E x \in S : \A y \in S : x <= y
<1>1. PICK R : IsWellFoundedOn(R, Nat) /\ \A x, y \in Nat : <<x, y>> \in R <=> x < y
  <2>1. \A x, y \in Nat : <<x, y>> \in OpToRel(<, Nat) <=> x < y
    BY DEF OpToRel
  <2> QED BY <2>1, NatLessThanWellFounded
<1>2. PICK x \in S : \A y \in S : ~(<<y, x>> \in R)
  <2>1. IsWellFoundedOn(R, Nat)
    BY <1>1
  <2> QED BY <2>1, WFMin, Zenon
<1>3. ASSUME NEW y \in S PROVE x <= y
  <2>1. x \in Nat /\ y \in Nat /\ ~(<<y, x>> \in R)
    BY <1>2
  <2>2. ~(y < x)
    BY <1>1, <2>1
  <2> QED BY <2>1, <2>2
<1> QED BY <1>3

\* What holds at first and of the next number holds of all, as far as it goes.
LEMMA UpTo ==
  ASSUME NEW m \in Nat, NEW S, 0 \in S, \A i \in 0 .. (m - 1) : i \in S => i + 1 \in S
  PROVE  \A i \in 0 .. m : i \in S
<1> DEFINE bad == {i \in 0 .. m : i \notin S}
<1> SUFFICES ASSUME bad # {} PROVE FALSE
  OBVIOUS
<1>1. bad \subseteq Nat
  OBVIOUS
<1>2. PICK x \in bad : \A y \in bad : x <= y
  <2> HIDE DEF bad
  <2> QED BY <1>1, LeastNumber
<1>3. x \in 0 .. m /\ x \notin S /\ x # 0
  OBVIOUS
<1>4. x - 1 \in 0 .. (m - 1) /\ ~(x <= x - 1) /\ (x - 1) + 1 = x
  BY <1>3
<1>5. x - 1 \in S
  BY <1>2, <1>4
<1> QED BY <1>3, <1>4, <1>5

IsRun(f, k, c, s, n) == f[0] = c /\ \A i \in 1 .. k : f[i] = Served(f[i - 1], s[i], n)

\* The settings after a number of calls are those after one call less, and that
\* call.
LEMMA AfterRuns ==
  ASSUME NEW c, NEW s, Len(s) \in Nat, NEW n
  PROVE  \E f : IsRun(f, Len(s), c, s, n) /\ After(c, s, n) = f[Len(s)]
<1> DEFINE m == Len(s)
           S == {k \in 0 .. m : \E f : IsRun(f, k, c, s, n)}
<1>1. 0 \in S
  <2> DEFINE f == [i \in 0 .. 0 |-> c]
  <2>1. f[0] = c
    OBVIOUS
  <2> HIDE DEF f
  <2>2. IsRun(f, 0, c, s, n)
    BY <2>1 DEF IsRun
  <2> QED BY <2>2
<1>2. ASSUME NEW k \in 0 .. (m - 1), k \in S PROVE k + 1 \in S
  <2>1. PICK f : IsRun(f, k, c, s, n)
    BY <1>2
  <2> DEFINE h == [i \in 0 .. (k + 1) |-> IF i <= k THEN f[i] ELSE Served(f[k], s[k + 1], n)]
  <2>2. h[0] = f[0] /\ h[k + 1] = Served(f[k], s[k + 1], n) /\ \A i \in 0 .. k : h[i] = f[i]
    OBVIOUS
  <2> HIDE DEF h
  <2>3. \A i \in 1 .. (k + 1) : i - 1 \in 0 .. k /\ (i \in 1 .. k \/ (i = k + 1 /\ i - 1 = k))
    OBVIOUS
  <2>4. \A i \in 1 .. (k + 1) : h[i] = Served(h[i - 1], s[i], n)
    <3> SUFFICES ASSUME NEW i \in 1 .. (k + 1) PROVE h[i] = Served(h[i - 1], s[i], n)
      OBVIOUS
    <3>1. h[i - 1] = f[i - 1]
      BY <2>2, <2>3
    <3>2. CASE i \in 1 .. k
      BY <2>1, <2>2, <3>1, <3>2 DEF IsRun
    <3>3. CASE i = k + 1 /\ i - 1 = k
      BY <2>2, <3>1, <3>3
    <3> QED BY <2>3, <3>2, <3>3
  <2>5. IsRun(h, k + 1, c, s, n)
    BY <2>1, <2>2, <2>4 DEF IsRun
  <2> QED BY <2>5
<1>3. m \in S
  <2> HIDE DEF S
  <2>1. \A i \in 0 .. m : i \in S
    BY <1>1, <1>2, UpTo
  <2> QED BY <2>1
<1>4. PICK h : IsRun(h, m, c, s, n)
  BY <1>3
<1> DEFINE Eq(f) == f = [i \in 0 .. Len(s) |-> IF i = 0 THEN c ELSE Served(f[i - 1], s[i], n)]
           g == [i \in 0 .. m |-> h[i]]
           f == CHOOSE x : Eq(x)
<1>5. Eq(g)
  <2>1. \A i \in 0 .. m : g[i] = h[i]
    OBVIOUS
  <2>2. \A i \in 0 .. m : i = 0 \/ (i \in 1 .. m /\ i - 1 \in 0 .. m)
    OBVIOUS
  <2>3. \A i \in 0 .. m : h[i] = IF i = 0 THEN c ELSE Served(g[i - 1], s[i], n)
    BY <1>4, <2>1, <2>2 DEF IsRun
  <2> QED BY <2>3
<1>6. Eq(f)
  <2> HIDE DEF Eq, g
  <2> QED BY <1>5
<1>7. After(c, s, n) = f[m]
  BY DEF After
<1> HIDE DEF f
<1>8. f[0] = c /\ \A i \in 1 .. m : f[i] = Served(f[i - 1], s[i], n)
  <2>1. \A i \in 0 .. m : f[i] = IF i = 0 THEN c ELSE Served(f[i - 1], s[i], n)
    BY <1>6
  <2>2. \A i \in 1 .. m : i \in 0 .. m /\ i # 0
    OBVIOUS
  <2> QED BY <2>1, <2>2
<1> QED BY <1>7, <1>8 DEF IsRun

\* h does what f does, d steps later.
Follows(f, h, d, m) == f[0] = h[d] /\ \A i \in 1 .. m : f[i - 1] = h[i - 1 + d] => f[i] = h[i + d]

\* Two runs that make the same steps agree in the end.
LEMMA RunsAgree ==
  ASSUME NEW m \in Nat, NEW f, NEW h, NEW d \in {0, 1}, Follows(f, h, d, m)
  PROVE  f[m] = h[m + d]
<1>0. f[0] = h[d] /\ \A i \in 1 .. m : f[i - 1] = h[i - 1 + d] => f[i] = h[i + d]
  BY DEF Follows
<1> DEFINE S == {i \in 0 .. m : f[i] = h[i + d]}
<1>1. 0 \in S
  BY <1>0
<1>2. ASSUME NEW i \in 0 .. (m - 1), i \in S PROVE i + 1 \in S
  <2>1. i + 1 \in 1 .. m /\ (i + 1) - 1 = i
    OBVIOUS
  <2>2. f[i + 1] = h[(i + 1) + d]
    BY <1>0, <1>2, <2>1
  <2> QED BY <2>1, <2>2
<1>3. \A i \in 0 .. m : i \in S
  <2> HIDE DEF S
  <2> QED BY <1>1, <1>2, UpTo
<1> QED BY <1>3

\* A click that comes last is served last.
LEMMA AfterAppend ==
  ASSUME NEW c, NEW s \in Seq(PanelCalls), NEW call \in PanelCalls, NEW n
  PROVE  After(c, Append(s, call), n) = Served(After(c, s, n), call, n)
<1> DEFINE t == Append(s, call)
           m == Len(s)
<1>1. /\ m \in Nat /\ Len(t) = m + 1 /\ t[m + 1] = call /\ \A i \in 1 .. m : t[i] = s[i]
  OBVIOUS
<1> HIDE DEF t, m
<1>2. PICK f : IsRun(f, m, c, s, n) /\ After(c, s, n) = f[m]
  BY <1>1, AfterRuns DEF m
<1>3. PICK h : IsRun(h, m + 1, c, t, n) /\ After(c, t, n) = h[m + 1]
  <2>1. Len(t) \in Nat
    BY <1>1
  <2> QED BY <1>1, <2>1, AfterRuns
<1>4. f[m] = h[m]
  <2> DEFINE d == 0
  <2>1. d \in {0, 1} /\ f[0] = h[d]
    BY <1>1, <1>2, <1>3 DEF IsRun
  <2>2. \A i \in 1 .. m : f[i - 1] = h[i - 1 + d] => f[i] = h[i + d]
    <3>1. \A i \in 1 .. m : i \in 1 .. (m + 1) /\ i - 1 + 0 = i - 1 /\ i + 0 = i
      BY <1>1
    <3> QED BY <1>1, <1>2, <1>3, <3>1 DEF IsRun
  <2>3. Follows(f, h, d, m)
    BY <2>1, <2>2 DEF Follows
  <2> HIDE DEF d
  <2>4. f[m] = h[m + d]
    BY <1>1, <2>1, <2>3, RunsAgree
  <2> QED BY <1>1, <2>4 DEF d
<1>5. m + 1 \in 1 .. (m + 1) /\ (m + 1) - 1 = m
  BY <1>1
<1>6. h[m + 1] = Served(h[m], call, n)
  BY <1>1, <1>3, <1>5 DEF IsRun
<1> QED BY <1>2, <1>3, <1>4, <1>6 DEF t

\* A call that has been served makes no difference to what comes in the end.
LEMMA AfterHead ==
  ASSUME NEW c, NEW s \in Seq(PanelCalls), s # <<>>, NEW n
  PROVE  After(c, s, n) = After(Served(c, Head(s), n), Tail(s), n)
<1> DEFINE t == Tail(s)
           m == Len(t)
           b == Served(c, Head(s), n)
<1>1. /\ m \in Nat /\ Len(s) = m + 1 /\ Len(s) \in Nat /\ s[1] = Head(s)
      /\ \A i \in 1 .. m : t[i] = s[i + 1]
  OBVIOUS
<1> HIDE DEF t, b
<1>2. PICK f : IsRun(f, m, b, t, n) /\ After(b, t, n) = f[m]
  BY <1>1, AfterRuns
<1> HIDE DEF m
<1>3. PICK h : IsRun(h, m + 1, c, s, n) /\ After(c, s, n) = h[m + 1]
  BY <1>1, AfterRuns
<1>4. f[m] = h[m + 1]
  <2> DEFINE d == 1
  <2>1. d \in {0, 1} /\ f[0] = h[d]
    <3>1. 1 \in 1 .. (m + 1) /\ 1 - 1 = 0
      BY <1>1
    <3>2. h[1] = Served(c, s[1], n)
      BY <1>3, <3>1 DEF IsRun
    <3> QED BY <1>1, <1>2, <3>2 DEF IsRun, b
  <2>2. \A i \in 1 .. m : f[i - 1] = h[i - 1 + d] => f[i] = h[i + d]
    <3>1. \A i \in 1 .. m : i + 1 \in 1 .. (m + 1) /\ i - 1 + 1 = i /\ (i + 1) - 1 = i
      BY <1>1
    <3> SUFFICES ASSUME NEW i \in 1 .. m, f[i - 1] = h[i] PROVE f[i] = h[i + 1]
      BY <3>1
    <3>2. f[i] = Served(f[i - 1], t[i], n)
      BY <1>2 DEF IsRun
    <3>3. h[i + 1] = Served(h[i], s[i + 1], n)
      BY <1>3, <3>1 DEF IsRun
    <3> QED BY <1>1, <3>2, <3>3
  <2>3. Follows(f, h, d, m)
    BY <2>1, <2>2 DEF Follows
  <2> HIDE DEF d
  <2>4. f[m] = h[m + d]
    BY <1>1, <2>1, <2>3, RunsAgree
  <2> QED BY <2>4 DEF d
<1> QED BY <1>2, <1>3, <1>4 DEF t, b

\* Nobody's clicks change nothing.
LEMMA AfterNone ==
  ASSUME NEW c, NEW s \in Seq(PanelCalls), NEW n, \A i \in DOMAIN s : ~Clicked(s[i], n)
  PROVE  After(c, s, n) = c
<1> DEFINE m == Len(s)
<1>1. m \in Nat /\ DOMAIN s = 1 .. m
  OBVIOUS
<1>2. PICK f : IsRun(f, m, c, s, n) /\ After(c, s, n) = f[m]
  BY <1>1, AfterRuns
<1> HIDE DEF m
<1> DEFINE S == {i \in 0 .. m : f[i] = c}
<1>3. 0 \in S
  BY <1>1, <1>2 DEF IsRun
<1>4. ASSUME NEW i \in 0 .. (m - 1), i \in S PROVE i + 1 \in S
  <2>1. i + 1 \in 1 .. m /\ (i + 1) - 1 = i /\ i + 1 \in 0 .. m
    BY <1>1
  <2>2. f[i + 1] = Served(f[i], s[i + 1], n)
    BY <1>2, <2>1 DEF IsRun
  <2>3. f[i + 1] = c
    BY <1>1, <1>4, <2>1, <2>2 DEF Served
  <2> QED BY <2>1, <2>3
<1>5. \A i \in 0 .. m : i \in S
  <2> HIDE DEF S
  <2> QED BY <1>1, <1>3, <1>4, UpTo
<1> QED BY <1>1, <1>2, <1>5

\* Every action leaves settings (handleControlPanelAction).
LEMMA PerformedFacts ==
  ASSUME NEW c \in Configs, NEW action \in PanelActions
  PROVE  /\ Performed(c, action) \in Configs
         /\ action.what # "automation" => Performed(c, action).automation = c.automation
         /\ action.what # "language" => Performed(c, action).language = c.language
         /\ action.what = "language" => Performed(c, action).language = action.value
<1>0. DefaultMinutes \in Minutes /\ Minutes \subseteq Nat \ {0}
  BY PanelAssumption
<1>1. CASE action.what = "noSleep"
  BY <1>1 DEF Performed, NoSleepSet, Configs
<1>2. CASE action.what = "idle"
  BY <1>0, <1>2 DEF Performed, MinutesSet, Configs
<1>3. CASE action.what = "minutes"
  <2>1. action.value \in Minutes
    BY <1>3 DEF PanelActions
  <2> QED BY <1>0, <1>3, <2>1 DEF Performed, MinutesSet, Configs
<1>4. CASE action.what = "automation"
  BY <1>4 DEF Performed, Configs
<1>5. CASE action.what = "plain"
  BY <1>5 DEF Performed, Configs
<1>6. CASE action.what = "language"
  <2>1. action.value \in Languages
    BY <1>6 DEF PanelActions
  <2> QED BY <1>6, <2>1 DEF Performed, Configs
<1>7. action.what \in {"noSleep", "idle", "minutes", "automation", "plain", "language"}
  BY DEF PanelActions
<1> QED BY <1>1, <1>2, <1>3, <1>4, <1>5, <1>6, <1>7

\* Settings stay settings, however many clicks are served.
LEMMA AfterTyped ==
  ASSUME NEW c \in Configs, NEW s \in Seq(PanelCalls), NEW n
  PROVE  After(c, s, n) \in Configs
<1> DEFINE m == Len(s)
<1>1. m \in Nat /\ \A i \in 1 .. m : s[i] \in PanelCalls
  OBVIOUS
<1>2. PICK f : IsRun(f, m, c, s, n) /\ After(c, s, n) = f[m]
  BY <1>1, AfterRuns
<1> HIDE DEF m
<1> DEFINE S == {i \in 0 .. m : f[i] \in Configs}
<1>3. 0 \in S
  BY <1>1, <1>2 DEF IsRun
<1>4. ASSUME NEW i \in 0 .. (m - 1), i \in S PROVE i + 1 \in S
  <2>1. i + 1 \in 1 .. m /\ (i + 1) - 1 = i /\ i + 1 \in 0 .. m
    BY <1>1
  <2>2. f[i + 1] = Served(f[i], s[i + 1], n)
    BY <1>2, <2>1 DEF IsRun
  <2>3. f[i] \in Configs /\ s[i + 1] \in PanelCalls
    BY <1>1, <1>4, <2>1
  <2>4. Clicked(s[i + 1], n) => s[i + 1].action \in PanelActions
    BY <2>3 DEF Clicked, PanelCalls
  <2>5. f[i + 1] \in Configs
    BY <2>2, <2>3, <2>4, PerformedFacts DEF Served
  <2> QED BY <2>1, <2>5
<1>5. \A i \in 0 .. m : i \in S
  <2> HIDE DEF S
  <2> QED BY <1>1, <1>3, <1>4, UpTo
<1> QED BY <1>1, <1>2, <1>5
-----------------------------------------------------------------------------
(* Where an opening of the panel is *)

\* The calls and tasks that are left were d and e places further back; another
\* call is a click on the panel, or is nobody's.
CallsFrom(d) ==
    \A i \in DOMAIN calls' : i \in Nat /\
        \/ i + d \in DOMAIN calls /\ calls'[i] = calls[i + d]
        \/ calls'[i].do = "action" /\ Visible /\ calls'[i].by = panel.n
        \/ calls'[i].do \in {"hotkey", "reload"}
TasksFrom(e) ==
    \A i \in DOMAIN tasks' : i \in Nat /\
        (Shown(i)' => i + e \in DOMAIN tasks /\ Shown(i + e) /\ tasks'[i].n = tasks[i + e].n)

\* A queue that is left alone, or that loses its head.
LEMMA QueuesMove ==
  ASSUME PanelInv
  PROVE  /\ calls' = calls => CallsFrom(0)
         /\ calls # <<>> /\ calls' = Tail(calls) => CallsFrom(1)
         /\ tasks' = tasks => TasksFrom(0)
         /\ tasks # <<>> /\ tasks' = Tail(tasks) => TasksFrom(1)
<1>1. calls \in Seq(PanelCalls) /\ tasks \in Seq(PanelTasks)
  BY DEF PanelInv, PanelStateTypes
<1>2. calls' = calls => CallsFrom(0)
  BY <1>1 DEF CallsFrom
<1>3. calls # <<>> /\ calls' = Tail(calls) => CallsFrom(1)
  BY <1>1 DEF CallsFrom
<1>4. tasks' = tasks => TasksFrom(0)
  <2> SUFFICES ASSUME tasks' = tasks PROVE TasksFrom(0)
    OBVIOUS
  <2>1. \A i \in DOMAIN tasks : i \in Nat /\ i + 0 = i
    BY <1>1
  <2> QED BY <2>1 DEF TasksFrom, Shown
<1>5. tasks # <<>> /\ tasks' = Tail(tasks) => TasksFrom(1)
  <2> SUFFICES ASSUME tasks # <<>>, tasks' = Tail(tasks) PROVE TasksFrom(1)
    OBVIOUS
  <2>1. \A i \in DOMAIN tasks' : i \in Nat /\ i + 1 \in DOMAIN tasks /\ tasks'[i] = tasks[i + 1]
    BY <1>1
  <2> QED BY <2>1 DEF TasksFrom, Shown
<1> QED BY <1>2, <1>3, <1>4, <1>5

\* A step that begins no opening and takes none further leaves its numbers.
LEMMA NumbersKept ==
  ASSUME PanelInv, opens' = opens, starting' \subseteq starting,
         NEW d \in {0, 1}, CallsFrom(d), NEW e \in {0, 1}, TasksFrom(e),
         \A s \in ready' : \E t \in ready : t.n = s.n,
         \A s, t \in ready' : s.n = t.n => s = t,
         Visible' => Visible /\ panel'.n = panel.n
  PROVE  NumbersAreGiven' /\ NumbersDiffer' /\ ComingIsUnused'
<1>1. NumbersAreGiven /\ NumbersDiffer /\ ComingIsUnused
  BY DEF PanelInv
<1>2. \A i \in DOMAIN calls' : i \in Nat /\
         \/ i + d \in DOMAIN calls /\ calls'[i] = calls[i + d]
         \/ calls'[i].do = "action" /\ Visible /\ calls'[i].by = panel.n
         \/ calls'[i].do \in {"hotkey", "reload"}
  BY DEF CallsFrom
<1>3. \A i, j \in DOMAIN calls' : i + d = j + d => i = j
  BY <1>2
<1>4. \A i \in DOMAIN tasks' : Shown(i)' =>
         i + e \in DOMAIN tasks /\ Shown(i + e) /\ tasks'[i].n = tasks[i + e].n
  BY DEF TasksFrom
<1>5. \A i, j \in DOMAIN tasks' : i + e = j + e => i = j
  <2>1. \A i \in DOMAIN tasks' : i \in Nat
    BY DEF TasksFrom
  <2> QED BY <2>1
<1>6. NumbersAreGiven'
  <2>1. \A i \in DOMAIN calls' : calls'[i].do \in {"snapshot", "action"} => calls'[i].by \in 1 .. opens'
    BY <1>1, <1>2 DEF NumbersAreGiven
  <2>2. \A s \in ready' : s.n \in 1 .. opens'
    BY <1>1 DEF NumbersAreGiven
  <2>3. \A i \in DOMAIN tasks' : Shown(i)' => tasks'[i].n \in 1 .. opens'
    BY <1>1, <1>4 DEF NumbersAreGiven
  <2>4. (\A g \in starting' : g.n \in 1 .. opens') /\ (Visible' => panel'.n \in 1 .. opens')
    BY <1>1 DEF NumbersAreGiven
  <2> QED BY <2>1, <2>2, <2>3, <2>4 DEF NumbersAreGiven
<1>7. NumbersDiffer'
  <2>1. \A g, h \in starting' : g.n = h.n => g = h
    BY <1>1 DEF NumbersDiffer
  <2>2. \A i, j \in DOMAIN calls' : Asks(i)' /\ Asks(j)' /\ calls'[i].by = calls'[j].by => i = j
    BY <1>1, <1>2, <1>3 DEF NumbersDiffer, Asks
  <2>3. \A i, j \in DOMAIN tasks' : Shown(i)' /\ Shown(j)' /\ tasks'[i].n = tasks'[j].n => i = j
    BY <1>1, <1>4, <1>5 DEF NumbersDiffer
  <2>4. \A g \in starting' :
          /\ \A i \in DOMAIN calls' : Asks(i)' => calls'[i].by # g.n
          /\ \A t \in ready' : t.n # g.n
          /\ \A i \in DOMAIN tasks' : Shown(i)' => tasks'[i].n # g.n
    BY <1>1, <1>2, <1>4 DEF NumbersDiffer, Asks
  <2>5. \A i \in DOMAIN calls' : Asks(i)' =>
          /\ \A t \in ready' : t.n # calls'[i].by
          /\ \A j \in DOMAIN tasks' : Shown(j)' => tasks'[j].n # calls'[i].by
    BY <1>1, <1>2, <1>4 DEF NumbersDiffer, Asks
  <2>6. \A t \in ready' : \A j \in DOMAIN tasks' : Shown(j)' => tasks'[j].n # t.n
    BY <1>1, <1>4 DEF NumbersDiffer
  <2> QED BY <2>1, <2>2, <2>3, <2>4, <2>5, <2>6 DEF NumbersDiffer
<1>8. \A n : Unused(n) => Unused(n)'
  BY <1>2 DEF Unused, Clicked
<1>9. \A n : Comes(n)' => Comes(n)
  <2> SUFFICES ASSUME NEW n, Comes(n)' PROVE Comes(n)
    OBVIOUS
  <2>1. CASE \E g \in starting' : g.n = n
    BY <2>1 DEF Comes
  <2>2. CASE \E i \in DOMAIN calls' : Asks(i)' /\ calls'[i].by = n
    BY <1>2, <2>2 DEF Comes, Asks
  <2>3. CASE \E s \in ready' : s.n = n
    BY <2>3 DEF Comes
  <2>4. CASE \E i \in DOMAIN tasks' : Shown(i)' /\ tasks'[i].n = n
    BY <1>4, <2>4 DEF Comes
  <2> QED BY <2>1, <2>2, <2>3, <2>4 DEF Comes
<1>10. ComingIsUnused'
  BY <1>1, <1>8, <1>9 DEF ComingIsUnused
<1> QED BY <1>6, <1>7, <1>10

\* The queues as they are, or a head taken from one of them.
LEMMA NumbersStay ==
  ASSUME PanelInv, opens' = opens, starting' \subseteq starting,
         CallsFrom(0) \/ CallsFrom(1), TasksFrom(0) \/ TasksFrom(1),
         \A s \in ready' : \E t \in ready : t.n = s.n,
         \A s, t \in ready' : s.n = t.n => s = t,
         Visible' => Visible /\ panel'.n = panel.n
  PROVE  NumbersAreGiven' /\ NumbersDiffer' /\ ComingIsUnused'
<1>1. PICK d \in {0, 1} : CallsFrom(d)
  OBVIOUS
<1>2. PICK e \in {0, 1} : TasksFrom(e)
  OBVIOUS
<1> QED BY <1>1, <1>2, NumbersKept

\* A panel has a number, and no panel is none.
LEMMA PanelsAreThere == ASSUME NEW q \in Panels, q.n \in Nat \ {0} PROVE q # NoPanel
BY DEF Panels, NoPanel
-----------------------------------------------------------------------------
(* Steps of the window alone *)

\* A step of the window thread alone keeps the invariant when the window it leaves
\* is sound or gone.
LEMMA WindowStep ==
  ASSUME PanelInv, UNCHANGED <<app, tasks, opens>>, panel' = panel \/ panel' = NoPanel,
         choice' \in Choices, PopupsAreTheChoice', WindowIsSound'
  PROVE  PanelInv'
<1>1. /\ PanelStateTypes /\ SnapshotsHold /\ AutomationIsTold /\ SwitchesFollow /\ TextsAreReplaced
      /\ NumbersDiffer
  BY DEF PanelInv
<1>2. /\ cfg' = cfg /\ starting' = starting /\ calls' = calls /\ ready' = ready
      /\ tasks' = tasks /\ opens' = opens
  BY DEF app
<1>3. Visible' => Visible /\ panel' = panel
  BY DEF Visible
<1>4. NumbersAreGiven' /\ NumbersDiffer' /\ ComingIsUnused'
  <2>1. CallsFrom(0) /\ TasksFrom(0)
    BY <1>2, QueuesMove
  <2>2. \A s, t \in ready' : s.n = t.n => s = t
    BY <1>1, <1>2 DEF NumbersDiffer
  <2> QED BY <1>2, <1>3, <2>1, <2>2, NumbersStay
<1>5. PanelStateTypes'
  BY <1>1, <1>2, <1>3 DEF PanelStateTypes
<1>6. SnapshotsHold'
  BY <1>1, <1>2 DEF SnapshotsHold, TasksHold, Shown, Updates
<1>7. AutomationIsTold'
  BY <1>1, <1>2, <1>3 DEF AutomationIsTold, LastUpdateHolds, Updates, NoUpdates, NoOwnUpdate, OwnUpdate
<1>8. SwitchesFollow'
  BY <1>1, <1>2, <1>3 DEF SwitchesFollow
<1>9. TextsAreReplaced'
  <2>1. RefreshComes => RefreshComes'
    BY <1>2 DEF RefreshComes, Asks
  <2> QED BY <1>1, <1>2, <1>3, <2>1 DEF TextsAreReplaced
<1> QED BY <1>4, <1>5, <1>6, <1>7, <1>8, <1>9 DEF PanelInv

\* A panel that is destroyed leaves nothing (clearPanel).
LEMMA DestroyFacts ==
  ASSUME Destroy
  PROVE  panel' = NoPanel /\ choice' \in Choices /\ PopupsAreTheChoice' /\ WindowIsSound'
<1>1. choice' = NoChoice /\ NoChoice \in Choices
  BY DEF Destroy, NoChoice, Choices
<1>2. PopupsAreTheChoice'
  BY <1>1 DEF Destroy, PopupsAreTheChoice, NoChoice
<1>3. WindowIsSound'
  BY DEF Destroy, WindowIsSound, Visible
<1> QED BY <1>1, <1>2, <1>3 DEF Destroy

\* WM_CLOSE, or a command that closes the panel.
LEMMA LeaveStep == ASSUME PanelInv, Leave PROVE PanelInv'
BY DestroyFacts, WindowStep DEF Leave

\* A quick action closes the panel.
LEMMA ChooseQuickStep == ASSUME PanelInv, ChooseQuick PROVE PanelInv'
BY DestroyFacts, WindowStep DEF ChooseQuick

\* Closing the popup, or hearing that it has closed.
LEMMA CloseChoiceFacts ==
  ASSUME PanelInv, CloseChoice
  PROVE  choice' \in Choices /\ PopupsAreTheChoice' /\ popups' = {}
<1>1. choice \in Choices /\ PopupsAreTheChoice
  BY DEF PanelInv, PanelStateTypes
<1>2. GivenUp \in Choices /\ GivenUp.id = "none" /\ GivenUp.popup = 0
  <2>1. CASE choice.id = "none"
    BY <1>1, <2>1 DEF GivenUp, PopupsAreTheChoice
  <2>2. CASE choice.id # "none"
    BY <1>1, <2>2 DEF GivenUp, NoChoice, Choices
  <2> QED BY <2>1, <2>2
<1>3. popups \ {choice.popup} = {}
  BY <1>1 DEF PopupsAreTheChoice
<1> QED BY <1>2, <1>3 DEF CloseChoice, PopupsAreTheChoice

\* A popup that closes by itself is forgotten by the choice it belongs to (OnClose).
LEMMA ReportedFacts ==
  ASSUME PanelInv, NEW serial \in popups, popups' = popups \ {serial}, choice' = Reported(serial)
  PROVE  choice' \in Choices /\ PopupsAreTheChoice' /\ popups' = {}
<1>1. choice \in Choices /\ PopupsAreTheChoice
  BY DEF PanelInv, PanelStateTypes
<1>2. choice.id # "none" /\ popups = {choice.popup} /\ choice.popup = choice.serial
  BY <1>1 DEF PopupsAreTheChoice
<1>3. serial = choice.serial
  BY <1>2
<1>4. choice' = [NoChoice EXCEPT !.serial = serial]
  BY <1>3 DEF Reported
<1>5. choice' \in Choices /\ choice'.id = "none" /\ choice'.popup = 0
  BY <1>1, <1>3, <1>4 DEF NoChoice, Choices
<1>6. popups' = {}
  BY <1>2, <1>3
<1> QED BY <1>5, <1>6 DEF PopupsAreTheChoice

\* An opened popup is the one the choice belongs to (openPopup).
LEMMA OpenPopupFacts ==
  ASSUME PanelInv, NEW id \in ChoiceTriggers, NEW opened \in BOOLEAN, OpenPopup(id, opened)
  PROVE  choice' \in Choices /\ PopupsAreTheChoice'
<1>1. choice \in Choices /\ PopupsAreTheChoice
  BY DEF PanelInv, PanelStateTypes
<1>2. CASE id = "minutes" /\ panel.dim
  BY <1>1, <1>2 DEF OpenPopup, PopupsAreTheChoice
<1>3. CASE ~(id = "minutes" /\ panel.dim) /\ choice.id = id /\ choice.popup \in popups
  BY <1>3, CloseChoiceFacts DEF OpenPopup
<1>4. CASE ~(id = "minutes" /\ panel.dim) /\ ~(choice.id = id /\ choice.popup \in popups)
  <2> DEFINE serial == GivenUp.serial + 1
  <2>1. serial \in Nat
    BY <1>1 DEF GivenUp, NoChoice, Choices
  <2>2. /\ choice' = IF opened THEN [id |-> id, popup |-> serial, serial |-> serial]
                              ELSE [NoChoice EXCEPT !.serial = serial]
        /\ popups' = (popups \ {choice.popup}) \cup Window(serial, opened)
    BY <1>4 DEF OpenPopup
  <2> HIDE DEF serial
  <2>3. popups' = Window(serial, opened)
    BY <1>1, <2>2 DEF PopupsAreTheChoice
  <2>4. id # "none"
    BY DEF ChoiceTriggers
  <2>5. CASE opened
    BY <2>1, <2>2, <2>3, <2>4, <2>5 DEF Choices, PopupsAreTheChoice, Window
  <2>6. CASE ~opened
    BY <2>1, <2>2, <2>3, <2>6 DEF Choices, PopupsAreTheChoice, Window, NoChoice
  <2> QED BY <2>5, <2>6
<1> QED BY <1>2, <1>3, <1>4

\* A click on a choice opens its popup or closes it.
LEMMA ClickTriggerStep ==
  ASSUME PanelInv, NEW id \in ChoiceTriggers, ClickTrigger(id)
  PROVE  PanelInv'
<1>1. Visible /\ UNCHANGED <<app, tasks, opens>> /\ panel' = panel /\ frame' = frame
  BY DEF ClickTrigger
<1>2. choice' \in Choices /\ PopupsAreTheChoice'
  BY CloseChoiceFacts, OpenPopupFacts DEF ClickTrigger
<1>3. WindowIsSound'
  BY <1>1 DEF PanelInv, WindowIsSound, Visible
<1> QED BY <1>1, <1>2, <1>3, WindowStep

\* A key on a choice posts the message that opens its popup.
LEMMA KeyOnTriggerStep ==
  ASSUME PanelInv, NEW id \in ChoiceTriggers, KeyOnTrigger(id)
  PROVE  PanelInv'
<1>1. /\ Visible /\ UNCHANGED <<app, tasks, opens>> /\ panel' = panel /\ choice' = choice
      /\ popups' = popups /\ frame' = [frame EXCEPT !.msgs = Append(@, id)]
  BY DEF KeyOnTrigger
<1>2. FrameIsSound(frame)
  BY <1>1 DEF PanelInv, WindowIsSound
<1>3. FrameIsSound([frame EXCEPT !.msgs = Append(@, id)])
  BY <1>2, OtherMessage
<1>4. WindowIsSound'
  BY <1>1, <1>3 DEF WindowIsSound, Visible
<1>5. choice' \in Choices /\ PopupsAreTheChoice'
  BY <1>1 DEF PanelInv, PanelStateTypes, PopupsAreTheChoice
<1> QED BY <1>1, <1>4, <1>5, WindowStep

\* A window with messages or a call of its own is there.
LEMMA DueMeansVisible ==
  ASSUME PanelInv, frame.msgs # <<>> \/ frame.direct # "none"
  PROVE  Visible /\ FrameIsSound(frame)
BY DEF PanelInv, WindowIsSound, NoFrame

\* The posted message opens the popup that was asked for.
LEMMA OpenRequestedStep == ASSUME PanelInv, OpenRequested PROVE PanelInv'
<1> DEFINE s == Tail(frame.msgs)
<1>1. /\ UNCHANGED <<app, tasks, opens>> /\ panel' = panel
      /\ frame.msgs # <<>> /\ Head(frame.msgs) \in ChoiceTriggers
      /\ frame' = [frame EXCEPT !.msgs = s]
  BY DEF OpenRequested
<1>2. Visible /\ FrameIsSound(frame)
  BY <1>1, DueMeansVisible
<1>3. FrameIsSound([frame EXCEPT !.msgs = s])
  BY <1>1, <1>2, OtherMessage
<1>4. WindowIsSound'
  BY <1>1, <1>2, <1>3 DEF WindowIsSound, Visible
<1>5. choice' \in Choices /\ PopupsAreTheChoice'
  BY <1>1, OpenPopupFacts DEF OpenRequested
<1> QED BY <1>1, <1>4, <1>5, WindowStep

\* A popup that closes by itself reports it.
LEMMA DismissPopupStep ==
  ASSUME PanelInv, NEW serial \in popups, DismissPopup(serial)
  PROVE  PanelInv'
<1>1. /\ UNCHANGED <<app, tasks, opens>> /\ panel' = panel /\ frame' = frame
      /\ popups' = popups \ {serial} /\ choice' = Reported(serial)
  BY DEF DismissPopup
<1>2. choice' \in Choices /\ PopupsAreTheChoice' /\ popups' = {}
  BY <1>1, ReportedFacts
<1>3. WindowIsSound'
  BY <1>1, <1>2 DEF PanelInv, WindowIsSound, Visible
<1> QED BY <1>1, <1>2, <1>3, WindowStep

\* A handler of the frame leaves a sound window, or none.
LEMMA FramedStep ==
  ASSUME PanelInv, Visible, NEW f, f = NoFrame \/ FrameIsSound(f), NEW closes \in BOOLEAN,
         Framed(f, closes), UNCHANGED <<app, tasks, opens>>
  PROVE  PanelInv'
<1>1. CASE f = NoFrame
  BY <1>1, DestroyFacts, WindowStep DEF Framed
<1>2. CASE f # NoFrame
  <2>1. frame' = f /\ panel' = panel /\ FrameIsSound(f)
    BY <1>2 DEF Framed
  <2>2. choice' \in Choices /\ PopupsAreTheChoice'
    <3>1. CASE closes
      BY <1>2, <3>1, CloseChoiceFacts DEF Framed
    <3>2. CASE ~closes
      BY <1>2, <3>2 DEF Framed, PanelInv, PanelStateTypes, PopupsAreTheChoice
    <3> QED BY <3>1, <3>2
  <2>3. WindowIsSound'
    BY <2>1 DEF WindowIsSound, Visible
  <2> QED BY <2>1, <2>2, <2>3, WindowStep
<1> QED BY <1>1, <1>2

\* WM_DPICHANGED on a panel that is on the screen.
LEMMA ChangeDPIStep == ASSUME PanelInv, ChangeDPI PROVE PanelInv'
<1>1. PICK dpi \in DPIs, posted \in BOOLEAN : Framed(QueueDPI(frame, dpi, posted), FALSE)
  BY DEF ChangeDPI
<1>2. Visible /\ frame.direct = "none" /\ UNCHANGED <<app, tasks, opens>>
  BY DEF ChangeDPI, Free
<1>3. frame \in Frames /\ Flagged(frame) /\ frame.ready <= frame.generation
  BY <1>2 DEF PanelInv, WindowIsSound, FrameIsSound, WorkedOff
<1>4. FrameIsSound(QueueDPI(frame, dpi, posted))
  BY <1>2, <1>3, QueueDPIFacts
<1> QED BY <1>1, <1>2, <1>4, FramedStep

\* wmApplyDPI.
LEMMA ApplyStep == ASSUME PanelInv, Apply PROVE PanelInv'
<1>1. PICK lost \in SUBSET {"fonts", "place"}, nested \in DPIs \cup {0}, posted \in BOOLEAN :
         Framed(ApplyDPI(frame, lost, nested, posted), frame.pending # 0)
  BY DEF Apply
<1>2. /\ UNCHANGED <<app, tasks, opens>>
      /\ \/ frame.direct = "apply"
         \/ frame.direct = "none" /\ frame.msgs # <<>> /\ Head(frame.msgs) = "apply"
  BY DEF Apply, Due, Free
<1>3. Visible /\ FrameIsSound(frame)
  BY <1>2, DueMeansVisible
<1>4. FrameIsSound(ApplyDPI(frame, lost, nested, posted))
  BY <1>2, <1>3, ApplyDPIFacts
<1> QED BY <1>1, <1>2, <1>3, <1>4, FramedStep

\* wmCommitDPI.
LEMMA CommitStep == ASSUME PanelInv, Commit PROVE PanelInv'
<1>1. PICK fits \in BOOLEAN, posted \in BOOLEAN : Framed(CommitDPI(frame, fits, posted), FALSE)
  BY DEF Commit
<1>2. /\ UNCHANGED <<app, tasks, opens>>
      /\ \/ frame.direct = "commit"
         \/ frame.direct = "none" /\ frame.msgs # <<>> /\ Head(frame.msgs) = "commit"
  BY DEF Commit, Due, Free
<1>3. Visible /\ FrameIsSound(frame)
  BY <1>2, DueMeansVisible
<1>4. CommitDPI(frame, fits, posted) = NoFrame \/ FrameIsSound(CommitDPI(frame, fits, posted))
  BY <1>2, <1>3, CommitDPIFacts
<1> QED BY <1>1, <1>2, <1>3, <1>4, FramedStep

\* A change of the colours rebuilds the frame.
LEMMA ChangeThemeStep == ASSUME PanelInv, ChangeTheme PROVE PanelInv'
<1>1. PICK failing \in 0 .. 3 : Framed(RefreshTheme(frame, failing), TRUE)
  BY DEF ChangeTheme
<1>2. Visible /\ UNCHANGED <<app, tasks, opens>>
  BY DEF ChangeTheme
<1>3. FrameIsSound(frame)
  BY <1>2 DEF PanelInv, WindowIsSound
<1>4. RefreshTheme(frame, failing) = NoFrame \/ FrameIsSound(RefreshTheme(frame, failing))
  BY <1>3, RefreshThemeFacts
<1> QED BY <1>1, <1>2, <1>4, FramedStep
-----------------------------------------------------------------------------
(* An opening goes its way *)

\* The tasks, when the first of them is done.
LEMMA TasksShrink ==
  ASSUME PanelInv, cfg' = cfg, tasks # <<>>, tasks' = Tail(tasks)
  PROVE  /\ TasksHold' /\ tasks' \in Seq(PanelTasks)
         /\ LastUpdateHolds => LastUpdateHolds'
         /\ NoUpdates' /\ Head(tasks).do # "automation" => NoUpdates
<1>1. tasks \in Seq(PanelTasks) /\ TasksHold
  BY DEF PanelInv, PanelStateTypes, SnapshotsHold
<1>2. /\ tasks' \in Seq(PanelTasks)
      /\ \A i \in DOMAIN tasks' : i \in Nat /\ i + 1 \in DOMAIN tasks /\ tasks'[i] = tasks[i + 1]
      /\ \A i \in DOMAIN tasks : i = 1 \/ (i - 1 \in DOMAIN tasks' /\ tasks'[i - 1] = tasks[i])
      /\ \A i \in DOMAIN tasks : i \in Nat
      /\ tasks[1] = Head(tasks)
  BY <1>1
<1>3. TasksHold'
  <2>1. ASSUME NEW i \in DOMAIN tasks', Shown(i)', ~tasks'[i].overtaken
        PROVE  tasks'[i].cfg = cfg' /\ \A j \in DOMAIN tasks' : j > i => ~Updates(j)'
    <3>1. i + 1 \in DOMAIN tasks /\ Shown(i + 1) /\ ~tasks[i + 1].overtaken /\ tasks'[i] = tasks[i + 1]
      BY <1>2, <2>1 DEF Shown
    <3>2. tasks[i + 1].cfg = cfg /\ \A j \in DOMAIN tasks : j > i + 1 => ~Updates(j)
      BY <1>1, <3>1 DEF TasksHold
    <3>3. \A j \in DOMAIN tasks' : j > i => j + 1 > i + 1
      BY <1>2
    <3> QED BY <1>2, <3>1, <3>2, <3>3 DEF Updates
  <2> QED BY <2>1 DEF TasksHold
<1>4. LastUpdateHolds => LastUpdateHolds'
  <2>1. ASSUME LastUpdateHolds, NEW i \in DOMAIN tasks', Updates(i)',
               \A j \in DOMAIN tasks' : j > i => ~Updates(j)'
        PROVE  tasks'[i].on = cfg'.automation
    <3>1. i + 1 \in DOMAIN tasks /\ Updates(i + 1) /\ tasks'[i] = tasks[i + 1] /\ i \in Nat
      BY <1>2, <2>1 DEF Updates
    <3>2. \A j \in DOMAIN tasks : j > i + 1 => ~Updates(j)
      <4> SUFFICES ASSUME NEW j \in DOMAIN tasks, j > i + 1, Updates(j) PROVE FALSE
        OBVIOUS
      <4>1. j - 1 \in DOMAIN tasks' /\ Updates(j - 1)' /\ j - 1 > i
        BY <1>2, <3>1 DEF Updates
      <4> QED BY <2>1, <4>1
    <3> QED BY <2>1, <3>1, <3>2 DEF LastUpdateHolds
  <2> QED BY <2>1 DEF LastUpdateHolds
<1>5. NoUpdates' /\ Head(tasks).do # "automation" => NoUpdates
  BY <1>2 DEF NoUpdates
<1> QED BY <1>2, <1>3, <1>4, <1>5

\* The tasks, when a snapshot is added or a task that shows nothing is done.
LEMMA TasksGoOn ==
  ASSUME PanelInv, cfg' = cfg,
         \/ tasks' = tasks
         \/ tasks # <<>> /\ tasks' = Tail(tasks) /\ Head(tasks).do \in {"reopen", "hide"}
         \/ \E snap \in ready : tasks' = Append(tasks, snap)
  PROVE  /\ TasksHold' /\ tasks' \in Seq(PanelTasks)
         /\ LastUpdateHolds => LastUpdateHolds'
         /\ NoUpdates' => NoUpdates
<1>1. tasks \in Seq(PanelTasks) /\ TasksHold /\ SnapshotsHold /\ ready \in SUBSET Snaps
  BY DEF PanelInv, PanelStateTypes, SnapshotsHold
<1>2. CASE tasks' = tasks
  BY <1>1, <1>2 DEF TasksHold, LastUpdateHolds, NoUpdates, Shown, Updates
<1>3. CASE tasks # <<>> /\ tasks' = Tail(tasks) /\ Head(tasks).do \in {"reopen", "hide"}
  BY <1>3, TasksShrink
<1>4. CASE \E snap \in ready : tasks' = Append(tasks, snap)
  <2>1. PICK snap \in ready : tasks' = Append(tasks, snap)
    BY <1>4
  <2>2. snap \in PanelTasks /\ snap.do # "automation" /\ (~snap.overtaken => snap.cfg = cfg)
    BY <1>1 DEF SnapshotsHold, Snaps, PanelTasks
  <2> DEFINE k == Len(tasks) + 1
  <2>3. /\ tasks' \in Seq(PanelTasks)
        /\ k \in DOMAIN tasks' /\ tasks'[k] = snap
        /\ \A i \in DOMAIN tasks' : i = k \/ i \in DOMAIN tasks
        /\ \A i \in DOMAIN tasks : i \in DOMAIN tasks' /\ tasks'[i] = tasks[i]
        /\ \A i \in DOMAIN tasks' : ~(i > k)
    BY <1>1, <2>1, <2>2
  <2> HIDE DEF k
  <2>4. \A i \in DOMAIN tasks' : Updates(i)' => i \in DOMAIN tasks /\ Updates(i)
    BY <2>2, <2>3 DEF Updates
  <2>5. \A i \in DOMAIN tasks : Updates(i) => i \in DOMAIN tasks' /\ Updates(i)'
    BY <2>3 DEF Updates
  <2>6. TasksHold'
    <3>1. ASSUME NEW i \in DOMAIN tasks', Shown(i)', ~tasks'[i].overtaken
          PROVE  tasks'[i].cfg = cfg' /\ \A j \in DOMAIN tasks' : j > i => ~Updates(j)'
      <4>1. CASE i = k
        BY <2>2, <2>3, <3>1, <4>1
      <4>2. CASE i \in DOMAIN tasks
        BY <1>1, <2>3, <2>4, <3>1, <4>2 DEF TasksHold, Shown
      <4> QED BY <2>3, <4>1, <4>2
    <3> QED BY <3>1 DEF TasksHold
  <2>7. LastUpdateHolds => LastUpdateHolds'
    BY <2>3, <2>4, <2>5 DEF LastUpdateHolds
  <2>8. NoUpdates' => NoUpdates
    BY <2>3 DEF NoUpdates
  <2> QED BY <2>3, <2>6, <2>7, <2>8
<1> QED BY <1>2, <1>3, <1>4

\* The calls, when one is added that is no click on the panel, or one is done
\* that changes nothing.
LEMMA CallsGoOn ==
  ASSUME PanelInv, cfg' = cfg, panel' = panel,
         \/ calls' = calls
         \/ calls # <<>> /\ calls' = Tail(calls) /\ ~Clicked(Head(calls), panel.n)
         \/ \E call \in PanelCalls : calls' = Append(calls, call) /\ ~Clicked(call, panel.n)
  PROVE  /\ calls' \in Seq(PanelCalls)
         /\ After(cfg', calls', panel'.n) = After(cfg, calls, panel.n)
         /\ NoOwnUpdate' => NoOwnUpdate
<1>1. calls \in Seq(PanelCalls)
  BY DEF PanelInv, PanelStateTypes
<1>2. CASE calls' = calls
  BY <1>1, <1>2 DEF NoOwnUpdate, OwnUpdate
<1>3. CASE calls # <<>> /\ calls' = Tail(calls) /\ ~Clicked(Head(calls), panel.n)
  <2>1. /\ calls' \in Seq(PanelCalls) /\ calls[1] = Head(calls)
        /\ \A i \in DOMAIN calls : i = 1 \/ (i - 1 \in DOMAIN calls' /\ calls'[i - 1] = calls[i])
    BY <1>1, <1>3
  <2>2. ~Clicked(Head(calls), panel.n)
    BY <1>3
  <2>3. Served(cfg, Head(calls), panel.n) = cfg
    BY <2>2 DEF Served
  <2>4. After(cfg, calls, panel.n) = After(cfg, Tail(calls), panel.n)
    BY <1>1, <1>3, <2>3, AfterHead
  <2>5. NoOwnUpdate' => NoOwnUpdate
    BY <2>1, <2>2 DEF NoOwnUpdate, OwnUpdate
  <2> QED BY <1>3, <2>1, <2>4, <2>5
<1>4. CASE \E call \in PanelCalls : calls' = Append(calls, call) /\ ~Clicked(call, panel.n)
  <2>1. PICK call \in PanelCalls : calls' = Append(calls, call) /\ ~Clicked(call, panel.n)
    BY <1>4
  <2>2. /\ calls' \in Seq(PanelCalls)
        /\ \A i \in DOMAIN calls : i \in DOMAIN calls' /\ calls'[i] = calls[i]
    BY <1>1, <2>1
  <2>3. After(cfg, Append(calls, call), panel.n) = After(cfg, calls, panel.n)
    BY <1>1, <2>1, AfterAppend DEF Served
  <2>4. NoOwnUpdate' => NoOwnUpdate
    BY <2>2 DEF NoOwnUpdate, OwnUpdate
  <2> QED BY <2>1, <2>2, <2>3, <2>4
<1> QED BY <1>2, <1>3, <1>4

\* Nothing happens to the settings or the panel: what they show still holds.
LEMMA SettingsStay ==
  ASSUME PanelInv, cfg' = cfg, panel' = panel,
         \/ calls' = calls
         \/ calls # <<>> /\ calls' = Tail(calls) /\ ~Clicked(Head(calls), panel.n)
         \/ \E call \in PanelCalls : calls' = Append(calls, call) /\ ~Clicked(call, panel.n),
         \/ tasks' = tasks
         \/ tasks # <<>> /\ tasks' = Tail(tasks) /\ Head(tasks).do \in {"reopen", "hide"}
         \/ \E snap \in ready : tasks' = Append(tasks, snap),
         \A snap \in ready' : snap \in ready \/ snap.cfg = cfg
  PROVE  /\ SnapshotsHold' /\ AutomationIsTold' /\ SwitchesFollow'
         /\ calls' \in Seq(PanelCalls) /\ tasks' \in Seq(PanelTasks)
<1>1. SnapshotsHold /\ AutomationIsTold /\ SwitchesFollow
  BY DEF PanelInv
<1>2. /\ calls' \in Seq(PanelCalls)
      /\ After(cfg', calls', panel'.n) = After(cfg, calls, panel.n)
      /\ NoOwnUpdate' => NoOwnUpdate
  BY CallsGoOn
<1>3. /\ TasksHold' /\ tasks' \in Seq(PanelTasks)
      /\ LastUpdateHolds => LastUpdateHolds'
      /\ NoUpdates' => NoUpdates
  BY TasksGoOn
<1>4. SnapshotsHold'
  BY <1>1, <1>3 DEF SnapshotsHold
<1>5. AutomationIsTold'
  BY <1>1, <1>2, <1>3 DEF AutomationIsTold, Visible
<1>6. SwitchesFollow'
  BY <1>1, <1>2 DEF SwitchesFollow, Visible
<1> QED BY <1>2, <1>3, <1>4, <1>5, <1>6

\* A goroutine starts with a number that nobody has.
LEMMA NumbersBegin ==
  ASSUME PanelInv, NEW refresh \in BOOLEAN, Begin(refresh), calls' = calls, ready' = ready,
         panel' = panel, TasksFrom(0) \/ TasksFrom(1)
  PROVE  NumbersAreGiven' /\ NumbersDiffer' /\ ComingIsUnused'
<1> DEFINE m == opens + 1
           new == [n |-> m, refresh |-> refresh]
<1>1. opens \in Nat /\ NumbersAreGiven /\ NumbersDiffer /\ ComingIsUnused /\ calls \in Seq(PanelCalls)
  BY DEF PanelInv, PanelStateTypes
<1>2. opens' = m /\ starting' = starting \cup {new} /\ new.n = m
  BY DEF Begin
<1>3. m \in 1 .. m /\ \A n \in 1 .. opens : n # m /\ n \in 1 .. m
  BY <1>1
<1>4. PICK e \in {0, 1} : TasksFrom(e)
  OBVIOUS
<1>5. \A i \in DOMAIN tasks' : Shown(i)' =>
         i + e \in DOMAIN tasks /\ Shown(i + e) /\ tasks'[i].n = tasks[i + e].n
  BY <1>4 DEF TasksFrom
<1>6. \A i, j \in DOMAIN tasks' : i + e = j + e => i = j
  <2>1. \A i \in DOMAIN tasks' : i \in Nat
    BY <1>4 DEF TasksFrom
  <2> QED BY <2>1
<1> HIDE DEF m, new
<1>7. NumbersAreGiven'
  <2>1. \A g \in starting' : g.n \in 1 .. opens'
    BY <1>1, <1>2, <1>3 DEF NumbersAreGiven
  <2>2. \A i \in DOMAIN calls' : calls'[i].do \in {"snapshot", "action"} => calls'[i].by \in 1 .. opens'
    BY <1>1, <1>2, <1>3 DEF NumbersAreGiven
  <2>3. \A s \in ready' : s.n \in 1 .. opens'
    BY <1>1, <1>2, <1>3 DEF NumbersAreGiven
  <2>4. \A i \in DOMAIN tasks' : Shown(i)' => tasks'[i].n \in 1 .. opens'
    BY <1>1, <1>2, <1>3, <1>5 DEF NumbersAreGiven
  <2>5. Visible' => panel'.n \in 1 .. opens'
    BY <1>1, <1>2, <1>3 DEF NumbersAreGiven, Visible
  <2> QED BY <2>1, <2>2, <2>3, <2>4, <2>5 DEF NumbersAreGiven
<1>8. /\ \A g \in starting : g.n # m
      /\ \A i \in DOMAIN calls : calls[i].do \in {"snapshot", "action"} => calls[i].by # m
      /\ \A s \in ready : s.n # m
      /\ \A i \in DOMAIN tasks : Shown(i) => tasks[i].n # m
      /\ Visible => panel.n # m
  BY <1>1, <1>3 DEF NumbersAreGiven
<1>9. NumbersDiffer'
  <2>1. \A g, h \in starting' : g.n = h.n => g = h
    BY <1>1, <1>2, <1>8 DEF NumbersDiffer
  <2>2. \A i, j \in DOMAIN calls' : Asks(i)' /\ Asks(j)' /\ calls'[i].by = calls'[j].by => i = j
    BY <1>1 DEF NumbersDiffer, Asks
  <2>3. \A s, t \in ready' : s.n = t.n => s = t
    BY <1>1 DEF NumbersDiffer
  <2>4. \A i, j \in DOMAIN tasks' : Shown(i)' /\ Shown(j)' /\ tasks'[i].n = tasks'[j].n => i = j
    BY <1>1, <1>5, <1>6 DEF NumbersDiffer
  <2>5. \A g \in starting' :
          /\ \A i \in DOMAIN calls' : Asks(i)' => calls'[i].by # g.n
          /\ \A t \in ready' : t.n # g.n
          /\ \A i \in DOMAIN tasks' : Shown(i)' => tasks'[i].n # g.n
    BY <1>1, <1>2, <1>5, <1>8 DEF NumbersDiffer, Asks
  <2>6. \A i \in DOMAIN calls' : Asks(i)' =>
          /\ \A t \in ready' : t.n # calls'[i].by
          /\ \A j \in DOMAIN tasks' : Shown(j)' => tasks'[j].n # calls'[i].by
    BY <1>1, <1>5 DEF NumbersDiffer, Asks
  <2>7. \A t \in ready' : \A j \in DOMAIN tasks' : Shown(j)' => tasks'[j].n # t.n
    BY <1>1, <1>5 DEF NumbersDiffer
  <2> QED BY <2>1, <2>2, <2>3, <2>4, <2>5, <2>6, <2>7 DEF NumbersDiffer
<1>10. \A n : Unused(n) => Unused(n)'
  BY DEF Unused, Visible
<1>11. Unused(m)
  BY <1>8 DEF Unused, Clicked
<1>12. \A n : Comes(n)' => Comes(n) \/ n = m
  <2> SUFFICES ASSUME NEW n, Comes(n)', n # m PROVE Comes(n)
    OBVIOUS
  <2>1. CASE \E g \in starting' : g.n = n
    BY <1>2, <2>1 DEF Comes
  <2>2. CASE \E i \in DOMAIN calls' : Asks(i)' /\ calls'[i].by = n
    BY <2>2 DEF Comes, Asks
  <2>3. CASE \E s \in ready' : s.n = n
    BY <2>3 DEF Comes
  <2>4. CASE \E i \in DOMAIN tasks' : Shown(i)' /\ tasks'[i].n = n
    BY <1>5, <2>4 DEF Comes
  <2> QED BY <2>1, <2>2, <2>3, <2>4 DEF Comes
<1>13. \A n \in 1 .. opens' : n \in 1 .. opens \/ n = m
  BY <1>1, <1>2 DEF m
<1>14. ComingIsUnused'
  BY <1>1, <1>10, <1>11, <1>12, <1>13 DEF ComingIsUnused
<1> QED BY <1>7, <1>9, <1>14

\* A goroutine asks for its snapshot.
LEMMA NumbersAsk ==
  ASSUME PanelInv, NEW g \in starting, Ask(g)
  PROVE  NumbersAreGiven' /\ NumbersDiffer' /\ ComingIsUnused'
<1> DEFINE m == Len(calls) + 1
<1>1. NumbersAreGiven /\ NumbersDiffer /\ ComingIsUnused /\ calls \in Seq(PanelCalls)
  BY DEF PanelInv, PanelStateTypes
<1>2. /\ starting' = starting \ {g} /\ ready' = ready /\ tasks' = tasks /\ opens' = opens
      /\ panel' = panel
      /\ calls' = Append(calls, [do |-> "snapshot", by |-> g.n, refresh |-> g.refresh])
  BY DEF Ask, ui
<1>3. /\ \A i \in DOMAIN calls' : i = m \/ (i # m /\ i \in DOMAIN calls /\ calls'[i] = calls[i])
      /\ \A i \in DOMAIN calls : i \in DOMAIN calls' /\ calls'[i] = calls[i]
      /\ calls'[m].do = "snapshot" /\ calls'[m].by = g.n
  BY <1>1, <1>2
<1> HIDE DEF m
<1>4. NumbersAreGiven'
  <2>1. \A i \in DOMAIN calls' : calls'[i].do \in {"snapshot", "action"} => calls'[i].by \in 1 .. opens'
    BY <1>1, <1>2, <1>3 DEF NumbersAreGiven
  <2> QED BY <1>1, <1>2, <2>1 DEF NumbersAreGiven, Shown, Visible
<1>5. NumbersDiffer'
  <2>1. \A h, k \in starting' : h.n = k.n => h = k
    BY <1>1, <1>2 DEF NumbersDiffer
  <2>2. \A i, j \in DOMAIN calls' : Asks(i)' /\ Asks(j)' /\ calls'[i].by = calls'[j].by => i = j
    BY <1>1, <1>3 DEF NumbersDiffer, Asks
  <2>3. \A s, t \in ready' : s.n = t.n => s = t
    BY <1>1, <1>2 DEF NumbersDiffer
  <2>4. \A i, j \in DOMAIN tasks' : Shown(i)' /\ Shown(j)' /\ tasks'[i].n = tasks'[j].n => i = j
    BY <1>1, <1>2 DEF NumbersDiffer, Shown
  <2>5. \A h \in starting' :
          /\ \A i \in DOMAIN calls' : Asks(i)' => calls'[i].by # h.n
          /\ \A t \in ready' : t.n # h.n
          /\ \A i \in DOMAIN tasks' : Shown(i)' => tasks'[i].n # h.n
    BY <1>1, <1>2, <1>3 DEF NumbersDiffer, Asks, Shown
  <2>6. \A i \in DOMAIN calls' : Asks(i)' =>
          /\ \A t \in ready' : t.n # calls'[i].by
          /\ \A j \in DOMAIN tasks' : Shown(j)' => tasks'[j].n # calls'[i].by
    BY <1>1, <1>2, <1>3 DEF NumbersDiffer, Asks, Shown
  <2>7. \A t \in ready' : \A j \in DOMAIN tasks' : Shown(j)' => tasks'[j].n # t.n
    BY <1>1, <1>2 DEF NumbersDiffer, Shown
  <2> QED BY <2>1, <2>2, <2>3, <2>4, <2>5, <2>6, <2>7 DEF NumbersDiffer
<1>6. \A n : Unused(n) => Unused(n)'
  BY <1>2, <1>3 DEF Unused, Visible, Clicked
<1>7. \A n : Comes(n)' => Comes(n)
  BY <1>2, <1>3 DEF Comes, Asks, Shown
<1>8. ComingIsUnused'
  BY <1>1, <1>2, <1>6, <1>7 DEF ComingIsUnused
<1> QED BY <1>4, <1>5, <1>8

\* The request loop takes the snapshot.
LEMMA NumbersTaken ==
  ASSUME PanelInv, calls # <<>>, Head(calls).do = "snapshot", calls' = Tail(calls),
         NEW snap, snap.n = Head(calls).by, ready' = ready \cup {snap},
         UNCHANGED <<starting, tasks, opens, panel>>
  PROVE  NumbersAreGiven' /\ NumbersDiffer' /\ ComingIsUnused'
<1>1. NumbersAreGiven /\ NumbersDiffer /\ ComingIsUnused /\ calls \in Seq(PanelCalls)
  BY DEF PanelInv, PanelStateTypes
<1>2. /\ 1 \in DOMAIN calls /\ calls[1].do = "snapshot" /\ snap.n = calls[1].by
      /\ \A i \in DOMAIN calls' :
             i \in Nat /\ i + 1 \in DOMAIN calls /\ i + 1 # 1 /\ calls'[i] = calls[i + 1]
      /\ \A i, j \in DOMAIN calls' : i + 1 = j + 1 => i = j
  BY <1>1
<1>3. NumbersAreGiven'
  <2>1. \A i \in DOMAIN calls' : calls'[i].do \in {"snapshot", "action"} => calls'[i].by \in 1 .. opens'
    BY <1>1, <1>2 DEF NumbersAreGiven
  <2>2. \A s \in ready' : s.n \in 1 .. opens'
    BY <1>1, <1>2 DEF NumbersAreGiven
  <2> QED BY <1>1, <2>1, <2>2 DEF NumbersAreGiven, Shown, Visible
<1>4. NumbersDiffer'
  <2>1. \A g, h \in starting' : g.n = h.n => g = h
    BY <1>1 DEF NumbersDiffer
  <2>2. \A i, j \in DOMAIN calls' : Asks(i)' /\ Asks(j)' /\ calls'[i].by = calls'[j].by => i = j
    BY <1>1, <1>2 DEF NumbersDiffer, Asks
  <2>3. \A s, t \in ready' : s.n = t.n => s = t
    BY <1>1, <1>2 DEF NumbersDiffer, Asks
  <2>4. \A i, j \in DOMAIN tasks' : Shown(i)' /\ Shown(j)' /\ tasks'[i].n = tasks'[j].n => i = j
    BY <1>1 DEF NumbersDiffer, Shown
  <2>5. \A g \in starting' :
          /\ \A i \in DOMAIN calls' : Asks(i)' => calls'[i].by # g.n
          /\ \A t \in ready' : t.n # g.n
          /\ \A i \in DOMAIN tasks' : Shown(i)' => tasks'[i].n # g.n
    BY <1>1, <1>2 DEF NumbersDiffer, Asks, Shown
  <2>6. \A i \in DOMAIN calls' : Asks(i)' =>
          /\ \A t \in ready' : t.n # calls'[i].by
          /\ \A j \in DOMAIN tasks' : Shown(j)' => tasks'[j].n # calls'[i].by
    BY <1>1, <1>2 DEF NumbersDiffer, Asks, Shown
  <2>7. \A t \in ready' : \A j \in DOMAIN tasks' : Shown(j)' => tasks'[j].n # t.n
    BY <1>1, <1>2 DEF NumbersDiffer, Asks, Shown
  <2> QED BY <2>1, <2>2, <2>3, <2>4, <2>5, <2>6, <2>7 DEF NumbersDiffer
<1>5. \A n : Unused(n) => Unused(n)'
  BY <1>2 DEF Unused, Visible, Clicked
<1>6. \A n : Comes(n)' => Comes(n)
  BY <1>2 DEF Comes, Asks, Shown
<1>7. ComingIsUnused'
  BY <1>1, <1>5, <1>6 DEF ComingIsUnused
<1> QED BY <1>3, <1>4, <1>7

\* The goroutine posts its task.
LEMMA NumbersSent ==
  ASSUME PanelInv, NEW snap \in ready, Send(snap)
  PROVE  NumbersAreGiven' /\ NumbersDiffer' /\ ComingIsUnused'
<1> DEFINE m == Len(tasks) + 1
<1>1. /\ NumbersAreGiven /\ NumbersDiffer /\ ComingIsUnused /\ tasks \in Seq(PanelTasks)
  BY DEF PanelInv, PanelStateTypes
<1>2. /\ ready' = ready \ {snap} /\ tasks' = Append(tasks, snap) /\ opens' = opens
      /\ panel' = panel /\ starting' = starting /\ calls' = calls
  BY DEF Send, ui
<1>3. /\ \A i \in DOMAIN tasks' : i = m \/ (i # m /\ i \in DOMAIN tasks /\ tasks'[i] = tasks[i])
      /\ tasks'[m] = snap
  BY <1>1, <1>2
<1> HIDE DEF m
<1>4. NumbersAreGiven'
  <2>1. \A i \in DOMAIN tasks' : Shown(i)' => tasks'[i].n \in 1 .. opens'
    BY <1>1, <1>2, <1>3 DEF NumbersAreGiven, Shown
  <2>2. \A s \in ready' : s.n \in 1 .. opens'
    BY <1>1, <1>2 DEF NumbersAreGiven
  <2> QED BY <1>1, <1>2, <2>1, <2>2 DEF NumbersAreGiven, Visible
<1>5. NumbersDiffer'
  <2>1. \A g, h \in starting' : g.n = h.n => g = h
    BY <1>1, <1>2 DEF NumbersDiffer
  <2>2. \A i, j \in DOMAIN calls' : Asks(i)' /\ Asks(j)' /\ calls'[i].by = calls'[j].by => i = j
    BY <1>1, <1>2 DEF NumbersDiffer, Asks
  <2>3. \A s, t \in ready' : s.n = t.n => s = t
    BY <1>1, <1>2 DEF NumbersDiffer
  <2>4. \A i, j \in DOMAIN tasks' : Shown(i)' /\ Shown(j)' /\ tasks'[i].n = tasks'[j].n => i = j
    BY <1>1, <1>3 DEF NumbersDiffer, Shown
  <2>5. \A g \in starting' :
          /\ \A i \in DOMAIN calls' : Asks(i)' => calls'[i].by # g.n
          /\ \A t \in ready' : t.n # g.n
          /\ \A i \in DOMAIN tasks' : Shown(i)' => tasks'[i].n # g.n
    BY <1>1, <1>2, <1>3 DEF NumbersDiffer, Asks, Shown
  <2>6. \A i \in DOMAIN calls' : Asks(i)' =>
          /\ \A t \in ready' : t.n # calls'[i].by
          /\ \A j \in DOMAIN tasks' : Shown(j)' => tasks'[j].n # calls'[i].by
    BY <1>1, <1>2, <1>3 DEF NumbersDiffer, Asks, Shown
  <2>7. \A t \in ready' : \A j \in DOMAIN tasks' : Shown(j)' => tasks'[j].n # t.n
    BY <1>1, <1>2, <1>3 DEF NumbersDiffer, Shown
  <2> QED BY <2>1, <2>2, <2>3, <2>4, <2>5, <2>6, <2>7 DEF NumbersDiffer
<1>6. \A n : Unused(n) => Unused(n)'
  BY <1>2 DEF Unused, Visible, Clicked
<1>7. \A n : Comes(n)' => Comes(n)
  BY <1>2, <1>3 DEF Comes, Asks, Shown
<1>8. ComingIsUnused'
  BY <1>1, <1>2, <1>6, <1>7 DEF ComingIsUnused
<1> QED BY <1>4, <1>5, <1>8

\* The panel that was asked for is made; nobody has clicked on it yet.
LEMMA NumbersShown ==
  ASSUME PanelInv, tasks # <<>>, Head(tasks).do \in {"show", "refresh"}, tasks' = Tail(tasks),
         Visible' => panel'.n = Head(tasks).n,
         UNCHANGED <<starting, calls, ready, opens>>
  PROVE  NumbersAreGiven' /\ NumbersDiffer' /\ ComingIsUnused' /\ Unused(Head(tasks).n)
<1> DEFINE m == Head(tasks).n
<1>1. NumbersAreGiven /\ NumbersDiffer /\ ComingIsUnused /\ tasks \in Seq(PanelTasks)
  BY DEF PanelInv, PanelStateTypes
<1>2. /\ 1 \in DOMAIN tasks /\ Shown(1) /\ tasks[1].n = m
      /\ \A i \in DOMAIN tasks' :
             i \in Nat /\ i + 1 \in DOMAIN tasks /\ i + 1 # 1 /\ tasks'[i] = tasks[i + 1]
      /\ \A i, j \in DOMAIN tasks' : i + 1 = j + 1 => i = j
  BY <1>1 DEF Shown
<1> HIDE DEF m
<1>3. NumbersAreGiven'
  <2>1. \A i \in DOMAIN tasks' : Shown(i)' => tasks'[i].n \in 1 .. opens'
    BY <1>1, <1>2 DEF NumbersAreGiven, Shown
  <2>2. Visible' => panel'.n \in 1 .. opens'
    BY <1>1, <1>2 DEF NumbersAreGiven, m
  <2> QED BY <1>1, <2>1, <2>2 DEF NumbersAreGiven
<1>4. NumbersDiffer'
  <2>1. \A g, h \in starting' : g.n = h.n => g = h
    BY <1>1 DEF NumbersDiffer
  <2>2. \A i, j \in DOMAIN calls' : Asks(i)' /\ Asks(j)' /\ calls'[i].by = calls'[j].by => i = j
    BY <1>1 DEF NumbersDiffer, Asks
  <2>3. \A s, t \in ready' : s.n = t.n => s = t
    BY <1>1 DEF NumbersDiffer
  <2>4. \A i, j \in DOMAIN tasks' : Shown(i)' /\ Shown(j)' /\ tasks'[i].n = tasks'[j].n => i = j
    BY <1>1, <1>2 DEF NumbersDiffer, Shown
  <2>5. \A g \in starting' :
          /\ \A i \in DOMAIN calls' : Asks(i)' => calls'[i].by # g.n
          /\ \A t \in ready' : t.n # g.n
          /\ \A i \in DOMAIN tasks' : Shown(i)' => tasks'[i].n # g.n
    BY <1>1, <1>2 DEF NumbersDiffer, Asks, Shown
  <2>6. \A i \in DOMAIN calls' : Asks(i)' =>
          /\ \A t \in ready' : t.n # calls'[i].by
          /\ \A j \in DOMAIN tasks' : Shown(j)' => tasks'[j].n # calls'[i].by
    BY <1>1, <1>2 DEF NumbersDiffer, Asks, Shown
  <2>7. \A t \in ready' : \A j \in DOMAIN tasks' : Shown(j)' => tasks'[j].n # t.n
    BY <1>1, <1>2 DEF NumbersDiffer, Shown
  <2> QED BY <2>1, <2>2, <2>3, <2>4, <2>5, <2>6, <2>7 DEF NumbersDiffer
<1>5. m \in 1 .. opens /\ Comes(m)
  BY <1>1, <1>2 DEF NumbersAreGiven, Comes
<1>6. Unused(m)
  BY <1>1, <1>5 DEF ComingIsUnused
<1>7. \A n : Comes(n)' => Comes(n) /\ n # m
  <2> SUFFICES ASSUME NEW n, Comes(n)' PROVE Comes(n) /\ n # m
    OBVIOUS
  <2>1. CASE \E g \in starting' : g.n = n
    BY <1>1, <1>2, <2>1 DEF Comes, NumbersDiffer
  <2>2. CASE \E i \in DOMAIN calls' : Asks(i)' /\ calls'[i].by = n
    BY <1>1, <1>2, <2>2 DEF Comes, NumbersDiffer, Asks
  <2>3. CASE \E s \in ready' : s.n = n
    BY <1>1, <1>2, <2>3 DEF Comes, NumbersDiffer
  <2>4. CASE \E i \in DOMAIN tasks' : Shown(i)' /\ tasks'[i].n = n
    BY <1>1, <1>2, <2>4 DEF Comes, NumbersDiffer, Shown
  <2> QED BY <2>1, <2>2, <2>3, <2>4 DEF Comes
<1>8. \A n : Unused(n) /\ n # m => Unused(n)'
  BY DEF Unused, Clicked, m
<1>9. ComingIsUnused'
  BY <1>1, <1>7, <1>8 DEF ComingIsUnused
<1> QED BY <1>3, <1>4, <1>6, <1>9 DEF m

\* What is on the screen stays what it is.
LEMMA WindowStays ==
  ASSUME PanelInv, panel' = panel, frame' = frame, choice' = choice, popups' = popups
  PROVE  /\ PopupsAreTheChoice' /\ WindowIsSound' /\ choice' \in Choices
         /\ Visible' => panel' \in Panels
<1>1. PanelStateTypes /\ PopupsAreTheChoice /\ WindowIsSound
  BY DEF PanelInv
<1> QED BY <1>1 DEF PanelStateTypes, PopupsAreTheChoice, WindowIsSound, Visible

\* The refresh that is to come still does, unless it is just the last step of it.
LEMMA RefreshGoesOn ==
  ASSUME TextsAreReplaced, cfg' = cfg, panel' = panel, RefreshComes => RefreshComes'
  PROVE  TextsAreReplaced'
BY DEF TextsAreReplaced, Visible

\* The goroutine of a new opening (openControlPanel).
LEMMA BeginTyped ==
  ASSUME PanelInv, NEW refresh \in BOOLEAN, Begin(refresh)
  PROVE  opens' \in Nat /\ starting' \in SUBSET [n : Nat, refresh : BOOLEAN]
<1> DEFINE new == [n |-> opens + 1, refresh |-> refresh]
<1>1. opens \in Nat /\ starting \in SUBSET [n : Nat, refresh : BOOLEAN]
  BY DEF PanelInv, PanelStateTypes
<1>2. new \in [n : Nat, refresh : BOOLEAN]
  BY <1>1
<1>3. opens' = opens + 1 /\ starting' = starting \cup {new}
  BY DEF Begin
<1> HIDE DEF new
<1> QED BY <1>1, <1>2, <1>3

\* A click on the tray icon begins an opening.
LEMMA LeftClickStep == ASSUME PanelInv, LeftClick PROVE PanelInv'
<1>1. /\ Begin(FALSE) /\ cfg' = cfg /\ calls' = calls /\ ready' = ready /\ tasks' = tasks
      /\ panel' = panel /\ frame' = frame /\ choice' = choice /\ popups' = popups
  BY DEF LeftClick, ui
<1>2. PanelStateTypes /\ TextsAreReplaced
  BY DEF PanelInv
<1>3. TasksFrom(0)
  BY <1>1, QueuesMove
<1>4. NumbersAreGiven' /\ NumbersDiffer' /\ ComingIsUnused'
  BY <1>1, <1>3, NumbersBegin
<1>5. SnapshotsHold' /\ AutomationIsTold' /\ SwitchesFollow'
  BY <1>1, SettingsStay
<1>6. /\ PopupsAreTheChoice' /\ WindowIsSound' /\ choice' \in Choices
      /\ Visible' => panel' \in Panels
  BY <1>1, WindowStays
<1>7. PanelStateTypes'
  <2>1. opens' \in Nat /\ starting' \in SUBSET [n : Nat, refresh : BOOLEAN]
    BY <1>1, BeginTyped
  <2> QED BY <1>1, <1>2, <1>6, <2>1 DEF PanelStateTypes
<1>8. TextsAreReplaced'
  <2>1. RefreshComes => RefreshComes'
    BY <1>1 DEF RefreshComes, Asks, Begin
  <2> QED BY <1>1, <1>2, <2>1, RefreshGoesOn
<1> QED BY <1>4, <1>5, <1>6, <1>7, <1>8 DEF PanelInv

\* An opening asks the loop for its snapshot.
LEMMA AskStep == ASSUME PanelInv, NEW g \in starting, Ask(g) PROVE PanelInv'
<1> DEFINE call == [do |-> "snapshot", by |-> g.n, refresh |-> g.refresh]
<1>1. /\ starting' = starting \ {g} /\ calls' = Append(calls, call)
      /\ cfg' = cfg /\ ready' = ready /\ tasks' = tasks /\ opens' = opens
      /\ panel' = panel /\ frame' = frame /\ choice' = choice /\ popups' = popups
  BY DEF Ask, ui
<1>2. PanelStateTypes /\ TextsAreReplaced
  BY DEF PanelInv
<1>3. /\ call \in PanelCalls /\ ~Clicked(call, panel.n)
      /\ call.do = "snapshot" /\ call.refresh = g.refresh
  BY <1>2 DEF PanelStateTypes, PanelCalls, Clicked
<1> HIDE DEF call
<1>4. NumbersAreGiven' /\ NumbersDiffer' /\ ComingIsUnused'
  BY NumbersAsk
<1>5. SnapshotsHold' /\ AutomationIsTold' /\ SwitchesFollow' /\ calls' \in Seq(PanelCalls)
  BY <1>1, <1>3, SettingsStay
<1>6. /\ PopupsAreTheChoice' /\ WindowIsSound' /\ choice' \in Choices
      /\ Visible' => panel' \in Panels
  BY <1>1, WindowStays
<1>7. PanelStateTypes'
  BY <1>1, <1>2, <1>5, <1>6 DEF PanelStateTypes
<1>8. TextsAreReplaced'
  <2>1. calls \in Seq(PanelCalls)
    BY <1>2 DEF PanelStateTypes
  <2>2. /\ \A i \in DOMAIN calls : i \in DOMAIN calls' /\ calls'[i] = calls[i]
        /\ \E i \in DOMAIN calls' : calls'[i] = call
    BY <1>1, <2>1
  <2>3. RefreshComes => RefreshComes'
    <3>1. CASE \E h \in starting : h.refresh
      <4>1. PICK h \in starting : h.refresh
        BY <3>1
      <4>2. CASE h = g
        BY <1>3, <2>2, <4>1, <4>2 DEF RefreshComes, Asks
      <4>3. CASE h # g
        BY <1>1, <4>1, <4>3 DEF RefreshComes
      <4> QED BY <4>2, <4>3
    <3>2. CASE ~\E h \in starting : h.refresh
      BY <1>1, <2>2, <3>2 DEF RefreshComes, Asks
    <3> QED BY <3>1, <3>2
  <2> QED BY <1>1, <1>2, <2>3, RefreshGoesOn
<1> QED BY <1>4, <1>5, <1>6, <1>7, <1>8 DEF PanelInv

\* A snapshot is sent to the window thread.
LEMMA SendStep == ASSUME PanelInv, NEW snap \in ready, Send(snap) PROVE PanelInv'
<1>1. /\ ready' = ready \ {snap} /\ tasks' = Append(tasks, snap)
      /\ cfg' = cfg /\ starting' = starting /\ calls' = calls /\ opens' = opens
      /\ panel' = panel /\ frame' = frame /\ choice' = choice /\ popups' = popups
  BY DEF Send, ui
<1>2. PanelStateTypes /\ TextsAreReplaced
  BY DEF PanelInv
<1>3. NumbersAreGiven' /\ NumbersDiffer' /\ ComingIsUnused'
  BY NumbersSent
<1>4. SnapshotsHold' /\ AutomationIsTold' /\ SwitchesFollow' /\ tasks' \in Seq(PanelTasks)
  BY <1>1, SettingsStay
<1>5. /\ PopupsAreTheChoice' /\ WindowIsSound' /\ choice' \in Choices
      /\ Visible' => panel' \in Panels
  BY <1>1, WindowStays
<1>6. PanelStateTypes'
  BY <1>1, <1>2, <1>4, <1>5 DEF PanelStateTypes
<1>7. TextsAreReplaced'
  <2>1. tasks \in Seq(PanelTasks)
    BY <1>2 DEF PanelStateTypes
  <2>2. /\ \A i \in DOMAIN tasks : i \in DOMAIN tasks' /\ tasks'[i] = tasks[i]
        /\ \E i \in DOMAIN tasks' : tasks'[i] = snap
    BY <1>1, <2>1
  <2>3. RefreshComes => RefreshComes'
    <3>1. CASE \E t \in ready : t.do = "refresh"
      <4>1. PICK t \in ready : t.do = "refresh"
        BY <3>1
      <4>2. CASE t = snap
        BY <2>2, <4>1, <4>2 DEF RefreshComes
      <4>3. CASE t # snap
        BY <1>1, <4>1, <4>3 DEF RefreshComes
      <4> QED BY <4>2, <4>3
    <3>2. CASE ~\E t \in ready : t.do = "refresh"
      BY <1>1, <2>2, <3>2 DEF RefreshComes, Asks
    <3> QED BY <3>1, <3>2
  <2> QED BY <1>1, <1>2, <2>3, RefreshGoesOn
<1> QED BY <1>3, <1>4, <1>5, <1>6, <1>7 DEF PanelInv

\* A call that no panel made is posted.
LEMMA OutsideStep ==
  ASSUME PanelInv, NEW do \in {"hotkey", "reload"}, Outside(do)
  PROVE  PanelInv'
<1> DEFINE call == [do |-> do]
<1>1. /\ calls' = Append(calls, call)
      /\ cfg' = cfg /\ starting' = starting /\ ready' = ready /\ tasks' = tasks /\ opens' = opens
      /\ panel' = panel /\ frame' = frame /\ choice' = choice /\ popups' = popups
  BY DEF Outside, ui
<1>2. PanelStateTypes /\ TextsAreReplaced /\ NumbersDiffer
  BY DEF PanelInv
<1>3. call \in PanelCalls /\ ~Clicked(call, panel.n) /\ call.do \in {"hotkey", "reload"}
  BY DEF PanelCalls, Clicked
<1> HIDE DEF call
<1>4. SnapshotsHold' /\ AutomationIsTold' /\ SwitchesFollow' /\ calls' \in Seq(PanelCalls)
  BY <1>1, <1>3, SettingsStay
<1>5. /\ PopupsAreTheChoice' /\ WindowIsSound' /\ choice' \in Choices
      /\ Visible' => panel' \in Panels
  BY <1>1, WindowStays
<1>6. NumbersAreGiven' /\ NumbersDiffer' /\ ComingIsUnused'
  <2>1. calls \in Seq(PanelCalls)
    BY <1>2 DEF PanelStateTypes
  <2>2. CallsFrom(0)
    BY <1>1, <1>3, <2>1 DEF CallsFrom
  <2>3. TasksFrom(0)
    BY <1>1, QueuesMove
  <2>4. \A s, t \in ready' : s.n = t.n => s = t
    BY <1>1, <1>2 DEF NumbersDiffer
  <2> QED BY <1>1, <2>2, <2>3, <2>4, NumbersStay DEF Visible
<1>7. PanelStateTypes'
  BY <1>1, <1>2, <1>4, <1>5 DEF PanelStateTypes
<1>8. TextsAreReplaced'
  <2>1. calls \in Seq(PanelCalls)
    BY <1>2 DEF PanelStateTypes
  <2>2. \A i \in DOMAIN calls : i \in DOMAIN calls' /\ calls'[i] = calls[i]
    BY <1>1, <2>1
  <2>3. RefreshComes => RefreshComes'
    BY <1>1, <2>2 DEF RefreshComes, Asks
  <2> QED BY <1>1, <1>2, <2>3, RefreshGoesOn
<1> QED BY <1>4, <1>5, <1>6, <1>7, <1>8 DEF PanelInv
-----------------------------------------------------------------------------
(* The user clicks on the panel *)

\* Two panels show the same, but for the automation switch.
SameSwitches(s, t) ==
    (s.noSleep <=> t.noSleep) /\ (s.idle <=> t.idle) /\ (s.plain <=> t.plain) /\ s.language = t.language

\* Two panels agree but for the automation when their other switches do.
LEMMA WithoutMeans ==
  ASSUME NEW s \in Shows, NEW t \in Shows
  PROVE  Without(s) = Without(t) <=> SameSwitches(s, t)
<1>1. ASSUME NEW r \in Shows
      PROVE  /\ Without(r) \in Shows
             /\ Without(r).noSleep = r.noSleep /\ Without(r).idle = r.idle
             /\ Without(r).plain = r.plain /\ Without(r).language = r.language
             /\ Without(r).automation = FALSE
  BY DEF Without, Shows
<1>2. ASSUME NEW q \in Shows, NEW r \in Shows,
             q.noSleep = r.noSleep, q.idle = r.idle, q.plain = r.plain,
             q.language = r.language, q.automation = r.automation
      PROVE  q = r
  BY <1>2 DEF Shows
<1>3. ASSUME SameSwitches(s, t) PROVE Without(s) = Without(t)
  <2>1. /\ s.noSleep \in BOOLEAN /\ s.idle \in BOOLEAN /\ s.plain \in BOOLEAN
        /\ t.noSleep \in BOOLEAN /\ t.idle \in BOOLEAN /\ t.plain \in BOOLEAN
    BY DEF Shows
  <2>2. s.noSleep = t.noSleep /\ s.idle = t.idle /\ s.plain = t.plain /\ s.language = t.language
    BY <1>3, <2>1 DEF SameSwitches
  <2> DEFINE u == Without(s)
             v == Without(t)
  <2>3. /\ u \in Shows /\ v \in Shows
        /\ u.noSleep = v.noSleep /\ u.idle = v.idle /\ u.plain = v.plain
        /\ u.language = v.language /\ u.automation = v.automation
    BY <1>1, <2>2
  <2> HIDE DEF u, v
  <2>4. u = v
    BY <1>2, <2>3
  <2> QED BY <2>4 DEF u, v
<1>4. ASSUME Without(s) = Without(t) PROVE SameSwitches(s, t)
  <2> DEFINE u == Without(s)
             v == Without(t)
  <2>1. /\ u.noSleep = s.noSleep /\ u.idle = s.idle /\ u.plain = s.plain /\ u.language = s.language
        /\ v.noSleep = t.noSleep /\ v.idle = t.idle /\ v.plain = t.plain /\ v.language = t.language
    BY <1>1
  <2>2. u = v
    BY <1>4
  <2> HIDE DEF u, v
  <2>3. s.noSleep = t.noSleep /\ s.idle = t.idle /\ s.plain = t.plain /\ s.language = t.language
    BY <2>1, <2>2
  <2> QED BY <2>3 DEF SameSwitches
<1> QED BY <1>3, <1>4

\* The switches of settings are switches.
LEMMA SwitchesTyped ==
  ASSUME NEW c \in Configs
  PROVE  /\ Switches(c) \in Shows
         /\ Switches(c).noSleep = c.noSleep /\ Switches(c).idle = (c.minutes > 0)
         /\ Switches(c).automation = c.automation /\ Switches(c).plain = c.plain
         /\ Switches(c).language = c.language
BY DEF Switches, Configs, Shows

\* Choosing minutes changes them and, unless they are none, ends keeping awake.
LEMMA MinutesSetFacts ==
  ASSUME NEW c \in Configs, NEW m \in Minutes \cup {0}
  PROVE  LET d == MinutesSet(c, m)
         IN  /\ d \in Configs /\ d.minutes = m /\ d.noSleep = (IF m > 0 THEN FALSE ELSE c.noSleep)
             /\ d.plain = c.plain /\ d.language = c.language /\ d.automation = c.automation
BY DEF MinutesSet, Configs

\* What the panel makes of a click is what the settings become by it.
LEMMA FlippedFacts ==
  ASSUME NEW s \in Shows, NEW id \in {"noSleep", "idle", "automation", "plain"}
  PROVE  /\ Flipped(s, id) \in Shows
         /\ id # "automation" => Flipped(s, id).automation = s.automation
         /\ id \in {"automation", "plain"} => Flipped(s, id).idle = s.idle
         /\ \A c \in Configs, action \in PanelActions :
                SameSwitches(s, Switches(c)) /\ action.what = id =>
                SameSwitches(Flipped(s, id), Switches(Performed(c, action)))
<1>0. DefaultMinutes \in Minutes /\ Minutes \subseteq Nat \ {0} /\ DefaultMinutes > 0
  BY PanelAssumption
<1>1. CASE id = "noSleep"
  <2> DEFINE r == Flipped(s, id)
  <2>1. /\ r \in Shows /\ r.automation = s.automation /\ r.noSleep = ~s.noSleep
        /\ r.idle = (s.idle /\ s.noSleep) /\ r.plain = s.plain /\ r.language = s.language
    BY <1>1 DEF Flipped, Shows
  <2> HIDE DEF r
  <2>2. ASSUME NEW c \in Configs, NEW action \in PanelActions, SameSwitches(s, Switches(c)),
               action.what = id
        PROVE  SameSwitches(r, Switches(Performed(c, action)))
    <3> DEFINE d == Performed(c, action)
    <3>1. /\ d \in Configs /\ d.noSleep = ~c.noSleep /\ d.minutes = (IF ~c.noSleep THEN 0 ELSE c.minutes)
          /\ d.plain = c.plain /\ d.language = c.language
      BY <1>1, <2>2 DEF Performed, NoSleepSet, Configs
    <3> HIDE DEF d
    <3>2. (d.minutes > 0) <=> (c.noSleep /\ c.minutes > 0)
      BY <3>1
    <3>3. SameSwitches(r, Switches(d))
      BY <2>1, <2>2, <3>1, <3>2, SwitchesTyped DEF SameSwitches
    <3> QED BY <3>3 DEF d
  <2> QED BY <1>1, <2>1, <2>2 DEF r
<1>2. CASE id = "idle"
  <2> DEFINE r == Flipped(s, id)
  <2>1. /\ r \in Shows /\ r.automation = s.automation /\ r.idle = ~s.idle
        /\ r.noSleep = (s.noSleep /\ s.idle) /\ r.plain = s.plain /\ r.language = s.language
    BY <1>2 DEF Flipped, Shows
  <2> HIDE DEF r
  <2>2. ASSUME NEW c \in Configs, NEW action \in PanelActions, SameSwitches(s, Switches(c)),
               action.what = id
        PROVE  SameSwitches(r, Switches(Performed(c, action)))
    <3> DEFINE d == Performed(c, action)
    <3>1. /\ d \in Configs
          /\ d.minutes = (IF c.minutes > 0 THEN 0 ELSE DefaultMinutes)
          /\ d.noSleep = (IF c.minutes > 0 THEN c.noSleep ELSE FALSE)
          /\ d.plain = c.plain /\ d.language = c.language
      <4> DEFINE m == IF c.minutes > 0 THEN 0 ELSE DefaultMinutes
      <4>1. m \in Minutes \cup {0} /\ (m > 0 <=> ~(c.minutes > 0))
        BY <1>0 DEF Configs
      <4>2. d = MinutesSet(c, m)
        BY <1>2, <2>2 DEF Performed
      <4> HIDE DEF m, d
      <4>3. /\ d \in Configs /\ d.minutes = m /\ d.noSleep = (IF m > 0 THEN FALSE ELSE c.noSleep)
            /\ d.plain = c.plain /\ d.language = c.language
        BY <4>1, <4>2, MinutesSetFacts
      <4> QED BY <4>1, <4>3 DEF m
    <3> HIDE DEF d
    <3>2. (d.minutes > 0) <=> ~(c.minutes > 0)
      BY <1>0, <3>1
    <3>3. SameSwitches(r, Switches(d))
      BY <2>1, <2>2, <3>1, <3>2, SwitchesTyped DEF SameSwitches
    <3> QED BY <3>3 DEF d
  <2> QED BY <1>2, <2>1, <2>2 DEF r
<1>3. CASE id \in {"automation", "plain"}
  <2> DEFINE r == Flipped(s, id)
  <2>1. /\ r \in Shows /\ (id = "plain" => r.automation = s.automation) /\ r.idle = s.idle
        /\ r.noSleep = s.noSleep /\ r.language = s.language
        /\ r.plain = (IF id = "plain" THEN ~s.plain ELSE s.plain)
    BY <1>3 DEF Flipped, Shows
  <2> HIDE DEF r
  <2>2. ASSUME NEW c \in Configs, NEW action \in PanelActions, SameSwitches(s, Switches(c)),
               action.what = id
        PROVE  SameSwitches(r, Switches(Performed(c, action)))
    <3> DEFINE d == Performed(c, action)
    <3>1. /\ d \in Configs /\ d.minutes = c.minutes /\ d.noSleep = c.noSleep
          /\ d.language = c.language /\ d.plain = (IF id = "plain" THEN ~c.plain ELSE c.plain)
      BY <1>3, <2>2 DEF Performed, Configs
    <3> HIDE DEF d
    <3> QED BY <2>1, <2>2, <3>1, SwitchesTyped DEF SameSwitches, d
  <2> QED BY <1>3, <2>1, <2>2 DEF r
<1> QED BY <1>1, <1>2, <1>3

\* From what the panel shows to what it shows after a click.
Mirrors(s, r, action) ==
    \A c \in Configs : SameSwitches(s, Switches(c)) => SameSwitches(r, Switches(Performed(c, action)))

\* A click posts its call and shows at once what it will make of the settings.
LEMMA ClickedStep ==
  ASSUME PanelInv, Visible, NEW action \in PanelActions,
         calls' = Append(calls, [do |-> "action", by |-> panel.n, action |-> action]),
         UNCHANGED <<cfg, starting, ready, tasks, frame, opens>>,
         panel' \in Panels, panel'.n = panel.n, panel'.overtaken = panel.overtaken,
         panel'.caption = panel.caption, panel'.dim = ~panel'.shown.idle,
         Mirrors(panel.shown, panel'.shown, action),
         action.what # "automation" => panel'.shown.automation = panel.shown.automation,
         choice' \in Choices, PopupsAreTheChoice'
  PROVE  PanelInv'
<1> DEFINE call == [do |-> "action", by |-> panel.n, action |-> action]
           k == Len(calls) + 1
<1>1. /\ PanelStateTypes /\ WindowIsSound /\ SnapshotsHold /\ AutomationIsTold /\ SwitchesFollow
      /\ TextsAreReplaced /\ NumbersAreGiven /\ NumbersDiffer
  BY DEF PanelInv
<1>2. /\ calls \in Seq(PanelCalls) /\ tasks \in Seq(PanelTasks) /\ cfg \in Configs
      /\ panel \in Panels /\ panel.n \in 1 .. opens /\ opens \in Nat
  BY <1>1 DEF PanelStateTypes, NumbersAreGiven
<1>3. Visible'
  BY <1>2, PanelsAreThere DEF Visible
<1>4. call \in PanelCalls /\ Clicked(call, panel.n) /\ call.action = action
  BY <1>2 DEF PanelCalls, Panels, Clicked
<1>5. /\ calls' \in Seq(PanelCalls) /\ k \in DOMAIN calls' /\ calls'[k] = call
      /\ \A i \in DOMAIN calls : i \in DOMAIN calls' /\ calls'[i] = calls[i]
      /\ \A i \in DOMAIN calls' : i \in Nat /\ (i = k \/ (i \in DOMAIN calls /\ calls'[i] = calls[i]))
  <2> HIDE DEF call
  <2>1. calls' = Append(calls, call)
    BY DEF call
  <2> QED BY <1>2, <1>4, <2>1
<1>6. NumbersAreGiven' /\ NumbersDiffer' /\ ComingIsUnused'
  <2>1. call.do = "action" /\ call.by = panel.n
    OBVIOUS
  <2> HIDE DEF call, k
  <2>2. \A i \in DOMAIN calls' : i \in Nat /\
          \/ i + 0 \in DOMAIN calls /\ calls'[i] = calls[i + 0]
          \/ calls'[i].do = "action" /\ Visible /\ calls'[i].by = panel.n
    <3>1. \A i \in Nat : i + 0 = i
      OBVIOUS
    <3> QED BY <1>5, <2>1, <3>1
  <2>3. CallsFrom(0)
    BY <2>2 DEF CallsFrom
  <2>4. TasksFrom(0)
    BY QueuesMove
  <2>5. \A s, t \in ready' : s.n = t.n => s = t
    BY <1>1 DEF NumbersDiffer
  <2> QED BY <2>3, <2>4, <2>5, NumbersStay
<1>7. After(cfg', calls', panel'.n) = Performed(After(cfg, calls, panel.n), action)
  <2> DEFINE n == panel.n
  <2>1. calls' = Append(calls, call)
    OBVIOUS
  <2> HIDE DEF call, n
  <2>2. After(cfg, calls', n) = Served(After(cfg, calls, n), call, n)
    BY <1>2, <1>4, <2>1, AfterAppend
  <2> QED BY <1>4, <2>2 DEF Served, n
<1> HIDE DEF call, k
<1>8. SwitchesFollow'
  <2> SUFFICES ASSUME ~panel.overtaken
               PROVE  Without(panel'.shown) = Without(Switches(After(cfg', calls', panel'.n)))
    BY DEF SwitchesFollow
  <2> DEFINE c == After(cfg, calls, panel.n)
             d == After(cfg', calls', panel'.n)
  <2>1. c \in Configs
    BY <1>2, AfterTyped
  <2>2. d = Performed(c, action) /\ d \in Configs
    BY <1>7, <2>1, PerformedFacts
  <2>3. Without(panel.shown) = Without(Switches(c))
    BY <1>1 DEF SwitchesFollow
  <2> HIDE DEF c, d
  <2>4. Switches(c) \in Shows /\ Switches(d) \in Shows /\ panel.shown \in Shows /\ panel'.shown \in Shows
    BY <1>2, <2>1, <2>2, SwitchesTyped DEF Panels
  <2>5. SameSwitches(panel.shown, Switches(c))
    BY <2>3, <2>4, WithoutMeans
  <2>6. SameSwitches(panel'.shown, Switches(d))
    BY <2>1, <2>2, <2>5 DEF Mirrors
  <2>7. Without(panel'.shown) = Without(Switches(d))
    BY <2>4, <2>6, WithoutMeans
  <2> QED BY <2>7 DEF d
<1>9. AutomationIsTold'
  <2>1. NoOwnUpdate' => NoOwnUpdate /\ action.what # "automation"
    BY <1>4, <1>5 DEF NoOwnUpdate, OwnUpdate, Clicked
  <2> QED BY <1>1, <2>1 DEF AutomationIsTold, LastUpdateHolds, Updates, NoUpdates
<1>10. SnapshotsHold'
  BY <1>1 DEF SnapshotsHold, TasksHold, Shown, Updates
<1>11. TextsAreReplaced'
  <2>1. RefreshComes => RefreshComes'
    BY <1>5 DEF RefreshComes, Asks
  <2> QED BY <1>1, <2>1 DEF TextsAreReplaced
<1>12. PanelStateTypes'
  BY <1>1, <1>5 DEF PanelStateTypes
<1>13. WindowIsSound'
  BY <1>1, <1>3 DEF WindowIsSound
<1> QED BY <1>6, <1>8, <1>9, <1>10, <1>11, <1>12, <1>13 DEF PanelInv

\* A switch of the panel (handleCommand, toggleCommand).
LEMMA ClickSwitchStep ==
  ASSUME PanelInv, NEW id \in {"noSleep", "idle", "automation", "plain"}, ClickSwitch(id)
  PROVE  PanelInv'
<1> DEFINE action == Do(id, 0)
           r == Flipped(panel.shown, id)
<1>1. /\ Visible /\ CloseChoice /\ UNCHANGED <<cfg, starting, ready, tasks, frame, opens>>
      /\ calls' = Append(calls, [do |-> "action", by |-> panel.n, action |-> action])
      /\ panel' = [panel EXCEPT !.shown = r,
                                !.dim = IF id \in {"noSleep", "idle"} THEN Dim(r) ELSE @]
  BY DEF ClickSwitch, Act
<1>2. panel \in Panels /\ panel.shown \in Shows /\ panel.dim = ~panel.shown.idle
  BY <1>1 DEF PanelInv, PanelStateTypes, SwitchesFollow, Panels
<1>3. action \in PanelActions /\ action.what = id
  BY DEF Do, PanelActions
<1>4. /\ r \in Shows
      /\ id # "automation" => r.automation = panel.shown.automation
      /\ id \in {"automation", "plain"} => r.idle = panel.shown.idle
      /\ \A c \in Configs, a \in PanelActions :
             SameSwitches(panel.shown, Switches(c)) /\ a.what = id =>
             SameSwitches(r, Switches(Performed(c, a)))
  BY <1>2, FlippedFacts
<1> HIDE DEF action, r
<1>5. /\ panel' \in Panels /\ panel'.shown = r /\ panel'.n = panel.n
      /\ panel'.overtaken = panel.overtaken /\ panel'.caption = panel.caption
  BY <1>1, <1>2, <1>4 DEF Panels, Dim, Shows
<1>6. panel'.dim = ~panel'.shown.idle
  BY <1>1, <1>2, <1>4 DEF Panels, Dim
<1>7. Mirrors(panel.shown, panel'.shown, action)
  BY <1>3, <1>4, <1>5 DEF Mirrors
<1>8. choice' \in Choices /\ PopupsAreTheChoice'
  BY <1>1, CloseChoiceFacts
<1> QED BY <1>1, <1>3, <1>4, <1>5, <1>6, <1>7, <1>8, ClickedStep

\* A row of a popup (apply, applyChoice).
LEMMA ChooseRowStep ==
  ASSUME PanelInv, NEW serial \in popups, ChooseRow(serial)
  PROVE  PanelInv'
<1>1. /\ Visible /\ popups' = popups \ {serial} /\ choice' = Reported(serial)
      /\ UNCHANGED <<cfg, starting, ready, tasks, frame, opens>>
  BY DEF ChooseRow
<1>2. /\ panel \in Panels /\ panel.shown \in Shows /\ panel.dim = ~panel.shown.idle
      /\ Minutes \subseteq Nat \ {0}
  BY <1>1, PanelAssumption DEF PanelInv, PanelStateTypes, SwitchesFollow, Panels
<1>3. choice' \in Choices /\ PopupsAreTheChoice'
  BY <1>1, ReportedFacts
<1>4. ASSUME NEW m \in Minutes, ChooseMinutes(m) PROVE PanelInv'
  <2> DEFINE action == Do("minutes", m)
             r == [panel.shown EXCEPT !.idle = TRUE, !.noSleep = FALSE]
  <2>1. /\ calls' = Append(calls, [do |-> "action", by |-> panel.n, action |-> action])
        /\ panel' = [panel EXCEPT !.minutes = m, !.dim = FALSE, !.shown = r]
    BY <1>2, <1>4 DEF ChooseMinutes, Act, ChosenMinutes, Panels, Shows
  <2>2. action \in PanelActions /\ action.what = "minutes" /\ action.value = m
    BY DEF Do, PanelActions
  <2>3. /\ r \in Shows /\ r.automation = panel.shown.automation /\ r.idle = TRUE
        /\ r.noSleep = FALSE /\ r.plain = panel.shown.plain /\ r.language = panel.shown.language
    BY <1>2 DEF Shows
  <2> HIDE DEF action, r
  <2>4. /\ panel' \in Panels /\ panel'.shown = r /\ panel'.n = panel.n /\ panel'.dim = FALSE
        /\ panel'.overtaken = panel.overtaken /\ panel'.caption = panel.caption
    BY <1>2, <2>1, <2>3 DEF Panels
  <2>5. panel'.dim = ~panel'.shown.idle
    BY <2>3, <2>4
  <2>6. ASSUME NEW c \in Configs, SameSwitches(panel.shown, Switches(c))
        PROVE  SameSwitches(r, Switches(Performed(c, action)))
    <3> DEFINE d == MinutesSet(c, m)
    <3>1. /\ d \in Configs /\ d.minutes = m /\ d.noSleep = (IF m > 0 THEN FALSE ELSE c.noSleep)
          /\ d.plain = c.plain /\ d.language = c.language
      BY MinutesSetFacts
    <3>2. Performed(c, action) = d
      BY <2>2 DEF Performed
    <3> HIDE DEF d
    <3>3. m > 0
      BY <1>2
    <3>4. SameSwitches(r, Switches(d))
      BY <2>3, <2>6, <3>1, <3>3, SwitchesTyped DEF SameSwitches
    <3> QED BY <3>2, <3>4
  <2>7. Mirrors(panel.shown, panel'.shown, action)
    BY <2>4, <2>6 DEF Mirrors
  <2> QED BY <1>1, <1>3, <2>1, <2>2, <2>3, <2>4, <2>5, <2>7, ClickedStep
<1>5. ASSUME NEW l \in Languages, ChooseLanguage(l) PROVE PanelInv'
  <2> DEFINE action == Do("language", l)
             r == [panel.shown EXCEPT !.language = l]
  <2>1. /\ calls' = Append(calls, [do |-> "action", by |-> panel.n, action |-> action])
        /\ panel' = [panel EXCEPT !.shown = r]
    BY <1>2, <1>5 DEF ChooseLanguage, Act, Panels, Shows
  <2>2. action \in PanelActions /\ action.what = "language" /\ action.value = l
    BY DEF Do, PanelActions
  <2>3. /\ r \in Shows /\ r.automation = panel.shown.automation /\ r.idle = panel.shown.idle
        /\ r.noSleep = panel.shown.noSleep /\ r.plain = panel.shown.plain /\ r.language = l
    BY <1>2 DEF Shows
  <2> HIDE DEF action, r
  <2>4. /\ panel' \in Panels /\ panel'.shown = r /\ panel'.n = panel.n /\ panel'.dim = panel.dim
        /\ panel'.overtaken = panel.overtaken /\ panel'.caption = panel.caption
    BY <1>2, <2>1, <2>3 DEF Panels
  <2>5. panel'.dim = ~panel'.shown.idle
    BY <1>2, <2>3, <2>4
  <2>6. ASSUME NEW c \in Configs, SameSwitches(panel.shown, Switches(c))
        PROVE  SameSwitches(r, Switches(Performed(c, action)))
    <3> DEFINE d == [c EXCEPT !.language = l]
    <3>1. /\ d \in Configs /\ d.minutes = c.minutes /\ d.noSleep = c.noSleep
          /\ d.plain = c.plain /\ d.language = l
      BY DEF Configs
    <3>2. Performed(c, action) = d
      BY <2>2 DEF Performed
    <3> HIDE DEF d
    <3>4. SameSwitches(r, Switches(d))
      BY <2>3, <2>6, <3>1, SwitchesTyped DEF SameSwitches
    <3> QED BY <3>2, <3>4
  <2>7. Mirrors(panel.shown, panel'.shown, action)
    BY <2>4, <2>6 DEF Mirrors
  <2> QED BY <1>1, <1>3, <2>1, <2>2, <2>3, <2>4, <2>5, <2>7, ClickedStep
<1> QED BY <1>4, <1>5 DEF ChooseRow
-----------------------------------------------------------------------------
(* Tasks on the UI thread *)

\* The panel goes, be it there or not (Hide, or Show of a panel that is there).
LEMMA GoneStep ==
  ASSUME PanelInv, Destroy, tasks # <<>>, tasks' = Tail(tasks),
         Head(tasks).do \in {"hide", "show", "refresh"},
         UNCHANGED <<cfg, starting, calls, ready, opens>>
  PROVE  PanelInv'
<1>1. PanelStateTypes /\ NumbersDiffer /\ SnapshotsHold
  BY DEF PanelInv
<1>2. ~Visible' /\ choice' \in Choices /\ PopupsAreTheChoice' /\ WindowIsSound'
  BY DestroyFacts DEF Visible
<1>3. TasksHold' /\ tasks' \in Seq(PanelTasks)
  BY TasksShrink
<1>4. NumbersAreGiven' /\ NumbersDiffer' /\ ComingIsUnused'
  <2>1. CallsFrom(0) /\ TasksFrom(1)
    BY QueuesMove
  <2>2. \A s, t \in ready' : s.n = t.n => s = t
    BY <1>1 DEF NumbersDiffer
  <2> QED BY <1>2, <2>1, <2>2, NumbersStay
<1>5. SnapshotsHold'
  BY <1>1, <1>3 DEF SnapshotsHold
<1>6. PanelStateTypes'
  BY <1>1, <1>2, <1>3 DEF PanelStateTypes
<1>7. AutomationIsTold' /\ SwitchesFollow' /\ TextsAreReplaced'
  BY <1>2 DEF AutomationIsTold, SwitchesFollow, TextsAreReplaced
<1> QED BY <1>2, <1>4, <1>5, <1>6, <1>7 DEF PanelInv

\* A language was chosen: another opening begins (reopenPanel).
LEMMA ReopenStep ==
  ASSUME PanelInv, Begin(TRUE), tasks # <<>>, tasks' = Tail(tasks), Head(tasks).do = "reopen",
         UNCHANGED <<cfg, calls, ready, ui>>
  PROVE  PanelInv'
<1>1. /\ cfg' = cfg /\ calls' = calls /\ ready' = ready
      /\ panel' = panel /\ frame' = frame /\ choice' = choice /\ popups' = popups
  BY DEF ui
<1>2. PanelStateTypes
  BY DEF PanelInv
<1>3. TasksFrom(1)
  BY QueuesMove
<1>4. NumbersAreGiven' /\ NumbersDiffer' /\ ComingIsUnused'
  BY <1>1, <1>3, NumbersBegin
<1>5. SnapshotsHold' /\ AutomationIsTold' /\ SwitchesFollow' /\ tasks' \in Seq(PanelTasks)
  BY <1>1, SettingsStay
<1>6. /\ PopupsAreTheChoice' /\ WindowIsSound' /\ choice' \in Choices
      /\ Visible' => panel' \in Panels
  BY <1>1, WindowStays
<1>7. PanelStateTypes'
  <2>1. opens' \in Nat /\ starting' \in SUBSET [n : Nat, refresh : BOOLEAN]
    BY BeginTyped
  <2> QED BY <1>1, <1>2, <1>5, <1>6, <2>1 DEF PanelStateTypes
<1>8. TextsAreReplaced'
  <2> DEFINE new == [n |-> opens + 1, refresh |-> TRUE]
  <2>0. new \in starting' /\ new.refresh
    BY DEF Begin
  <2> HIDE DEF new
  <2>1. \E g \in starting' : g.refresh
    BY <2>0
  <2> QED BY <2>1 DEF TextsAreReplaced, RefreshComes
<1> QED BY <1>4, <1>5, <1>6, <1>7, <1>8 DEF PanelInv

\* The panel hears what the automation switch is (UpdateAutomationStatus).
LEMMA UpdateAutomationStep ==
  ASSUME PanelInv, tasks # <<>>, tasks' = Tail(tasks), Head(tasks).do = "automation",
         UpdateAutomation(Head(tasks).on),
         UNCHANGED <<cfg, starting, calls, ready, opens, frame, choice, popups>>
  PROVE  PanelInv'
<1> DEFINE on == Head(tasks).on
<1>1. /\ PanelStateTypes /\ PopupsAreTheChoice /\ WindowIsSound /\ NumbersAreGiven /\ NumbersDiffer
      /\ SnapshotsHold /\ AutomationIsTold /\ SwitchesFollow /\ TextsAreReplaced
      /\ calls \in Seq(PanelCalls) /\ tasks \in Seq(PanelTasks) /\ cfg \in Configs
      /\ opens \in Nat
  BY DEF PanelInv, PanelStateTypes
<1>2. /\ 1 \in DOMAIN tasks /\ Updates(1) /\ tasks[1].on = on /\ on \in BOOLEAN
      /\ \A i \in DOMAIN tasks : i > 1 => i - 1 \in DOMAIN tasks' /\ tasks'[i - 1] = tasks[i]
  <2>1. /\ 1 \in DOMAIN tasks /\ tasks[1] = Head(tasks) /\ Head(tasks) \in PanelTasks
        /\ \A i \in DOMAIN tasks : i > 1 => i - 1 \in DOMAIN tasks' /\ tasks'[i - 1] = tasks[i]
    BY <1>1
  <2>2. Head(tasks).on \in BOOLEAN
    BY <2>1 DEF PanelTasks, Snaps
  <2> QED BY <2>1, <2>2 DEF Updates
<1>3. panel' = IF Visible THEN [panel EXCEPT !.shown.automation = on] ELSE panel
  BY DEF UpdateAutomation
<1> HIDE DEF on
<1>4. ASSUME Visible
      PROVE  /\ panel' \in Panels /\ Visible' /\ panel'.n = panel.n /\ panel'.dim = panel.dim
             /\ panel'.caption = panel.caption /\ panel'.overtaken = panel.overtaken
             /\ panel'.shown.automation = on /\ panel'.shown.idle = panel.shown.idle
             /\ Without(panel'.shown) = Without(panel.shown)
  <2> DEFINE r == [panel.shown EXCEPT !.automation = on]
  <2>1. panel \in Panels /\ panel.shown \in Shows /\ panel.n \in Nat \ {0}
    BY <1>1, <1>4 DEF PanelStateTypes, NumbersAreGiven, Panels
  <2>2. /\ r \in Shows /\ r.automation = on /\ r.idle = panel.shown.idle
        /\ SameSwitches(r, panel.shown)
    BY <1>2, <2>1 DEF Shows, SameSwitches
  <2>3. panel' = [panel EXCEPT !.shown = r]
    BY <1>3, <1>4, <2>1 DEF Panels, Shows
  <2> HIDE DEF r
  <2>4. /\ panel' \in Panels /\ panel'.n = panel.n /\ panel'.dim = panel.dim /\ panel'.shown = r
        /\ panel'.caption = panel.caption /\ panel'.overtaken = panel.overtaken
    BY <2>1, <2>2, <2>3 DEF Panels
  <2>5. Visible'
    BY <2>1, <2>4, PanelsAreThere DEF Visible
  <2>6. Without(r) = Without(panel.shown)
    BY <2>1, <2>2, WithoutMeans
  <2> QED BY <2>2, <2>4, <2>5, <2>6
<1>5. Visible' => Visible
  BY <1>3 DEF Visible
<1>6. /\ TasksHold' /\ tasks' \in Seq(PanelTasks) /\ (LastUpdateHolds => LastUpdateHolds')
  BY TasksShrink
<1>7. NumbersAreGiven' /\ NumbersDiffer' /\ ComingIsUnused'
  <2>1. CallsFrom(0) /\ TasksFrom(1)
    BY QueuesMove
  <2>2. \A s, t \in ready' : s.n = t.n => s = t
    BY <1>1 DEF NumbersDiffer
  <2> QED BY <1>4, <1>5, <2>1, <2>2, NumbersStay
<1>8. SnapshotsHold'
  BY <1>1, <1>6 DEF SnapshotsHold
<1>9. PanelStateTypes'
  BY <1>1, <1>4, <1>5, <1>6 DEF PanelStateTypes
<1>10. PopupsAreTheChoice' /\ WindowIsSound'
  BY <1>1, <1>3, <1>4, <1>5 DEF PopupsAreTheChoice, WindowIsSound
<1>11. SwitchesFollow'
  BY <1>1, <1>4, <1>5 DEF SwitchesFollow
<1>12. AutomationIsTold'
  <2> SUFFICES ASSUME Visible', ~panel'.overtaken
               PROVE  LastUpdateHolds' /\ (NoUpdates' => panel'.shown.automation = cfg'.automation)
    BY DEF AutomationIsTold
  <2>1. LastUpdateHolds /\ LastUpdateHolds'
    BY <1>1, <1>4, <1>5, <1>6 DEF AutomationIsTold
  <2>2. ASSUME NoUpdates' PROVE on = cfg.automation
    <3>1. \A j \in DOMAIN tasks : j > 1 => ~Updates(j)
      BY <1>2, <2>2 DEF NoUpdates, Updates
    <3> QED BY <1>2, <2>1, <3>1 DEF LastUpdateHolds
  <2> QED BY <1>4, <1>5, <2>1, <2>2
<1>13. TextsAreReplaced'
  <2>1. RefreshComes => RefreshComes'
    <3>1. \A i \in DOMAIN tasks : tasks[i].do \in {"reopen", "refresh"} =>
             i - 1 \in DOMAIN tasks' /\ tasks'[i - 1] = tasks[i]
      <4>1. \A i \in DOMAIN tasks : i = 1 \/ i > 1
        BY <1>1
      <4> QED BY <1>2, <4>1 DEF Updates
    <3> QED BY <3>1 DEF RefreshComes, Asks
  <2> QED BY <1>1, <1>4, <1>5, <2>1 DEF TextsAreReplaced
<1> QED BY <1>7, <1>8, <1>9, <1>10, <1>11, <1>12, <1>13 DEF PanelInv

\* A window that is shown without its frame being ready is sound as well.
LEMMA UncloakedFacts ==
  ASSUME NEW f, FrameIsSound(f)
  PROVE  FrameIsSound([f EXCEPT !.cloaked = FALSE])
<1> DEFINE r == [f EXCEPT !.cloaked = FALSE]
<1>1. f \in Frames /\ Flagged(f) /\ WorkedOff(f) /\ (f.pending # 0 => Coming(f))
  BY DEF FrameIsSound
<1>2. /\ r \in Frames
      /\ r.fonts = f.fonts /\ r.bounds = f.bounds /\ r.lost = f.lost
      /\ r.monitor = f.monitor /\ r.pending = f.pending
      /\ r.generation = f.generation /\ r.ready = f.ready /\ r.msgs = f.msgs
      /\ r.applyPosted = f.applyPosted /\ r.commitPosted = f.commitPosted
      /\ r.direct = f.direct /\ r.cloaked = FALSE
  BY <1>1 DEF Frames
<1> HIDE DEF r
<1>3. Flagged(r) /\ WorkedOff(r) /\ (r.pending # 0 => Coming(r))
  BY <1>1, <1>2 DEF Flagged, WorkedOff, Made, Coming
<1>4. FrameIsSound(r)
  BY <1>2, <1>3 DEF FrameIsSound
<1> QED BY <1>4 DEF r

\* createPanel: the window begins sound.
LEMMA CreatedFrame ==
  ASSUME NEW dpi \in DPIs, NEW moved \in DPIs \cup {0},
         NEW f, f = IF moved = 0 THEN NewFrame(dpi)
                    ELSE [QueueDPI(NewFrame(dpi), moved, TRUE) EXCEPT !.cloaked = FALSE]
  PROVE  FrameIsSound(f)
<1>1. /\ NewFrame(dpi) \in Frames /\ FrameIsSound(NewFrame(dpi)) /\ NewFrame(dpi).direct = "none"
  BY NewFrameFacts
<1>2. CASE moved = 0
  BY <1>1, <1>2
<1>3. CASE moved # 0
  <2> DEFINE h == NewFrame(dpi)
             yes == TRUE
             q == QueueDPI(h, moved, yes)
  <2>1. h \in Frames /\ Flagged(h) /\ h.direct = "none" /\ h.ready <= h.generation
    BY <1>1 DEF FrameIsSound, WorkedOff
  <2>2. f = [q EXCEPT !.cloaked = FALSE]
    BY <1>3
  <2>3. moved \in DPIs /\ yes \in BOOLEAN
    BY <1>3
  <2> HIDE DEF h, yes
  <2>4. FrameIsSound(q)
    BY <2>1, <2>3, QueueDPIFacts
  <2> HIDE DEF q
  <2> QED BY <2>2, <2>4, UncloakedFacts
<1> QED BY <1>2, <1>3

\* What a new panel shows (createPanelForHost, build).
LEMMA BuiltFacts ==
  ASSUME NEW task \in Snaps
  PROVE  LET q == Built(task.n, task)
         IN  /\ q \in Panels /\ q.n = task.n /\ q.overtaken = task.overtaken
             /\ q.shown = Switches(task.cfg) /\ q.caption = task.cfg.language
             /\ q.dim = ~q.shown.idle
<1>1. task.cfg \in Configs /\ task.n \in Nat /\ task.overtaken \in BOOLEAN
  BY DEF Snaps
<1>2. Switches(task.cfg) \in Shows
  BY <1>1, SwitchesTyped
<1>3. Supported(task.cfg.minutes) \in Minutes
  BY PanelAssumption DEF Supported
<1>4. task.cfg.language \in Languages /\ Dim(Switches(task.cfg)) = ~Switches(task.cfg).idle
  BY <1>1 DEF Configs, Dim
<1>5. Dim(Switches(task.cfg)) \in BOOLEAN
  BY <1>2, <1>4 DEF Shows
<1> DEFINE s == Switches(task.cfg)
           m == Supported(task.cfg.minutes)
           d == Dim(s)
<1>6. /\ Built(task.n, task) = [n |-> task.n, shown |-> s, minutes |-> m,
                                caption |-> task.cfg.language, dim |-> d, overtaken |-> task.overtaken]
      /\ s \in Shows /\ m \in Minutes /\ d \in BOOLEAN /\ d = ~s.idle
  BY <1>2, <1>3, <1>4, <1>5 DEF Built
<1> HIDE DEF s, m, d
<1>7. /\ Built(task.n, task) \in Panels /\ Built(task.n, task).n = task.n
      /\ Built(task.n, task).overtaken = task.overtaken /\ Built(task.n, task).shown = s
      /\ Built(task.n, task).caption = task.cfg.language /\ Built(task.n, task).dim = d
  BY <1>1, <1>4, <1>6 DEF Panels
<1> QED BY <1>6, <1>7 DEF s

\* The panel that was asked for appears.
LEMMA CreatedStep ==
  ASSUME PanelInv, tasks # <<>>, tasks' = Tail(tasks), Head(tasks).do \in {"show", "refresh"},
         NEW dpi \in DPIs, NEW moved \in DPIs \cup {0}, Create(Head(tasks), dpi, moved, TRUE),
         UNCHANGED <<cfg, starting, calls, ready, opens>>
  PROVE  PanelInv'
<1> DEFINE task == Head(tasks)
<1>1. /\ PanelStateTypes /\ NumbersAreGiven /\ SnapshotsHold
      /\ calls \in Seq(PanelCalls) /\ tasks \in Seq(PanelTasks) /\ cfg \in Configs /\ opens \in Nat
  BY DEF PanelInv, PanelStateTypes
<1>2. /\ 1 \in DOMAIN tasks /\ Shown(1) /\ tasks[1] = task /\ task \in Snaps
      /\ \A i \in DOMAIN tasks' : i + 1 \in DOMAIN tasks /\ i + 1 > 1 /\ tasks'[i] = tasks[i + 1]
      /\ task.n \in Nat \ {0}
  <2>1. /\ 1 \in DOMAIN tasks /\ tasks[1] = task /\ task \in PanelTasks
        /\ \A i \in DOMAIN tasks' : i + 1 \in DOMAIN tasks /\ i + 1 > 1 /\ tasks'[i] = tasks[i + 1]
    BY <1>1
  <2>2. Shown(1) /\ task \in Snaps
    BY <2>1 DEF Shown, PanelTasks
  <2>3. task.n \in 1 .. opens
    BY <1>1, <2>1, <2>2 DEF NumbersAreGiven
  <2> HIDE DEF task
  <2> QED BY <1>1, <2>1, <2>2, <2>3
<1>3. /\ panel' = Built(task.n, task) /\ choice' = NoChoice /\ popups' = {}
      /\ frame' = IF moved = 0 THEN NewFrame(dpi)
                  ELSE [QueueDPI(NewFrame(dpi), moved, TRUE) EXCEPT !.cloaked = FALSE]
  BY DEF Create
<1>4. FrameIsSound(frame')
  BY <1>3, CreatedFrame
<1> HIDE DEF task
<1>5. /\ panel' \in Panels /\ panel'.n = task.n /\ panel'.overtaken = task.overtaken
      /\ panel'.shown = Switches(task.cfg) /\ panel'.caption = task.cfg.language
      /\ panel'.dim = ~panel'.shown.idle
  BY <1>2, <1>3, BuiltFacts
<1>6. Visible'
  BY <1>2, <1>5, PanelsAreThere DEF Visible
<1>7. NumbersAreGiven' /\ NumbersDiffer' /\ ComingIsUnused' /\ Unused(task.n)
  BY <1>5, NumbersShown DEF task
<1>8. TasksHold' /\ tasks' \in Seq(PanelTasks)
  BY TasksShrink
<1>9. choice' \in Choices /\ PopupsAreTheChoice' /\ WindowIsSound'
  <2>1. choice' \in Choices
    BY <1>3 DEF NoChoice, Choices
  <2>2. PopupsAreTheChoice'
    BY <1>3 DEF NoChoice, PopupsAreTheChoice
  <2> QED BY <1>4, <1>6, <2>1, <2>2 DEF WindowIsSound
<1>10. ASSUME ~panel'.overtaken PROVE task.cfg = cfg /\ NoUpdates'
  <2>1. task.cfg = cfg /\ \A j \in DOMAIN tasks : j > 1 => ~Updates(j)
    BY <1>1, <1>2, <1>5, <1>10 DEF SnapshotsHold, TasksHold
  <2>2. NoUpdates'
    BY <1>2, <2>1 DEF NoUpdates, Updates
  <2> QED BY <2>1, <2>2
<1>11. After(cfg, calls, task.n) = cfg
  BY <1>1, <1>7, AfterNone DEF Unused
<1>12. PanelStateTypes'
  BY <1>1, <1>5, <1>8, <1>9 DEF PanelStateTypes
<1>13. SnapshotsHold'
  BY <1>1, <1>8 DEF SnapshotsHold
<1>14. SwitchesFollow'
  <2>1. ASSUME ~panel'.overtaken
        PROVE  Without(panel'.shown) = Without(Switches(After(cfg', calls', panel'.n)))
    BY <1>5, <1>10, <1>11, <2>1
  <2> QED BY <1>5, <2>1 DEF SwitchesFollow
<1>15. AutomationIsTold'
  <2>1. ASSUME ~panel'.overtaken
        PROVE  LastUpdateHolds' /\ panel'.shown.automation = cfg'.automation
    <3>1. LastUpdateHolds'
      BY <1>10, <2>1 DEF LastUpdateHolds, NoUpdates, Updates
    <3>2. Switches(cfg).automation = cfg.automation
      BY <1>1, SwitchesTyped
    <3> QED BY <1>5, <1>10, <2>1, <3>1, <3>2
  <2> QED BY <2>1 DEF AutomationIsTold
<1>16. TextsAreReplaced'
  BY <1>5, <1>10 DEF TextsAreReplaced
<1> QED BY <1>7, <1>9, <1>12, <1>13, <1>14, <1>15, <1>16 DEF PanelInv

\* The window thread runs its next task, whichever it is.
LEMMA RunTaskStep == ASSUME PanelInv, RunTask PROVE PanelInv'
<1> DEFINE task == Head(tasks)
<1>1. /\ tasks # <<>> /\ tasks' = Tail(tasks) /\ UNCHANGED <<cfg, calls, ready>>
      /\ task \in PanelTasks
  BY DEF RunTask, PanelInv, PanelStateTypes
<1>2. CASE task.do \in {"show", "refresh"}
  <2>1. ShowOrRefresh(task)
    BY <1>2 DEF RunTask
  <2>2. UNCHANGED <<starting, opens>>
    BY <2>1 DEF ShowOrRefresh
  <2>3. CASE task.do = "show" /\ Visible
    BY <1>1, <1>2, <2>1, <2>2, <2>3, GoneStep DEF ShowOrRefresh
  <2>4. CASE ~(task.do = "show" /\ Visible)
    <3>1. PICK dpi \in DPIs, moved \in DPIs \cup {0}, ok \in BOOLEAN : Create(task, dpi, moved, ok)
      BY <2>1, <2>4 DEF ShowOrRefresh
    <3>2. CASE ok
      <4>1. Create(task, dpi, moved, TRUE)
        BY <3>1, <3>2 DEF Create
      <4> QED BY <1>1, <1>2, <2>2, <4>1, CreatedStep
    <3>3. CASE ~ok
      <4>1. Destroy
        BY <3>1, <3>3 DEF Create
      <4> QED BY <1>1, <1>2, <2>2, <4>1, GoneStep
    <3> QED BY <3>2, <3>3
  <2> QED BY <2>3, <2>4
<1>3. CASE task.do = "hide"
  <2>1. Destroy /\ UNCHANGED <<starting, opens>>
    BY <1>3 DEF RunTask
  <2> QED BY <1>1, <1>3, <2>1, GoneStep
<1>4. CASE task.do = "automation"
  <2>1. UpdateAutomation(task.on) /\ UNCHANGED <<starting, frame, choice, popups, opens>>
    BY <1>4 DEF RunTask
  <2> QED BY <1>1, <1>4, <2>1, UpdateAutomationStep
<1>5. CASE task.do = "reopen"
  <2>1. Begin(TRUE) /\ UNCHANGED ui
    BY <1>5 DEF RunTask
  <2> QED BY <1>1, <1>5, <2>1, ReopenStep
<1>6. task.do \in {"show", "refresh", "hide", "automation", "reopen"}
  BY <1>1 DEF PanelTasks, Snaps
<1> QED BY <1>2, <1>3, <1>4, <1>5, <1>6
-----------------------------------------------------------------------------
(* The request loop serves a call *)

\* A snapshot is taken (snapshotControlPanel).
LEMMA SnapshotStep ==
  ASSUME PanelInv, calls # <<>>, Head(calls).do = "snapshot", calls' = Tail(calls),
         TakeSnapshot(Head(calls)), UNCHANGED <<starting, frame, choice, popups, opens>>
  PROVE  PanelInv'
<1> DEFINE call == Head(calls)
           snap == [do |-> IF call.refresh THEN "refresh" ELSE "show",
                    n |-> call.by, cfg |-> cfg, overtaken |-> FALSE]
<1>1. /\ PanelStateTypes /\ TextsAreReplaced /\ calls \in Seq(PanelCalls) /\ cfg \in Configs
  BY DEF PanelInv, PanelStateTypes
<1>2. ready' = ready \cup {snap} /\ cfg' = cfg /\ tasks' = tasks /\ panel' = panel
  BY DEF TakeSnapshot
<1>3. call \in PanelCalls /\ call.by \in Nat /\ call.refresh \in BOOLEAN /\ ~Clicked(call, panel.n)
  <2>1. call \in PanelCalls
    BY <1>1
  <2> QED BY <2>1 DEF PanelCalls, Clicked
<1>4. /\ snap \in Snaps /\ snap.n = call.by /\ snap.cfg = cfg
      /\ call.refresh => snap.do = "refresh"
  BY <1>1, <1>3 DEF Snaps
<1> HIDE DEF snap
<1>5. NumbersAreGiven' /\ NumbersDiffer' /\ ComingIsUnused'
  BY <1>2, <1>4, NumbersTaken
<1>6. SnapshotsHold' /\ AutomationIsTold' /\ SwitchesFollow' /\ calls' \in Seq(PanelCalls)
  BY <1>2, <1>3, <1>4, SettingsStay
<1>7. /\ PopupsAreTheChoice' /\ WindowIsSound' /\ choice' \in Choices
      /\ Visible' => panel' \in Panels
  BY <1>2, WindowStays
<1>8. PanelStateTypes'
  BY <1>1, <1>2, <1>4, <1>6, <1>7 DEF PanelStateTypes
<1>9. TextsAreReplaced'
  <2>1. \A i \in DOMAIN calls : (i = 1 /\ calls[i] = call) \/ (i - 1 \in DOMAIN calls' /\ calls'[i - 1] = calls[i])
    BY <1>1
  <2>2. RefreshComes => RefreshComes'
    <3>1. ASSUME NEW i \in DOMAIN calls, Asks(i), calls[i].refresh PROVE RefreshComes'
      <4>1. CASE calls[i] = call
        <5>1. snap \in ready' /\ snap.do = "refresh"
          BY <1>2, <1>4, <3>1, <4>1
        <5> QED BY <5>1 DEF RefreshComes
      <4>2. CASE i - 1 \in DOMAIN calls' /\ calls'[i - 1] = calls[i]
        BY <3>1, <4>2 DEF RefreshComes, Asks
      <4> QED BY <2>1, <4>1, <4>2
    <3> HIDE DEF call
    <3>2. CASE ~\E i \in DOMAIN calls : Asks(i) /\ calls[i].refresh
      BY <1>2, <3>2 DEF RefreshComes
    <3> QED BY <3>1, <3>2
  <2> QED BY <1>1, <1>2, <2>2, RefreshGoesOn
<1> QED BY <1>5, <1>6, <1>7, <1>8, <1>9 DEF PanelInv

\* A task remembers that the settings have changed, and is what it was otherwise.
LEMMA OvertakenFacts ==
  ASSUME NEW t \in PanelTasks
  PROVE  /\ Overtaken(t) \in PanelTasks /\ Overtaken(t).do = t.do
         /\ t.do \in {"show", "refresh"} => Overtaken(t).n = t.n /\ Overtaken(t).overtaken
         /\ t.do = "automation" => Overtaken(t).on = t.on
<1>1. CASE t \in Snaps
  BY <1>1 DEF Overtaken, Snaps, PanelTasks
<1>2. CASE t \in [do : {"automation"}, on : BOOLEAN]
  <2>1. "overtaken" \notin DOMAIN t
    BY <1>2
  <2> QED BY <1>2, <2>1 DEF Overtaken
<1>3. CASE t \in [do : {"hide", "reopen"}]
  <2>1. "overtaken" \notin DOMAIN t
    BY <1>3
  <2> QED BY <1>3, <2>1 DEF Overtaken
<1> QED BY <1>1, <1>2, <1>3 DEF PanelTasks

\* The tasks after the settings have changed: what waits is overtaken, and what
\* is posted comes behind it.
LEMMA ChangedTasks ==
  ASSUME PanelInv, NEW posted \in Seq(PanelTasks),
         tasks' = [i \in DOMAIN tasks |-> Overtaken(tasks[i])] \o posted
  PROVE  /\ tasks' \in Seq(PanelTasks)
         /\ \A i \in DOMAIN tasks : i \in DOMAIN tasks' /\ tasks'[i] = Overtaken(tasks[i])
         /\ \A i \in DOMAIN posted : \E k \in DOMAIN tasks' :
                tasks'[k] = posted[i] /\ \A j \in DOMAIN tasks : j < k
         /\ \A k \in DOMAIN tasks' :
                \/ k \in DOMAIN tasks /\ tasks'[k] = Overtaken(tasks[k])
                \/ \E i \in DOMAIN posted : tasks'[k] = posted[i] /\ \A j \in DOMAIN tasks : j < k
         /\ \A k \in DOMAIN tasks' : k \in Nat
<1> DEFINE g == [i \in DOMAIN tasks |-> Overtaken(tasks[i])]
           m == Len(tasks)
<1>1. tasks \in Seq(PanelTasks) /\ m \in Nat /\ DOMAIN tasks = 1 .. m
  BY DEF PanelInv, PanelStateTypes
<1>2. \A i \in 1 .. m : tasks[i] \in PanelTasks
  BY <1>1
<1>3. \A i \in 1 .. m : g[i] = Overtaken(tasks[i]) /\ g[i] \in PanelTasks
  BY <1>1, <1>2, OvertakenFacts
<1>4. g \in Seq(PanelTasks) /\ Len(g) = m
  <2>1. g = [i \in 1 .. m |-> g[i]]
    BY <1>1
  <2> HIDE DEF g
  <2> QED BY <1>1, <1>3, <2>1
<1>5. tasks' = g \o posted
  OBVIOUS
<1> HIDE DEF g, m
<1>6. /\ tasks' \in Seq(PanelTasks)
      /\ DOMAIN tasks' = 1 .. (m + Len(posted)) /\ Len(posted) \in Nat /\ DOMAIN posted = 1 .. Len(posted)
      /\ \A i \in 1 .. m : tasks'[i] = g[i]
      /\ \A i \in 1 .. Len(posted) : tasks'[m + i] = posted[i]
  <2> DEFINE h == g \o posted
  <2>1. h \in Seq(PanelTasks)
    BY <1>4
  <2>2. Len(h) = m + Len(posted) /\ Len(posted) \in Nat
    <3>1. Len(posted) \in Nat /\ g \in Seq(PanelTasks)
      BY <1>4
    <3>2. Len(g \o posted) = Len(g) + Len(posted)
      BY <3>1
    <3> QED BY <1>4, <3>1, <3>2
  <2>3. DOMAIN posted = 1 .. Len(posted) /\ DOMAIN h = 1 .. Len(h)
    BY <2>1
  <2>4. \A i \in 1 .. m : h[i] = g[i]
    BY <1>1, <1>4
  <2>5. ASSUME NEW i \in 1 .. Len(posted) PROVE h[m + i] = posted[i]
    <3>1. m + i \in 1 .. (m + Len(posted)) /\ ~(m + i <= m) /\ (m + i) - m = i
      BY <1>1, <2>2
    <3> QED BY <1>1, <1>4, <3>1
  <2> HIDE DEF h
  <2>6. tasks' = h
    BY <1>5 DEF h
  <2> QED BY <2>1, <2>2, <2>3, <2>4, <2>5, <2>6
<1>7. \A i \in DOMAIN tasks : i \in DOMAIN tasks' /\ tasks'[i] = Overtaken(tasks[i])
  BY <1>1, <1>3, <1>6
<1>8. ASSUME NEW i \in DOMAIN posted
      PROVE  \E k \in DOMAIN tasks' : tasks'[k] = posted[i] /\ \A j \in DOMAIN tasks : j < k
  <2>1. m + i \in DOMAIN tasks' /\ tasks'[m + i] = posted[i] /\ \A j \in DOMAIN tasks : j < m + i
    BY <1>1, <1>6
  <2> QED BY <2>1
<1>9. ASSUME NEW k \in DOMAIN tasks'
      PROVE  \/ k \in DOMAIN tasks /\ tasks'[k] = Overtaken(tasks[k])
             \/ \E i \in DOMAIN posted : tasks'[k] = posted[i] /\ \A j \in DOMAIN tasks : j < k
  <2>1. CASE k \in 1 .. m
    BY <1>1, <1>7, <2>1
  <2>2. CASE k \notin 1 .. m
    <3>1. k - m \in DOMAIN posted /\ m + (k - m) = k /\ \A j \in DOMAIN tasks : j < k
      <4>1. k \in 1 .. (m + Len(posted)) /\ k > m
        BY <1>1, <1>6, <2>2
      <4>2. k - m \in 1 .. Len(posted) /\ m + (k - m) = k
        BY <1>1, <1>6, <4>1
      <4>3. \A j \in 1 .. m : j < k
        BY <1>1, <4>1
      <4> QED BY <1>1, <1>6, <4>2, <4>3
    <3>2. tasks'[k] = posted[k - m]
      BY <1>6, <3>1
    <3> QED BY <3>1, <3>2
  <2> QED BY <2>1, <2>2
<1>10. \A k \in DOMAIN tasks' : k \in Nat
  BY <1>1, <1>6
<1> QED BY <1>6, <1>7, <1>8, <1>9, <1>10

\* What a change of the settings leaves of everything but the panel.
LEMMA ChangeFacts ==
  ASSUME PanelInv, calls # <<>>, calls' = Tail(calls), NEW c \in Configs, NEW by \in Nat,
         NEW posted \in Seq(PanelTasks),
         \A i \in DOMAIN posted : posted[i].do \notin {"show", "refresh"},
         Change(c, by, posted), UNCHANGED <<starting, frame, choice, popups, opens>>
  PROVE  /\ PanelStateTypes' /\ PopupsAreTheChoice' /\ WindowIsSound'
         /\ NumbersAreGiven' /\ NumbersDiffer' /\ ComingIsUnused' /\ SnapshotsHold'
         /\ Visible' <=> Visible
         /\ Visible' => /\ panel'.n = panel.n /\ panel'.dim = panel.dim
                        /\ panel'.shown = panel.shown
                        /\ panel.n # by => panel'.overtaken
<1>1. /\ PanelStateTypes /\ PopupsAreTheChoice /\ WindowIsSound /\ NumbersAreGiven /\ NumbersDiffer
      /\ calls \in Seq(PanelCalls) /\ tasks \in Seq(PanelTasks) /\ opens \in Nat
      /\ ready \in SUBSET Snaps
  BY DEF PanelInv, PanelStateTypes
<1>2. /\ cfg' = c /\ ready' = {[snap EXCEPT !.overtaken = TRUE] : snap \in ready}
      /\ tasks' = [i \in DOMAIN tasks |-> Overtaken(tasks[i])] \o posted
      /\ panel' = IF Visible /\ panel.n # by THEN [panel EXCEPT !.overtaken = TRUE] ELSE panel
  BY DEF Change
<1>3. /\ tasks' \in Seq(PanelTasks)
      /\ \A k \in DOMAIN tasks' :
             \/ k \in DOMAIN tasks /\ tasks'[k] = Overtaken(tasks[k])
             \/ \E i \in DOMAIN posted : tasks'[k] = posted[i]
      /\ \A k \in DOMAIN tasks' : k \in Nat
  BY <1>2, ChangedTasks
<1>4. \A k \in DOMAIN tasks : tasks[k] \in PanelTasks
  BY <1>1
<1>5. \A k \in DOMAIN tasks' : Shown(k)' =>
         k \in DOMAIN tasks /\ Shown(k) /\ tasks'[k].n = tasks[k].n /\ tasks'[k].overtaken
  BY <1>3, <1>4, OvertakenFacts DEF Shown
<1>6. \A s \in ready' : s \in Snaps /\ s.overtaken /\ \E t \in ready : s = [t EXCEPT !.overtaken = TRUE] /\ s.n = t.n
  <2> SUFFICES ASSUME NEW t \in ready, NEW s, s = [t EXCEPT !.overtaken = TRUE]
               PROVE  s \in Snaps /\ s.overtaken /\ s.n = t.n
    BY <1>2
  <2>1. t \in Snaps
    BY <1>1
  <2> QED BY <2>1 DEF Snaps
<1>7. /\ Visible' <=> Visible
      /\ Visible' => /\ panel' \in Panels /\ panel'.n = panel.n /\ panel'.dim = panel.dim
                     /\ panel'.shown = panel.shown
                     /\ panel.n # by => panel'.overtaken
  <2>1. CASE ~Visible
    BY <1>2, <2>1 DEF Visible
  <2>2. CASE Visible
    <3>1. panel \in Panels /\ panel.n \in Nat \ {0}
      BY <1>1, <2>2 DEF PanelStateTypes, NumbersAreGiven
    <3> DEFINE r == [panel EXCEPT !.overtaken = TRUE]
    <3>2. /\ r \in Panels /\ r.n = panel.n /\ r.dim = panel.dim /\ r.shown = panel.shown /\ r.overtaken
      BY <3>1 DEF Panels
    <3>3. r # NoPanel
      BY <3>1, <3>2, PanelsAreThere
    <3>4. panel' = r \/ (panel' = panel /\ panel.n = by)
      BY <1>2, <2>2
    <3> HIDE DEF r
    <3> QED BY <2>2, <3>1, <3>2, <3>3, <3>4 DEF Visible
  <2> QED BY <2>1, <2>2
<1>8. NumbersAreGiven' /\ NumbersDiffer' /\ ComingIsUnused'
  <2>1. CallsFrom(1)
    BY QueuesMove
  <2>2. TasksFrom(0)
    <3>1. \A k \in Nat : k + 0 = k
      OBVIOUS
    <3> QED BY <1>3, <1>5, <3>1 DEF TasksFrom
  <2>3. ASSUME NEW s \in ready', NEW t \in ready', s.n = t.n PROVE s = t
    <3>1. PICK x \in ready : s = [x EXCEPT !.overtaken = TRUE] /\ s.n = x.n
      BY <1>6
    <3>2. PICK y \in ready : t = [y EXCEPT !.overtaken = TRUE] /\ t.n = y.n
      BY <1>6
    <3>3. x = y
      BY <1>1, <2>3, <3>1, <3>2 DEF NumbersDiffer
    <3> QED BY <3>1, <3>2, <3>3
  <2> QED BY <1>6, <1>7, <2>1, <2>2, <2>3, NumbersStay
<1>9. SnapshotsHold'
  BY <1>5, <1>6 DEF SnapshotsHold, TasksHold
<1>10. PanelStateTypes'
  <2>1. calls' \in Seq(PanelCalls) /\ ready' \in SUBSET Snaps
    BY <1>1, <1>6
  <2> QED BY <1>1, <1>2, <1>3, <1>7, <2>1 DEF PanelStateTypes
<1>11. PopupsAreTheChoice' /\ WindowIsSound'
  BY <1>1, <1>7 DEF PopupsAreTheChoice, WindowIsSound, Visible
<1> QED BY <1>7, <1>8, <1>9, <1>10, <1>11

\* The settings change, and it was not the panel that asked for it.
LEMMA OtherChange ==
  ASSUME PanelInv, calls # <<>>, calls' = Tail(calls), NEW c \in Configs, NEW by \in Nat,
         NEW posted \in Seq(PanelTasks),
         \A i \in DOMAIN posted : posted[i].do \notin {"show", "refresh"},
         Change(c, by, posted), UNCHANGED <<starting, frame, choice, popups, opens>>,
         Visible => panel.n # by
  PROVE  PanelInv'
<1>1. /\ PanelStateTypes' /\ PopupsAreTheChoice' /\ WindowIsSound'
      /\ NumbersAreGiven' /\ NumbersDiffer' /\ ComingIsUnused' /\ SnapshotsHold'
      /\ Visible' <=> Visible
      /\ Visible' => panel'.dim = panel.dim /\ panel'.shown = panel.shown /\ panel'.overtaken
  BY ChangeFacts
<1>2. SwitchesFollow
  BY DEF PanelInv
<1>3. SwitchesFollow'
  BY <1>1, <1>2 DEF SwitchesFollow
<1>4. AutomationIsTold' /\ TextsAreReplaced'
  BY <1>1 DEF AutomationIsTold, TextsAreReplaced
<1> QED BY <1>1, <1>3, <1>4 DEF PanelInv

\* What an action tells the panel (performControlPanelAction).
Told(action) ==
    CASE action.what = "automation" -> <<ShowAutomation(Performed(cfg, action))>>
      [] action.what = "language" /\ action.value # cfg.language -> <<[do |-> "reopen"]>>
      [] OTHER -> <<>>

\* What a served call tells the panel: the automation at most once, and no opening.
LEMMA ToldFacts ==
  ASSUME cfg \in Configs, NEW action \in PanelActions
  PROVE  /\ Told(action) \in Seq(PanelTasks)
         /\ \A i \in DOMAIN Told(action) : Told(action)[i].do \notin {"show", "refresh"}
         /\ action.what = "automation" =>
               \E i \in DOMAIN Told(action) :
                  /\ Told(action)[i].do = "automation"
                  /\ Told(action)[i].on = Performed(cfg, action).automation
                  /\ \A j \in DOMAIN Told(action) : j = i
         /\ action.what # "automation" =>
               \A i \in DOMAIN Told(action) : Told(action)[i].do # "automation"
         /\ action.what = "language" /\ action.value # cfg.language =>
               \E i \in DOMAIN Told(action) : Told(action)[i].do = "reopen"
<1>1. CASE action.what = "automation"
  <2> DEFINE t == ShowAutomation(Performed(cfg, action))
  <2>1. Performed(cfg, action).automation \in BOOLEAN
    BY PerformedFacts DEF Configs
  <2>2. t \in PanelTasks /\ t.do = "automation" /\ t.on = Performed(cfg, action).automation
    BY <2>1 DEF ShowAutomation, PanelTasks
  <2>3. Told(action) = <<t>>
    BY <1>1 DEF Told
  <2> HIDE DEF t
  <2> QED BY <1>1, <2>2, <2>3
<1>2. CASE action.what = "language" /\ action.value # cfg.language
  <2> DEFINE t == [do |-> "reopen"]
  <2>1. t \in PanelTasks /\ t.do = "reopen"
    BY DEF PanelTasks
  <2>2. Told(action) = <<t>>
    BY <1>2 DEF Told
  <2> HIDE DEF t
  <2> QED BY <1>2, <2>1, <2>2
<1>3. CASE action.what # "automation" /\ ~(action.what = "language" /\ action.value # cfg.language)
  <2>1. Told(action) = <<>>
    BY <1>3 DEF Told
  <2> QED BY <1>3, <2>1
<1> QED BY <1>1, <1>2, <1>3

\* The panel's own click is served.
LEMMA OwnChange ==
  ASSUME PanelInv, Visible, calls # <<>>, calls' = Tail(calls), NEW action \in PanelActions,
         Clicked(Head(calls), panel.n), Head(calls).action = action,
         Change(Performed(cfg, action), panel.n, Told(action)),
         UNCHANGED <<starting, frame, choice, popups, opens>>
  PROVE  PanelInv'
<1> DEFINE c == Performed(cfg, action)
           posted == Told(action)
           n == panel.n
           call == Head(calls)
<1>1. /\ AutomationIsTold /\ SwitchesFollow /\ TextsAreReplaced /\ NumbersAreGiven /\ PanelStateTypes
      /\ calls \in Seq(PanelCalls) /\ tasks \in Seq(PanelTasks) /\ cfg \in Configs /\ opens \in Nat
  BY DEF PanelInv, PanelStateTypes
<1>2. n \in Nat
  BY <1>1 DEF NumbersAreGiven
<1>3. /\ c \in Configs
      /\ action.what # "automation" => c.automation = cfg.automation
      /\ action.what # "language" => c.language = cfg.language
      /\ action.what = "language" => c.language = action.value
  BY <1>1, PerformedFacts
<1>4. /\ posted \in Seq(PanelTasks)
      /\ \A i \in DOMAIN posted : posted[i].do \notin {"show", "refresh"}
      /\ action.what = "automation" =>
            \E i \in DOMAIN posted : /\ posted[i].do = "automation" /\ posted[i].on = c.automation
                                     /\ \A j \in DOMAIN posted : j = i
      /\ action.what # "automation" => \A i \in DOMAIN posted : posted[i].do # "automation"
      /\ action.what = "language" /\ action.value # cfg.language =>
            \E i \in DOMAIN posted : posted[i].do = "reopen"
  BY <1>1, ToldFacts
<1>5. /\ Change(c, n, posted) /\ cfg' = c /\ panel' = panel
      /\ ready' = {[snap EXCEPT !.overtaken = TRUE] : snap \in ready}
      /\ tasks' = [i \in DOMAIN tasks |-> Overtaken(tasks[i])] \o posted
  BY DEF Change
<1>6. Clicked(call, n) /\ call.action = action /\ call.do = "action"
  BY DEF Clicked
<1>7. After(c, Tail(calls), n) = After(cfg, calls, n)
  <2>1. Served(cfg, call, n) = c
    BY <1>6 DEF Served
  <2> HIDE DEF c, n
  <2> QED BY <1>1, <2>1, AfterHead
<1> HIDE DEF c, posted, n
<1>8. /\ PanelStateTypes' /\ PopupsAreTheChoice' /\ WindowIsSound'
      /\ NumbersAreGiven' /\ NumbersDiffer' /\ ComingIsUnused' /\ SnapshotsHold'
  BY <1>2, <1>3, <1>4, <1>5, ChangeFacts
<1>9. /\ \A i \in DOMAIN tasks : i \in DOMAIN tasks' /\ tasks'[i] = Overtaken(tasks[i])
      /\ \A i \in DOMAIN posted : \E k \in DOMAIN tasks' :
             tasks'[k] = posted[i] /\ \A j \in DOMAIN tasks : j < k
      /\ \A k \in DOMAIN tasks' :
             \/ k \in DOMAIN tasks /\ tasks'[k] = Overtaken(tasks[k])
             \/ \E i \in DOMAIN posted : tasks'[k] = posted[i] /\ \A j \in DOMAIN tasks : j < k
      /\ \A k \in DOMAIN tasks' : k \in Nat
  BY <1>4, <1>5, ChangedTasks
<1>10. \A i \in DOMAIN tasks : /\ Overtaken(tasks[i]).do = tasks[i].do
                               /\ Updates(i) => Overtaken(tasks[i]).on = tasks[i].on
  <2>1. \A i \in DOMAIN tasks : tasks[i] \in PanelTasks
    BY <1>1
  <2> QED BY <2>1, OvertakenFacts DEF Updates
<1>11. \A i \in DOMAIN tasks : Updates(i)' <=> Updates(i)
  BY <1>9, <1>10 DEF Updates
<1>12. SwitchesFollow'
  BY <1>1, <1>5, <1>7 DEF SwitchesFollow, n
<1>13. AutomationIsTold'
  <2> SUFFICES ASSUME ~panel.overtaken
               PROVE  /\ LastUpdateHolds'
                      /\ NoUpdates' /\ NoOwnUpdate' => panel.shown.automation = cfg'.automation
    BY <1>5 DEF AutomationIsTold
  <2>1. CASE action.what = "automation"
    <3>1. PICK i \in DOMAIN posted : /\ posted[i].do = "automation" /\ posted[i].on = c.automation
                                     /\ \A j \in DOMAIN posted : j = i
      BY <1>4, <2>1
    <3>2. PICK k \in DOMAIN tasks' : tasks'[k] = posted[i] /\ \A j \in DOMAIN tasks : j < k
      BY <1>9
    <3>3. Updates(k)' /\ ~NoUpdates'
      BY <3>1, <3>2 DEF Updates, NoUpdates
    <3>4. LastUpdateHolds'
      <4>1. ASSUME NEW l \in DOMAIN tasks', Updates(l)', \A j \in DOMAIN tasks' : j > l => ~Updates(j)'
            PROVE  tasks'[l].on = cfg'.automation
        <5>1. CASE l \in DOMAIN tasks
          <6>1. k > l
            BY <1>9, <3>2, <5>1
          <6> QED BY <3>2, <3>3, <4>1, <6>1
        <5>2. CASE \E j \in DOMAIN posted : tasks'[l] = posted[j]
          BY <1>5, <3>1, <5>2
        <5> QED BY <1>9, <5>1, <5>2
      <4> QED BY <4>1 DEF LastUpdateHolds
    <3> QED BY <3>3, <3>4
  <2>2. CASE action.what # "automation"
    <3>1. \A k \in DOMAIN tasks' : Updates(k)' => k \in DOMAIN tasks /\ Updates(k)
      BY <1>4, <1>9, <1>10, <2>2 DEF Updates
    <3>2. c.automation = cfg.automation
      BY <1>3, <2>2
    <3>3. LastUpdateHolds /\ (NoUpdates /\ NoOwnUpdate => panel.shown.automation = cfg.automation)
      BY <1>1 DEF AutomationIsTold
    <3>4. LastUpdateHolds'
      <4>1. ASSUME NEW l \in DOMAIN tasks', Updates(l)', \A j \in DOMAIN tasks' : j > l => ~Updates(j)'
            PROVE  tasks'[l].on = cfg'.automation
        <5>1. l \in DOMAIN tasks /\ Updates(l) /\ tasks'[l].on = tasks[l].on
          BY <1>9, <1>10, <3>1, <4>1
        <5>2. \A j \in DOMAIN tasks : j > l => ~Updates(j)
          BY <1>9, <1>11, <4>1
        <5> QED BY <1>5, <3>2, <3>3, <5>1, <5>2 DEF LastUpdateHolds
      <4> QED BY <4>1 DEF LastUpdateHolds
    <3>5. NoUpdates' => NoUpdates
      BY <1>9, <1>11 DEF NoUpdates, Updates
    <3>6. NoOwnUpdate' => NoOwnUpdate
      <4>1. \A i \in DOMAIN calls :
               (i = 1 /\ calls[i] = call) \/ (i - 1 \in DOMAIN calls' /\ calls'[i - 1] = calls[i])
        BY <1>1
      <4>2. ~OwnUpdate(call)
        BY <1>6, <2>2 DEF OwnUpdate
      <4> HIDE DEF call
      <4> QED BY <1>5, <4>1, <4>2 DEF NoOwnUpdate, OwnUpdate
    <3> QED BY <1>5, <3>2, <3>3, <3>4, <3>5, <3>6
  <2> QED BY <2>1, <2>2
<1>14. TextsAreReplaced'
  <2> SUFFICES ASSUME ~panel.overtaken, panel.caption # c.language PROVE RefreshComes'
    BY <1>5 DEF TextsAreReplaced
  <2>1. CASE action.what = "language" /\ action.value # cfg.language
    <3>1. PICK i \in DOMAIN posted : posted[i].do = "reopen"
      BY <1>4, <2>1
    <3>2. PICK k \in DOMAIN tasks' : tasks'[k] = posted[i]
      BY <1>9
    <3> QED BY <3>1, <3>2 DEF RefreshComes
  <2>2. CASE ~(action.what = "language" /\ action.value # cfg.language)
    <3>1. RefreshComes
      BY <1>1, <1>3, <2>2 DEF TextsAreReplaced
    <3>2. CASE \E g \in starting : g.refresh
      BY <3>2 DEF RefreshComes
    <3>3. CASE \E i \in DOMAIN calls : Asks(i) /\ calls[i].refresh
      <4>1. \A i \in DOMAIN calls :
               (i = 1 /\ calls[i] = call) \/ (i - 1 \in DOMAIN calls' /\ calls'[i - 1] = calls[i])
        BY <1>1
      <4> HIDE DEF call
      <4> QED BY <1>6, <3>3, <4>1 DEF RefreshComes, Asks
    <3>4. CASE \E snap \in ready : snap.do = "refresh"
      <4>1. PICK snap \in ready : snap.do = "refresh"
        BY <3>4
      <4> DEFINE s == [snap EXCEPT !.overtaken = TRUE]
      <4>2. s \in ready'
        BY <1>5
      <4>3. s.do = "refresh"
        <5>1. snap \in Snaps
          BY <1>1 DEF PanelStateTypes
        <5> QED BY <4>1, <5>1 DEF Snaps
      <4> HIDE DEF s
      <4> QED BY <4>2, <4>3 DEF RefreshComes
    <3>5. CASE \E i \in DOMAIN tasks : tasks[i].do \in {"reopen", "refresh"}
      BY <1>9, <1>10, <3>5 DEF RefreshComes
    <3> QED BY <3>1, <3>2, <3>3, <3>4, <3>5 DEF RefreshComes
  <2> QED BY <2>1, <2>2
<1> QED BY <1>8, <1>12, <1>13, <1>14 DEF PanelInv

\* Autostart refuses what was asked for elsewhere: nothing is different.
LEMMA RefusedOther ==
  ASSUME PanelInv, calls # <<>>, calls' = Tail(calls), Head(calls).do = "action",
         ~Clicked(Head(calls), panel.n), panel' = panel,
         UNCHANGED <<cfg, starting, ready, tasks, frame, choice, popups, opens>>
  PROVE  PanelInv'
<1> DEFINE call == Head(calls)
<1>1. /\ PanelStateTypes /\ TextsAreReplaced /\ NumbersDiffer /\ calls \in Seq(PanelCalls)
      /\ call.do = "action"
  BY DEF PanelInv, PanelStateTypes
<1>2. SnapshotsHold' /\ AutomationIsTold' /\ SwitchesFollow' /\ calls' \in Seq(PanelCalls)
  BY SettingsStay
<1>3. /\ PopupsAreTheChoice' /\ WindowIsSound' /\ choice' \in Choices
      /\ Visible' => panel' \in Panels
  BY WindowStays
<1>4. NumbersAreGiven' /\ NumbersDiffer' /\ ComingIsUnused'
  <2>1. CallsFrom(1) /\ TasksFrom(0)
    BY QueuesMove
  <2>2. \A s, t \in ready' : s.n = t.n => s = t
    BY <1>1 DEF NumbersDiffer
  <2> QED BY <2>1, <2>2, NumbersStay DEF Visible
<1>5. PanelStateTypes'
  BY <1>1, <1>2, <1>3 DEF PanelStateTypes
<1>6. TextsAreReplaced'
  <2>1. \A i \in DOMAIN calls :
           (i = 1 /\ calls[i] = call) \/ (i - 1 \in DOMAIN calls' /\ calls'[i - 1] = calls[i])
    BY <1>1
  <2> HIDE DEF call
  <2>2. RefreshComes => RefreshComes'
    BY <1>1, <2>1 DEF RefreshComes, Asks
  <2> QED BY <1>1, <2>2, RefreshGoesOn
<1> QED BY <1>2, <1>3, <1>4, <1>5, <1>6 DEF PanelInv

\* Autostart refuses the panel's own click: its switch tells what is not.
LEMMA RefusedOwn ==
  ASSUME PanelInv, Visible, calls # <<>>, calls' = Tail(calls),
         panel' = [panel EXCEPT !.overtaken = TRUE],
         UNCHANGED <<cfg, starting, ready, tasks, frame, choice, popups, opens>>
  PROVE  PanelInv'
<1>1. /\ PanelStateTypes /\ PopupsAreTheChoice /\ WindowIsSound /\ NumbersAreGiven /\ NumbersDiffer
      /\ SnapshotsHold /\ SwitchesFollow /\ calls \in Seq(PanelCalls) /\ opens \in Nat
  BY DEF PanelInv, PanelStateTypes
<1>2. /\ panel' \in Panels /\ panel'.n = panel.n /\ panel'.dim = panel.dim
      /\ panel'.shown = panel.shown /\ panel'.overtaken /\ Visible'
  <2>1. panel \in Panels /\ panel.n \in Nat \ {0}
    BY <1>1 DEF PanelStateTypes, NumbersAreGiven
  <2>2. /\ panel' \in Panels /\ panel'.n = panel.n /\ panel'.dim = panel.dim
        /\ panel'.shown = panel.shown /\ panel'.overtaken
    BY <2>1 DEF Panels
  <2> QED BY <2>1, <2>2, PanelsAreThere DEF Visible
<1>3. NumbersAreGiven' /\ NumbersDiffer' /\ ComingIsUnused'
  <2>1. CallsFrom(1) /\ TasksFrom(0)
    BY QueuesMove
  <2>2. \A s, t \in ready' : s.n = t.n => s = t
    BY <1>1 DEF NumbersDiffer
  <2> QED BY <1>2, <2>1, <2>2, NumbersStay
<1>4. calls' \in Seq(PanelCalls)
  BY <1>1
<1>5. PanelStateTypes'
  BY <1>1, <1>2, <1>4 DEF PanelStateTypes
<1>6. PopupsAreTheChoice' /\ WindowIsSound'
  BY <1>1, <1>2 DEF PopupsAreTheChoice, WindowIsSound
<1>7. SnapshotsHold'
  BY <1>1 DEF SnapshotsHold, TasksHold, Shown, Updates
<1>8. AutomationIsTold' /\ SwitchesFollow' /\ TextsAreReplaced'
  BY <1>1, <1>2 DEF AutomationIsTold, SwitchesFollow, TextsAreReplaced
<1> QED BY <1>3, <1>5, <1>6, <1>7, <1>8 DEF PanelInv

\* A panel's action, whichever panel it was (handleControlPanelAction).
LEMMA PerformStep ==
  ASSUME PanelInv, calls # <<>>, calls' = Tail(calls), Head(calls).do = "action",
         Perform(Head(calls)), UNCHANGED <<starting, frame, choice, popups, opens>>
  PROVE  PanelInv'
<1> DEFINE call == Head(calls)
           action == call.action
<1>1. calls \in Seq(PanelCalls) /\ cfg \in Configs /\ NumbersAreGiven /\ opens \in Nat
  BY DEF PanelInv, PanelStateTypes
<1>2. /\ call \in PanelCalls /\ action \in PanelActions /\ call.by \in 1 .. opens
      /\ call.by \in Nat \ {0}
  <2>1. call \in PanelCalls /\ 1 \in DOMAIN calls /\ calls[1] = call
    BY <1>1
  <2>2. action \in PanelActions
    BY <2>1 DEF PanelCalls
  <2>3. call.by \in 1 .. opens
    BY <1>1, <2>1 DEF NumbersAreGiven
  <2> QED BY <1>1, <2>1, <2>2, <2>3
<1>3. Clicked(call, panel.n) <=> call.by = panel.n
  BY DEF Clicked
<1>4. call.by = panel.n => Visible
  BY <1>2 DEF Visible, NoPanel
<1>5. CASE Change(Performed(cfg, action), call.by, Told(action))
  <2>1. CASE call.by = panel.n
    <3>1. Change(Performed(cfg, action), panel.n, Told(action))
      BY <1>5, <2>1
    <3> QED BY <1>2, <1>3, <1>4, <2>1, <3>1, OwnChange
  <2>2. CASE call.by # panel.n
    <3> DEFINE c == Performed(cfg, action)
               posted == Told(action)
               m == call.by
    <3>1. c \in Configs
      BY <1>1, <1>2, PerformedFacts
    <3>2. /\ posted \in Seq(PanelTasks)
          /\ \A i \in DOMAIN posted : posted[i].do \notin {"show", "refresh"}
      BY <1>1, <1>2, ToldFacts
    <3>3. Change(c, m, posted) /\ m \in Nat /\ panel.n # m
      BY <1>2, <1>5, <2>2
    <3> HIDE DEF c, posted, m
    <3> QED BY <3>1, <3>2, <3>3, OtherChange
  <2> QED BY <2>1, <2>2
<1>6. CASE /\ panel' = IF Visible /\ panel.n = call.by THEN [panel EXCEPT !.overtaken = TRUE] ELSE panel
           /\ UNCHANGED <<cfg, ready, tasks>>
  <2>1. CASE Visible /\ panel.n = call.by
    BY <1>6, <2>1, RefusedOwn
  <2>2. CASE ~(Visible /\ panel.n = call.by)
    BY <1>3, <1>4, <1>6, <2>2, RefusedOther
  <2> QED BY <2>1, <2>2
<1> QED BY <1>5, <1>6 DEF Perform, Told

\* A change that no panel asked for (hot key, reloaded configuration).
LEMMA OutsideServed ==
  ASSUME PanelInv, calls # <<>>, calls' = Tail(calls), ChangeOutside(Head(calls)),
         UNCHANGED <<starting, frame, choice, popups, opens>>
  PROVE  PanelInv'
<1> DEFINE nobody == 0
<1>1. cfg \in Configs /\ NumbersAreGiven /\ opens \in Nat /\ Settings \subseteq Configs
  BY PanelAssumption DEF PanelInv, PanelStateTypes, Configs
<1>2. Visible => panel.n # nobody
  BY <1>1 DEF NumbersAreGiven
<1>3. nobody \in Nat
  OBVIOUS
<1>4. CASE Head(calls).do = "hotkey"
  <2> DEFINE c == NoSleepSet(cfg, ~cfg.noSleep)
             posted == <<>>
  <2>1. c \in Configs
    BY <1>1 DEF NoSleepSet, Configs
  <2>2. posted \in Seq(PanelTasks) /\ \A i \in DOMAIN posted : posted[i].do \notin {"show", "refresh"}
    OBVIOUS
  <2>3. Change(c, nobody, posted)
    BY <1>4 DEF ChangeOutside
  <2> HIDE DEF c, posted, nobody
  <2> QED BY <1>2, <1>3, <2>1, <2>2, <2>3, OtherChange
<1>5. CASE Head(calls).do # "hotkey"
  <2> DEFINE posted == <<[do |-> "hide"]>>
  <2>1. PICK c \in Settings : Change(c, nobody, posted)
    BY <1>5 DEF ChangeOutside
  <2>2. posted \in Seq(PanelTasks) /\ \A i \in DOMAIN posted : posted[i].do \notin {"show", "refresh"}
    <3> DEFINE t == [do |-> "hide"]
    <3>1. t \in PanelTasks /\ t.do \notin {"show", "refresh"}
      BY DEF PanelTasks
    <3>2. posted = <<t>>
      OBVIOUS
    <3> HIDE DEF t, posted
    <3> QED BY <3>1, <3>2
  <2>3. c \in Configs
    BY <1>1
  <2> HIDE DEF posted, nobody
  <2> QED BY <1>2, <1>3, <2>1, <2>2, <2>3, OtherChange
<1> QED BY <1>4, <1>5

\* The loop serves its next call, whoever made it.
LEMMA ServeStep == ASSUME PanelInv, Serve PROVE PanelInv'
<1>1. calls # <<>> /\ calls' = Tail(calls) /\ UNCHANGED <<starting, frame, choice, popups, opens>>
  BY DEF Serve
<1>2. CASE Head(calls).do = "snapshot"
  BY <1>1, <1>2, SnapshotStep DEF Serve
<1>3. CASE Head(calls).do = "action"
  BY <1>1, <1>3, PerformStep DEF Serve
<1>4. CASE Head(calls).do \notin {"snapshot", "action"}
  BY <1>1, <1>4, OutsideServed DEF Serve
<1> QED BY <1>2, <1>3, <1>4
-----------------------------------------------------------------------------
(* The invariant of the panel *)

\* The invariant of the panel holds at first,
LEMMA InitPanelInv == PanelInit => PanelInv
<1> SUFFICES ASSUME PanelInit PROVE PanelInv
  OBVIOUS
<1>1. /\ cfg \in Configs /\ starting = {} /\ calls = <<>> /\ ready = {} /\ tasks = <<>>
      /\ panel = NoPanel /\ frame = NoFrame /\ choice = NoChoice /\ popups = {} /\ opens = 0
  BY PanelAssumption DEF PanelInit, Configs
<1>2. ~Visible /\ NoChoice \in Choices /\ NoChoice.id = "none" /\ NoChoice.popup = 0
  BY <1>1 DEF Visible, NoChoice, Choices
<1>3. PanelStateTypes /\ PopupsAreTheChoice /\ WindowIsSound
  BY <1>1, <1>2 DEF PanelStateTypes, PopupsAreTheChoice, WindowIsSound
<1>4. NumbersAreGiven /\ NumbersDiffer /\ ComingIsUnused
  BY <1>1, <1>2 DEF NumbersAreGiven, NumbersDiffer, ComingIsUnused
<1>5. SnapshotsHold /\ AutomationIsTold /\ SwitchesFollow /\ TextsAreReplaced
  BY <1>1, <1>2 DEF SnapshotsHold, TasksHold, AutomationIsTold, SwitchesFollow, TextsAreReplaced
<1> QED BY <1>3, <1>4, <1>5 DEF PanelInv

\* and every step keeps it.
LEMMA NextPanelInv == PanelInv /\ [PanelNext]_panelVars => PanelInv'
<1> SUFFICES ASSUME PanelInv, [PanelNext]_panelVars PROVE PanelInv'
  OBVIOUS
<1>1. CASE UNCHANGED panelVars
  <2>1. UNCHANGED <<app, tasks, opens>> /\ panel' = panel /\ choice' = choice /\ popups' = popups
        /\ frame' = frame
    BY <1>1 DEF panelVars, app, ui
  <2>2. choice' \in Choices /\ PopupsAreTheChoice' /\ WindowIsSound'
    BY <2>1, WindowStays
  <2> QED BY <2>1, <2>2, WindowStep
<1>2. CASE LeftClick
  BY <1>2, LeftClickStep
<1>3. CASE Leave
  BY <1>3, LeaveStep
<1>4. ASSUME NEW g \in starting, Ask(g) PROVE PanelInv'
  BY <1>4, AskStep
<1>5. ASSUME NEW snap \in ready, Send(snap) PROVE PanelInv'
  BY <1>5, SendStep
<1>6. CASE Serve
  BY <1>6, ServeStep
<1>7. CASE RunTask
  BY <1>7, RunTaskStep
<1>8. ASSUME NEW do \in {"hotkey", "reload"}, Outside(do) PROVE PanelInv'
  BY <1>8, OutsideStep
<1>9. ASSUME NEW id \in {"noSleep", "idle", "automation", "plain"}, ClickSwitch(id) PROVE PanelInv'
  BY <1>9, ClickSwitchStep
<1>10. ASSUME NEW id \in ChoiceTriggers, ClickTrigger(id) \/ KeyOnTrigger(id) PROVE PanelInv'
  BY <1>10, ClickTriggerStep, KeyOnTriggerStep
<1>11. CASE OpenRequested
  BY <1>11, OpenRequestedStep
<1>12. CASE ChooseQuick
  BY <1>12, ChooseQuickStep
<1>13. ASSUME NEW serial \in popups, DismissPopup(serial) \/ ChooseRow(serial) PROVE PanelInv'
  BY <1>13, DismissPopupStep, ChooseRowStep
<1>14. CASE ChangeDPI
  BY <1>14, ChangeDPIStep
<1>15. CASE Apply
  BY <1>15, ApplyStep
<1>16. CASE Commit
  BY <1>16, CommitStep
<1>17. CASE ChangeTheme
  BY <1>17, ChangeThemeStep
<1> QED BY <1>1, <1>2, <1>3, <1>4, <1>5, <1>6, <1>7, <1>8, <1>9, <1>10, <1>11, <1>12, <1>13,
           <1>14, <1>15, <1>16, <1>17 DEF PanelNext

\* The invariant of the control panel holds in every reachable state
\* (controlpanel.go, app/controlpanel.go, app/controlpanel_actions.go).
THEOREM PanelInvariance == PanelSpec => []PanelInv
<1>1. PanelInit => PanelInv
  BY InitPanelInv
<1>2. PanelInv /\ [PanelNext]_panelVars => PanelInv'
  BY NextPanelInv
<1> QED BY <1>1, <1>2, PTL DEF PanelSpec

\* A window that a change of DPI hides or lays out anew always has on its way
\* what ends this; once nothing is pending, what is shown fits the monitor; there
\* is one popup at most and the panel knows it (window_messages.go, ensureDPIApplyPosted,
\* commitPendingDPI, openPopup, closeChoice).
THEOREM FramesAlwaysArrive == PanelSpec => []FramesArrive
<1>1. PanelInv => FramesArrive
  <2> SUFFICES ASSUME PanelInv PROVE FramesArrive
    OBVIOUS
  <2>1. PanelStateTypes /\ PopupsAreTheChoice /\ WindowIsSound /\ NumbersAreGiven
    BY DEF PanelInv
  <2>2. Visible => frame # NoFrame
    BY <2>1, FrameIsThere DEF WindowIsSound
  <2>3. PanelTypes
    <3>1. starting \subseteq [n : 1 .. opens, refresh : BOOLEAN]
      BY <2>1 DEF PanelStateTypes, NumbersAreGiven
    <3>2. Visible <=> frame # NoFrame
      BY <2>1, <2>2 DEF WindowIsSound
    <3>3. Visible => panel.minutes \in Minutes /\ panel.n \in 1 .. opens
      BY <2>1 DEF PanelStateTypes, NumbersAreGiven, Panels
    <3>4. choice.id \in ChoiceTriggers \cup {"none"} /\ \A serial \in popups : serial <= choice.serial
      BY <2>1 DEF PanelStateTypes, PopupsAreTheChoice, Choices
    <3> QED BY <2>1, <3>1, <3>2, <3>3, <3>4 DEF PanelTypes, PanelStateTypes, Configs
  <2>4. CloakEnds
    <3>1. CASE Visible
      BY <2>1, <3>1, SoundFrameMeans DEF CloakEnds, WindowIsSound
    <3>2. CASE ~Visible
      <4>1. frame = NoFrame
        BY <2>1, <3>2 DEF WindowIsSound
      <4>2. OnItsWay(NoFrame) /\ PostedOnce(NoFrame)
        BY DEF OnItsWay, PostedOnce, Waiting, NoFrame
      <4> QED BY <4>1, <4>2 DEF CloakEnds
    <3> QED BY <3>1, <3>2
  <2>5. ShownFrameFits
    BY <2>1, SoundFrameMeans DEF ShownFrameFits, WindowIsSound
  <2>6. OnePopup
    BY <2>1 DEF OnePopup, PopupsAreTheChoice
  <2> QED BY <2>3, <2>4, <2>5, <2>6 DEF FramesArrive
<1> QED BY <1>1, PanelInvariance, PTL

\* The switches of the panel are what the settings will be when its clicks have
\* been served, and its texts are in the language of the settings when all is
\* quiet, unless it has been overtaken (applyDependentStates, toggleCommand,
\* UpdateAutomationStatus, reopenPanel).
THEOREM PanelIsAlwaysUpToDate == PanelSpec => []PanelIsUpToDate
<1>1. PanelInv => PanelIsUpToDate
  <2> SUFFICES ASSUME PanelInv PROVE PanelIsUpToDate
    OBVIOUS
  <2>1. PanelStateTypes /\ AutomationIsTold /\ SwitchesFollow /\ TextsAreReplaced
        /\ cfg \in Configs /\ calls \in Seq(PanelCalls)
    BY DEF PanelInv, PanelStateTypes
  <2>2. PanelFollowsConfig
    <3> SUFFICES ASSUME Visible PROVE PanelFollowsConfig
      BY DEF PanelFollowsConfig
    <3> DEFINE c == After(cfg, calls, panel.n)
    <3>1. panel.dim = ~panel.shown.idle
      BY <2>1 DEF SwitchesFollow
    <3>2. ASSUME ~panel.overtaken
          PROVE  [panel.shown EXCEPT !.automation = FALSE] = [Switches(c) EXCEPT !.automation = FALSE]
      BY <2>1, <3>2 DEF SwitchesFollow, Without
    <3>3. ASSUME ~panel.overtaken, NoClicks, NoUpdates
          PROVE  panel.shown.automation = Switches(c).automation
      <4>1. NoOwnUpdate
        BY <3>3 DEF NoOwnUpdate, OwnUpdate, NoClicks
      <4>2. panel.shown.automation = cfg.automation
        BY <2>1, <3>3, <4>1 DEF AutomationIsTold
      <4>3. c = cfg
        BY <2>1, <3>3, AfterNone DEF NoClicks
      <4>4. Switches(cfg).automation = cfg.automation
        BY <2>1, SwitchesTyped
      <4> HIDE DEF c
      <4> QED BY <4>2, <4>3, <4>4
    <3> HIDE DEF c
    <3> QED BY <3>1, <3>2, <3>3 DEF PanelFollowsConfig, c
  <2>3. TextsFollowLanguage
    <3>1. Quiet => ~RefreshComes
      BY DEF Quiet, RefreshComes
    <3> QED BY <2>1, <3>1 DEF TextsFollowLanguage, TextsAreReplaced
  <2> QED BY <2>2, <2>3 DEF PanelIsUpToDate
<1> QED BY <1>1, PanelInvariance, PTL

(***************************************************************************)
(* The form of one automatic task                                          *)
(***************************************************************************)

\* What layoutEditorContent has done to every form the user sees.
LogicFits(f) ==
    /\ f.trigger = "exited" => f.logic = "none"
    /\ f.trigger = "started" => f.logic = "any"

\* A rule the list or the editor holds: NormalizeRules has run over it.
Repaired(r) == r.logic \in Logics /\ r.policy \in Policies

\* The editor works on the default rule or on one that came out of
\* NormalizeRules; without an issue it is one that PrepareRules accepts.
RuleIsKnown ==
    /\ Repaired(rule)
    /\ ~raw => rule.action \in Actions /\ rule.trigger \in TriggerOptions(rule.action)
    /\ ~raw /\ ~isNew => \E x \in Rules : Prepared(x) /\ rule = Normalized(x)

\* A blamed control is visible in every phase.
BlameIsShown == error \in TextFields \cup {"choose", "days"} => error \in shown

\* Until the user does something, the form is the rule.
FormIsTheRule == ~touched /\ phase # "left" => form = Filled(rule) /\ procs = rule.procs

FormInv ==
    /\ FormTypes /\ RuleIsKnown /\ BlameIsShown /\ FormIsTheRule
    /\ shown = Fields(form, procs)
    /\ LogicFits(form)
    /\ form.trigger \in options
    /\ raw \/ options = TriggerOptions(form.action)

------------------------------------------------------------------------------
(* Days, faults and what NormalizeRules leaves *)

\* The days of a slice of weekdays are days.
LEMMA DaySetTyped ==
  ASSUME NEW d \in Days
  PROVE  DaySet(d) \in SUBSET {"mon", "sun"} /\ (d.list # <<>> => DaySet(d) # {})
<1>1. d.list \in {<<>>, <<"mon">>, <<"sun">>, <<"mon", "sun">>, <<"sun", "mon">>}
  BY DEF Days
<1>2. \A i \in DOMAIN d.list : d.list[i] \in {"mon", "sun"}
  BY <1>1
<1>3. d.list # <<>> => 1 \in DOMAIN d.list
  BY <1>1
<1> QED BY <1>2, <1>3 DEF DaySet

\* A slice made from a set of days holds the days of the set, and is empty only
\* when the set is.
LEMMA InOrderMeans ==
  ASSUME NEW order \in {EditorWeek, FileWeek}, NEW S \in SUBSET {"mon", "sun"}
  PROVE  /\ InOrder(order, S) \in Days
         /\ DaySet(InOrder(order, S)) = S
         /\ InOrder(order, S).list = <<>> <=> S = {}
<1>1. S = {} \/ S = {"mon"} \/ S = {"sun"} \/ S = {"mon", "sun"}
  OBVIOUS
<1>2. order = <<"mon", "sun">> \/ order = <<"sun", "mon">>
  BY DEF EditorWeek, FileWeek
<1> DEFINE l == InOrder(order, S).list
<1>3. InOrder(order, S) = [nil |-> FALSE, list |-> l]
  BY DEF InOrder
<1>4. /\ S = {} => l = <<>>
      /\ S = {"mon"} => l = <<"mon">>
      /\ S = {"sun"} => l = <<"sun">>
      /\ S = {"mon", "sun"} => l = order
  BY DEF InOrder
<1>5. DaySet(InOrder(order, S)) = {l[i] : i \in DOMAIN l}
  BY DEF DaySet
<1> HIDE DEF l
<1>6. InOrder(order, S) \in Days
  BY <1>1, <1>2, <1>3, <1>4 DEF Days
<1>7. l = <<>> <=> S = {}
  BY <1>1, <1>2, <1>4
<1>8. {l[i] : i \in DOMAIN l} = S
  <2>1. CASE S = {}
    BY <2>1, <1>4
  <2>2. CASE S = {"mon"}
    BY <2>2, <1>4
  <2>3. CASE S = {"sun"}
    BY <2>3, <1>4
  <2>4. CASE S = {"mon", "sun"}
    <3>1. DOMAIN l = {1, 2} /\ {l[1], l[2]} = {"mon", "sun"}
      BY <2>4, <1>4, <1>2
    <3> QED BY <3>1, <2>4
  <2> QED BY <1>1, <2>1, <2>2, <2>3, <2>4
<1> QED BY <1>3, <1>5, <1>6, <1>7, <1>8 DEF l

\* validateDraft finds nothing when there is nothing to find.
LEMMA NoFault ==
  ASSUME NEW d, \A i \in 1 .. 8 : Faults(d)[i] = "none"
  PROVE  FirstFault(d) = "none"
<1>1. DOMAIN Faults(d) = 1 .. 8
  BY DEF Faults
<1>2. {i \in DOMAIN Faults(d) : Faults(d)[i] # "none"} = {}
  BY <1>1
<1> QED BY <1>2 DEF FirstFault

\* What it finds is one of its faults.
LEMMA FaultIsFound ==
  ASSUME NEW d, FirstFault(d) # "none"
  PROVE  \E i \in 1 .. 8 : FirstFault(d) = Faults(d)[i]
<1> DEFINE found == {i \in DOMAIN Faults(d) : Faults(d)[i] # "none"}
<1>1. DOMAIN Faults(d) = 1 .. 8
  BY DEF Faults
<1>2. found # {} /\ FirstFault(d) = Faults(d)[CHOOSE i \in found : \A j \in found : i <= j]
  BY DEF FirstFault
<1>3. found \subseteq Nat /\ found \subseteq 1 .. 8
  BY <1>1
<1> HIDE DEF found
<1>4. \E i \in found : \A j \in found : i <= j
  BY <1>2, <1>3, LeastNumber
<1>5. (CHOOSE i \in found : \A j \in found : i <= j) \in found
  BY <1>4
<1> QED BY <1>2, <1>3, <1>5

\* The trigger that stands in is one of the action's; the options are the same
\* for all the actions the form does not tell apart.
LEMMA OptionFits ==
  ASSUME NEW a, NEW t
  PROVE  /\ Option(a, t) \in TriggerOptions(a)
         /\ t \in TriggerOptions(a) => Option(a, t) = t
         /\ TriggerOptions(a) \subseteq Triggers
         /\ \E b \in Actions : TriggerOptions(a) = TriggerOptions(b)
<1>1. CASE a \in StateActions
  BY <1>1 DEF Option, TriggerOptions, Triggers, ProcessTriggers, TimeTriggers, Actions
<1>2. CASE a \notin StateActions
  <2>1. "lock" \in Actions /\ "lock" \notin StateActions
    BY DEF Actions, StateActions
  <2>2. TriggerOptions(a) = TriggerOptions("lock")
    BY <1>2, <2>1 DEF TriggerOptions
  <2>3. Option(a, t) \in TriggerOptions(a) /\ (t \in TriggerOptions(a) => Option(a, t) = t)
    BY <1>2 DEF Option, TriggerOptions
  <2>4. TriggerOptions(a) \subseteq Triggers
    BY <1>2 DEF TriggerOptions, Triggers, ProcessTriggers, TimeTriggers
  <2> QED BY <2>1, <2>2, <2>3, <2>4
<1> QED BY <1>1, <1>2

\* Two actions with a trigger in common have the same options.
LEMMA SharedOption ==
  ASSUME NEW a, NEW b, NEW t, t \in TriggerOptions(a), t \in TriggerOptions(b)
  PROVE  TriggerOptions(a) = TriggerOptions(b)
<1>1. a \in StateActions <=> b \in StateActions
  BY DEF TriggerOptions
<1> QED BY <1>1 DEF TriggerOptions

\* The form after the layout differs in its logic only, which then fits.
LEMMA CoercedMeans ==
  ASSUME NEW f \in Forms
  PROVE  /\ Coerced(f) \in Forms
         /\ LogicFits(Coerced(f))
         /\ \A k \in {"name", "action", "trigger", "date", "time", "end", "days", "idle",
                      "warning", "policy", "wait"} : Coerced(f)[k] = f[k]
         /\ Coerced(f).keep = f.keep
         /\ f.trigger \notin {"exited", "started"} => Coerced(f).logic = f.logic
         /\ LogicFits(f) => Coerced(f) = f
<1> DEFINE l == IF f.trigger = "exited" THEN "none" ELSE IF f.trigger = "started" THEN "any" ELSE f.logic
<1>1. Coerced(f) = [f EXCEPT !.logic = l]
  BY DEF Coerced
<1>2. l \in Logics
  BY DEF Logics, Forms
<1>3. /\ f.trigger = "exited" => l = "none"
      /\ f.trigger = "started" => l = "any"
      /\ f.trigger \notin {"exited", "started"} => l = f.logic
  OBVIOUS
<1>4. LogicFits(f) => l = f.logic
  BY DEF LogicFits
<1> HIDE DEF l
<1>5. Coerced(f) \in Forms
  BY <1>1, <1>2 DEF Forms
<1>6. \A k \in {"name", "action", "trigger", "date", "time", "end", "days", "idle",
                "warning", "policy", "wait"} : Coerced(f)[k] = f[k]
  BY <1>1 DEF Forms
<1>7. Coerced(f).logic = l
  BY <1>1 DEF Forms
<1>8. Coerced(f).keep = f.keep
  BY <1>1 DEF Forms
<1>9. LogicFits(f) => Coerced(f) = f
  <2> SUFFICES ASSUME LogicFits(f) PROVE Coerced(f) = f
    OBVIOUS
  <2>1. l = f.logic
    BY <1>4
  <2> QED BY <1>1, <2>1 DEF Forms
<1>10. LogicFits(Coerced(f))
  BY <1>3, <1>6, <1>7 DEF LogicFits
<1> QED BY <1>3, <1>5, <1>6, <1>7, <1>8, <1>9, <1>10

\* What the editor puts into its controls.
LEMMA FilledMeans ==
  ASSUME NEW r \in Rules, Repaired(r)
  PROVE  /\ Filled(r) \in Forms
         /\ LogicFits(Filled(r))
         /\ Filled(r).trigger = Option(r.action, r.trigger)
         /\ r.action \in Actions => Filled(r).action = r.action
         /\ Filled(r).days = DaySet(r.days)
         /\ \A k \in {"name", "date", "time", "end", "idle", "warning", "policy", "wait"} :
               Filled(r)[k] = r[k]
         /\ Filled(r).keep = r.keep
         /\ Filled(r).trigger \notin {"exited", "started"} => Filled(r).logic = r.logic
<1> DEFINE a == IF r.action \in Actions THEN r.action ELSE "stay_awake"
           t == Option(r.action, r.trigger)
           s == DaySet(r.days)
           f == [name |-> r.name, action |-> a, trigger |-> t,
                 date |-> r.date, time |-> r.time, end |-> r.end, days |-> s,
                 logic |-> r.logic, keep |-> r.keep, idle |-> r.idle, warning |-> r.warning,
                 policy |-> r.policy, wait |-> r.wait]
<1>1. Filled(r) = Coerced(f)
  BY DEF Filled
<1>2. a \in Actions /\ (r.action \in Actions => a = r.action)
  BY DEF Actions, StateActions
<1>3. t \in Triggers
  BY OptionFits
<1>4. s \in SUBSET {"mon", "sun"}
  <2>1. r.days \in Days
    BY DEF Rules
  <2> QED BY <2>1, DaySetTyped
<1>5. t = Option(r.action, r.trigger) /\ s = DaySet(r.days)
  OBVIOUS
<1> HIDE DEF a, t, s
<1>6. f \in Forms
  BY <1>2, <1>3, <1>4 DEF Forms, Rules, Repaired
<1>7. /\ f.action = a /\ f.trigger = t /\ f.days = s /\ f.keep = r.keep /\ f.logic = r.logic
      /\ \A k \in {"name", "date", "time", "end", "idle", "warning", "policy", "wait"} : f[k] = r[k]
  OBVIOUS
<1> HIDE DEF f
<1>8. /\ Coerced(f) \in Forms
      /\ LogicFits(Coerced(f))
      /\ \A k \in {"name", "action", "trigger", "date", "time", "end", "days", "idle",
                   "warning", "policy", "wait"} : Coerced(f)[k] = f[k]
      /\ Coerced(f).keep = f.keep
      /\ f.trigger \notin {"exited", "started"} => Coerced(f).logic = f.logic
  BY <1>6, CoercedMeans
<1> QED BY <1>1, <1>2, <1>5, <1>7, <1>8

\* The days NormalizeRules leaves.
LEMMA NormalDaysMean ==
  ASSUME NEW r \in Rules
  PROVE  /\ NormalDays(r) \in Days
         /\ DaySet(r.days) # {} => DaySet(NormalDays(r)) = DaySet(r.days)
         /\ r.trigger # "window" => DaySet(NormalDays(r)) = DaySet(r.days)
         /\ NormalDays(r).list = <<>> <=> DaySet(NormalDays(r)) = {}
<1> DEFINE s == DaySet(r.days)
           all == {"mon", "sun"}
           one == InOrder(FileWeek, s)
           two == InOrder(FileWeek, all)
<1>1. s \in SUBSET {"mon", "sun"}
  <2>1. r.days \in Days
    BY DEF Rules
  <2> QED BY <2>1, DaySetTyped
<1>2. FileWeek \in {EditorWeek, FileWeek} /\ all \in SUBSET {"mon", "sun"} /\ all # {}
  OBVIOUS
<1>3. NormalDays(r) = IF r.trigger = "window" /\ one.list = <<>> THEN two ELSE one
  BY DEF NormalDays
<1>4. s = DaySet(r.days)
  OBVIOUS
<1> HIDE DEF s, all
<1>5. one \in Days /\ DaySet(one) = s /\ (one.list = <<>> <=> s = {})
  BY <1>1, <1>2, InOrderMeans
<1>6. two \in Days /\ DaySet(two) = all /\ (two.list = <<>> <=> all = {})
  BY <1>2, InOrderMeans
<1> HIDE DEF one, two
<1> QED BY <1>2, <1>3, <1>4, <1>5, <1>6

\* What NormalizeRules leaves.
LEMMA NormalizedMeans ==
  ASSUME NEW r \in Rules
  PROVE  /\ Normalized(r) \in Rules /\ Repaired(Normalized(r))
         /\ \A k \in {"action", "trigger", "date", "time", "end", "procs"} : Normalized(r)[k] = r[k]
         /\ Normalized(r).keep = r.keep
         /\ Normalized(r).days = NormalDays(r)
         /\ Normalized(r).logic = IF r.logic \in Logics THEN r.logic ELSE "any"
         /\ Normalized(r).policy = IF r.policy \in Policies THEN r.policy ELSE "skip"
         /\ Normalized(r).idle = "ok"
         /\ Normalized(r).warning =
               IF IsEvent(r.action) THEN "ok" ELSE IF r.warning = "out" THEN "zero" ELSE r.warning
         /\ Normalized(r).wait = IF r.wait = "out" THEN "zero" ELSE r.wait
<1> DEFINE name == IF r.name = "" THEN "made" ELSE r.name
           logic == IF r.logic \in Logics THEN r.logic ELSE "any"
           policy == IF r.policy \in Policies THEN r.policy ELSE "skip"
           warning == IF IsEvent(r.action) THEN "ok" ELSE IF r.warning = "out" THEN "zero" ELSE r.warning
           wait == IF r.wait = "out" THEN "zero" ELSE r.wait
           days == NormalDays(r)
           n == [r EXCEPT !.name = name, !.logic = logic, !.policy = policy, !.idle = "ok",
                          !.warning = warning, !.wait = wait, !.days = days]
<1>1. Normalized(r) = n
  BY DEF Normalized
<1>2. name \in {"", "own", "made"} /\ logic \in Logics /\ policy \in Policies
      /\ warning \in Numbers /\ wait \in Numbers
  BY DEF Rules, Numbers, Logics, Policies
<1>3. days \in Days
  BY NormalDaysMean
<1>4. /\ logic = IF r.logic \in Logics THEN r.logic ELSE "any"
      /\ policy = IF r.policy \in Policies THEN r.policy ELSE "skip"
      /\ warning = IF IsEvent(r.action) THEN "ok" ELSE IF r.warning = "out" THEN "zero" ELSE r.warning
      /\ wait = IF r.wait = "out" THEN "zero" ELSE r.wait
      /\ days = NormalDays(r)
  OBVIOUS
<1> HIDE DEF name, logic, policy, warning, wait, days
<1>5. n \in Rules
  <2> DEFINE l == Logics \cup {""}
             q == Policies \cup {""}
             one == [r EXCEPT !.name = name, !.logic = logic, !.policy = policy]
             two == [one EXCEPT !.idle = "ok", !.warning = warning]
  <2>1. logic \in l /\ policy \in q /\ "ok" \in Numbers
    BY <1>2 DEF Numbers
  <2>2. one \in Rules
    BY <1>2, <2>1 DEF Rules
  <2> HIDE DEF one
  <2>3. two \in Rules
    BY <1>2, <2>1, <2>2 DEF Rules
  <2> HIDE DEF two
  <2>4. [two EXCEPT !.wait = wait, !.days = days] \in Rules
    BY <1>2, <1>3, <2>3 DEF Rules
  <2>5. n = [two EXCEPT !.wait = wait, !.days = days]
    BY DEF one, two
  <2> QED BY <2>4, <2>5
<1>6. /\ n.logic = logic /\ n.policy = policy /\ n.idle = "ok" /\ n.warning = warning
      /\ n.wait = wait /\ n.days = days
      /\ \A k \in {"action", "trigger", "date", "time", "end", "procs"} : n[k] = r[k]
  BY DEF Rules
<1>7. n.keep = r.keep
  BY DEF Rules
<1> HIDE DEF n
<1> QED BY <1>1, <1>2, <1>4, <1>5, <1>6, <1>7 DEF Repaired

\* What syncDraft reads back.
LEMMA DraftMeans ==
  ASSUME form \in Forms, procs \in {0, 1}
  PROVE  /\ Draft \in Rules /\ Repaired(Draft)
         /\ \A k \in {"name", "action", "trigger", "date", "time", "end", "logic", "idle",
                      "warning", "policy", "wait"} : Draft[k] = form[k]
         /\ Draft.keep = form.keep /\ Draft.procs = procs
         /\ DaySet(Draft.days) = form.days
         /\ Draft.days.list = <<>> <=> form.days = {}
<1> DEFINE s == form.days
           some == InOrder(EditorWeek, s)
           days == IF s = {} THEN NoDays ELSE some
           d == [name |-> form.name, action |-> form.action, trigger |-> form.trigger, date |-> form.date,
                 time |-> form.time, end |-> form.end, days |-> days,
                 logic |-> form.logic, procs |-> procs, keep |-> form.keep, idle |-> form.idle,
                 warning |-> form.warning, policy |-> form.policy, wait |-> form.wait]
<1>1. Draft = d
  BY DEF Draft
<1>2. s \in SUBSET {"mon", "sun"}
  BY DEF Forms
<1>3. NoDays \in Days /\ NoDays.list = <<>> /\ DaySet(NoDays) = {}
  BY DEF NoDays, Days, DaySet
<1>4. EditorWeek \in {EditorWeek, FileWeek} /\ s = form.days
  OBVIOUS
<1>5. days = IF s = {} THEN NoDays ELSE some
  OBVIOUS
<1> HIDE DEF s, days
<1>6. some \in Days /\ DaySet(some) = s /\ (some.list = <<>> <=> s = {})
  BY <1>2, <1>4, InOrderMeans
<1> HIDE DEF some
<1>7. days \in Days /\ DaySet(days) = s /\ (days.list = <<>> <=> s = {})
  BY <1>3, <1>5, <1>6
<1>8. d \in Rules
  BY <1>7, ZenonT(40) DEF Rules, Forms, Logics, Policies, Triggers, Actions
<1>9. /\ d.keep = form.keep /\ d.procs = procs /\ d.days = days
      /\ \A k \in {"name", "action", "trigger", "date", "time", "end", "logic", "idle",
                   "warning", "policy", "wait"} : d[k] = form[k]
  OBVIOUS
<1>10. form.logic \in Logics /\ form.policy \in Policies
  BY DEF Forms
<1> HIDE DEF d
<1> QED BY <1>1, <1>4, <1>7, <1>8, <1>9, <1>10 DEF Repaired

\* The controls that are shown depend on what is chosen, not on what is typed.
LEMMA SameFields ==
  ASSUME NEW f, NEW g, NEW n,
         f.action = g.action, f.trigger = g.trigger, f.policy = g.policy
  PROVE  Fields(f, n) = Fields(g, n)
BY DEF Fields

\* The controls of a form are controls of the editor.
LEMMA FieldsTyped ==
  ASSUME NEW f, NEW n
  PROVE  Fields(f, n) \subseteq Always \cup TextFields \cup ChoiceFields \cup {"days", "keep", "info"}
<1>1. \A x \in Fields(f, n) : x \in Always \cup TextFields \cup ChoiceFields \cup {"days", "keep", "info"}
  BY DEF Fields, Always, TextFields, ChoiceFields
<1> QED BY <1>1

\* What validateDraft blames is shown.
LEMMA BlamedIsShown ==
  ASSUME form \in Forms, procs \in {0, 1}, FirstFault(Draft) # "none"
  PROVE  /\ FirstFault(Draft) \in Fields(form, procs)
         /\ FirstFault(Draft) \in {"none", "issue", "save", "choose", "days"} \cup TextFields
<1> DEFINE d == Draft
<1>1. /\ d.action = form.action /\ d.trigger = form.trigger /\ d.policy = form.policy /\ d.procs = procs
  BY DraftMeans
<1>2. FirstFault(d) # "none"
  OBVIOUS
<1> HIDE DEF d
<1>3. PICK i \in 1 .. 8 : FirstFault(d) = Faults(d)[i]
  BY <1>2, FaultIsFound
<1> DEFINE x == Faults(d)[i]
<1>4. x # "none"
  BY <1>2, <1>3
<1>5. x \in Fields(form, procs) /\ x \in {"choose", "days"} \cup TextFields
  <2>1. CASE i = 1
    BY <2>1, <1>4 DEF Faults, Fields, Always
  <2>2. CASE i = 2
    BY <2>2, <1>1, <1>4 DEF Faults, Fields, TextFields
  <2>3. CASE i = 3
    BY <2>3, <1>1, <1>4 DEF Faults, Fields, TextFields
  <2>4. CASE i = 4
    BY <2>4, <1>1, <1>4 DEF Faults, Fields, TextFields
  <2>5. CASE i = 5
    BY <2>5, <1>1, <1>4 DEF Faults, Fields
  <2>6. CASE i = 6
    BY <2>6, <1>1, <1>4 DEF Faults, Fields, TextFields
  <2>7. CASE i = 7
    BY <2>7, <1>1, <1>4 DEF Faults, Fields, TextFields
  <2>8. CASE i = 8
    BY <2>8, <1>1, <1>4 DEF Faults, Fields, TextFields, Waits
  <2> QED BY <2>1, <2>2, <2>3, <2>4, <2>5, <2>6, <2>7, <2>8
<1> QED BY <1>3, <1>5 DEF d

------------------------------------------------------------------------------
(* An untouched rule *)

\* Two rules that agree in what is read of them mean the same.
LEMMA SameMeaning ==
  ASSUME NEW a, NEW b,
         a.action = b.action, a.trigger = b.trigger, a.procs = b.procs,
         a.procs > 0 /\ a.trigger \notin {"started", "exited"} => a.logic = b.logic,
         a.trigger \in {"weekly", "window"} => DaySet(a.days) = DaySet(b.days),
         a.date = b.date, a.time = b.time, a.end = b.end, a.idle = b.idle,
         IsEvent(a.action) => a.warning = b.warning,
         a.keep = b.keep, a.policy = b.policy, Waits(a) => a.wait = b.wait
  PROVE  Meaning(a) = Meaning(b)
<1>1. Waits(a) <=> Waits(b)
  BY DEF Waits
<1>2. (IF a.procs > 0 /\ a.trigger \notin {"started", "exited"} THEN a.logic ELSE "any")
      = (IF b.procs > 0 /\ b.trigger \notin {"started", "exited"} THEN b.logic ELSE "any")
  OBVIOUS
<1>3. (IF a.trigger \in {"weekly", "window"} THEN DaySet(a.days) ELSE {})
      = (IF b.trigger \in {"weekly", "window"} THEN DaySet(b.days) ELSE {})
  OBVIOUS
<1>4. (a.action = "stay_awake" /\ a.keep) = (b.action = "stay_awake" /\ b.keep)
  OBVIOUS
<1>5. (IF Waits(a) THEN a.wait ELSE "zero") = (IF Waits(b) THEN b.wait ELSE "zero")
  BY <1>1
<1>6. /\ (IF a.trigger = "once" THEN a.date ELSE "ok") = (IF b.trigger = "once" THEN b.date ELSE "ok")
      /\ (IF a.trigger \in TimeTriggers THEN a.time ELSE "ok")
         = (IF b.trigger \in TimeTriggers THEN b.time ELSE "ok")
      /\ (IF a.trigger = "window" THEN a.end ELSE "ok") = (IF b.trigger = "window" THEN b.end ELSE "ok")
      /\ (IF a.action = "enable_idle" THEN a.idle ELSE "ok")
         = (IF b.action = "enable_idle" THEN b.idle ELSE "ok")
  OBVIOUS
<1>7. (IF IsEvent(a.action) THEN a.warning ELSE "ok") = (IF IsEvent(b.action) THEN b.warning ELSE "ok")
  OBVIOUS
<1> QED BY <1>2, <1>3, <1>4, <1>5, <1>6, <1>7 DEF Meaning

\* A rule that PrepareRules accepts goes through the form unchanged: the editor
\* accepts what it reads back, and that means the same.
LEMMA UntouchedMeans ==
  ASSUME NEW x \in Rules, Prepared(x), rule = Normalized(x),
         form = Filled(rule), procs = rule.procs
  PROVE  FirstFault(Draft) = "none" /\ Prepared(Draft)
         /\ Meaning(Normalized(Draft)) = Meaning(rule)
<1> DEFINE d == Draft
           n == Normalized(d)
<1>1. /\ x.action \in Actions /\ x.trigger \in Triggers
      /\ x.wait # "out" /\ (Waits(x) => x.wait # "zero")
      /\ ActionTriggerFits(rule)
  BY DEF Prepared
<1>2. /\ rule \in Rules /\ Repaired(rule)
      /\ rule.action = x.action /\ rule.trigger = x.trigger /\ rule.procs = x.procs
      /\ rule.days = NormalDays(x)
      /\ rule.policy = IF x.policy \in Policies THEN x.policy ELSE "skip"
      /\ rule.idle = "ok"
      /\ rule.warning =
            IF IsEvent(x.action) THEN "ok" ELSE IF x.warning = "out" THEN "zero" ELSE x.warning
      /\ rule.wait = IF x.wait = "out" THEN "zero" ELSE x.wait
  BY NormalizedMeans
<1>3. rule.trigger \in TriggerOptions(rule.action)
  BY <1>1 DEF ActionTriggerFits
<1>4. Option(rule.action, rule.trigger) = rule.trigger
  BY <1>3, OptionFits
<1>5. /\ form \in Forms /\ form.trigger = rule.trigger /\ form.action = rule.action
      /\ form.days = DaySet(rule.days) /\ form.keep = rule.keep
      /\ form.date = rule.date /\ form.time = rule.time /\ form.end = rule.end
      /\ form.idle = rule.idle /\ form.warning = rule.warning
      /\ form.policy = rule.policy /\ form.wait = rule.wait
      /\ form.trigger \notin {"exited", "started"} => form.logic = rule.logic
  BY <1>1, <1>2, <1>4, FilledMeans
<1>6. procs \in {0, 1}
  BY <1>2 DEF Rules
<1>7. /\ d \in Rules /\ Repaired(d)
      /\ d.action = rule.action /\ d.trigger = rule.trigger /\ d.procs = rule.procs
      /\ d.date = rule.date /\ d.time = rule.time /\ d.end = rule.end
      /\ d.idle = rule.idle /\ d.warning = rule.warning /\ d.keep = rule.keep
      /\ d.policy = rule.policy /\ d.wait = rule.wait
      /\ d.trigger \notin {"exited", "started"} => d.logic = rule.logic
      /\ DaySet(d.days) = DaySet(rule.days)
      /\ d.days.list = <<>> <=> DaySet(rule.days) = {}
  BY <1>5, <1>6, DraftMeans
<1>8. rule.days.list = <<>> <=> DaySet(rule.days) = {}
  BY <1>2, NormalDaysMean
<1>9. d.trigger \in {"weekly", "window"} => d.days.list # <<>> /\ DaySet(d.days) # {}
  BY <1>1, <1>7, <1>8 DEF ActionTriggerFits
<1> HIDE DEF d
<1>10. /\ n \in Rules /\ Repaired(n)
       /\ n.action = d.action /\ n.trigger = d.trigger /\ n.procs = d.procs
       /\ n.date = d.date /\ n.time = d.time /\ n.end = d.end /\ n.keep = d.keep
       /\ n.days = NormalDays(d)
       /\ n.logic = IF d.logic \in Logics THEN d.logic ELSE "any"
       /\ n.policy = IF d.policy \in Policies THEN d.policy ELSE "skip"
       /\ n.wait = IF d.wait = "out" THEN "zero" ELSE d.wait
       /\ n.idle = "ok"
       /\ n.warning =
            IF IsEvent(d.action) THEN "ok" ELSE IF d.warning = "out" THEN "zero" ELSE d.warning
  BY <1>7, NormalizedMeans
<1>11. n.logic = d.logic /\ n.policy = d.policy
  BY <1>7, <1>10 DEF Repaired
<1>12. /\ NormalDays(d).list = <<>> <=> DaySet(NormalDays(d)) = {}
       /\ DaySet(d.days) # {} => DaySet(NormalDays(d)) = DaySet(d.days)
  BY <1>7, NormalDaysMean
<1>13. Waits(d) => Waits(x)
  BY <1>2, <1>7 DEF Waits
<1>14. x.wait \in {"zero", "ok", "out"} /\ x.warning \in {"zero", "ok", "out"}
  BY DEF Rules, Numbers
<1>15. Waits(d) => d.wait = "ok"
  BY <1>1, <1>2, <1>7, <1>13, <1>14
<1>16. /\ IsEvent(d.action) => d.warning = "ok"
       /\ d.warning # "out" /\ d.wait # "out" /\ d.idle = "ok"
  BY <1>1, <1>2, <1>7, <1>14
<1>17. /\ d.trigger \in ProcessTriggers => d.procs > 0
       /\ d.trigger = "once" => d.date = "ok"
       /\ d.trigger \in TimeTriggers => d.time = "ok"
       /\ d.trigger = "window" => d.end = "ok"
  BY <1>1, <1>7 DEF ActionTriggerFits
<1>18. FirstFault(d) = "none"
  <2>1. d.trigger \in ProcessTriggers => d.procs # 0
    BY <1>17
  <2>2. d.date # "bad" \/ d.trigger # "once"
    BY <1>17
  <2>3. d.time # "bad" \/ d.trigger \notin TimeTriggers
    BY <1>17
  <2>4. d.end # "bad" \/ d.trigger # "window"
    BY <1>17
  <2>5. \A i \in 1 .. 8 : Faults(d)[i] = "none"
    BY <1>9, <1>15, <1>16, <2>1, <2>2, <2>3, <2>4 DEF Faults
  <2> QED BY <2>5, NoFault
<1>19. Prepared(d)
  <2>1. ActionTriggerFits(n)
    <3>1. n.trigger \in TriggerOptions(n.action)
      BY <1>3, <1>7, <1>10
    <3>2. n.trigger \in {"weekly", "window"} => n.days.list # <<>>
      BY <1>9, <1>10, <1>12
    <3> QED BY <1>10, <1>17, <3>1, <3>2 DEF ActionTriggerFits
  <2>2. d.action \in Actions /\ d.trigger \in Triggers
    BY <1>1, <1>2, <1>7
  <2> QED BY <1>15, <1>16, <2>1, <2>2 DEF Prepared
<1>20. Meaning(n) = Meaning(rule)
  <2>1. n.trigger \in {"weekly", "window"} => DaySet(n.days) = DaySet(rule.days)
    BY <1>7, <1>9, <1>10, <1>12
  <2>2. n.wait = rule.wait
    BY <1>7, <1>10, <1>16
  <2>3. n.procs > 0 /\ n.trigger \notin {"started", "exited"} => n.logic = rule.logic
    BY <1>7, <1>10, <1>11
  <2>4. n.action = rule.action /\ n.trigger = rule.trigger /\ n.procs = rule.procs
        /\ n.keep = rule.keep /\ n.policy = rule.policy
    BY <1>7, <1>10, <1>11
  <2>5. /\ n.date = rule.date /\ n.time = rule.time /\ n.end = rule.end /\ n.idle = rule.idle
        /\ IsEvent(n.action) => n.warning = rule.warning
    BY <1>2, <1>7, <1>10
  <2> HIDE DEF n
  <2> QED BY <2>1, <2>2, <2>3, <2>4, <2>5, SameMeaning
<1> QED BY <1>18, <1>19, <1>20 DEF d

------------------------------------------------------------------------------
(* The invariant *)

\* The default rule is one the editor knows.
LEMMA DefaultIsKnown ==
  DefaultRule \in Rules /\ Repaired(DefaultRule) /\ DefaultRule.action \in Actions
  /\ DefaultRule.trigger \in TriggerOptions(DefaultRule.action)
<1> DEFINE days == InOrder(EditorWeek, {"mon"})
<1>1. EditorWeek \in {EditorWeek, FileWeek} /\ {"mon"} \in SUBSET {"mon", "sun"}
  OBVIOUS
<1>2. days \in Days
  BY <1>1, InOrderMeans
<1>3. DefaultRule = [name |-> "", action |-> "stay_awake", trigger |-> "running", date |-> "ok", time |-> "ok",
                     end |-> "ok", days |-> days, logic |-> "any", procs |-> 0,
                     keep |-> FALSE, idle |-> "ok", warning |-> "ok", policy |-> "skip", wait |-> "ok"]
  BY DEF DefaultRule
<1> HIDE DEF days
<1>4. DefaultRule \in Rules
  BY <1>2, <1>3 DEF Rules, Actions, StateActions, Triggers, ProcessTriggers, Parses, Logics,
                    Numbers, Policies
<1>5. /\ DefaultRule.logic = "any" /\ DefaultRule.policy = "skip"
      /\ DefaultRule.action = "stay_awake" /\ DefaultRule.trigger = "running"
  BY <1>3
<1> QED BY <1>4, <1>5 DEF Repaired, Logics, Policies, Actions, StateActions, TriggerOptions

\* What NormalizeRules made of a rule of the file is one the editor knows.
LEMMA FileRuleIsKnown ==
  ASSUME NEW r \in FileRules
  PROVE  /\ Normalized(r) \in Rules /\ Repaired(Normalized(r))
         /\ Prepared(r) => /\ Normalized(r).action \in Actions
                           /\ Normalized(r).trigger \in TriggerOptions(Normalized(r).action)
                           /\ \E x \in Rules : Prepared(x) /\ Normalized(r) = Normalized(x)
<1>1. r \in Rules
  BY FormAssumption
<1>2. Normalized(r) \in Rules /\ Repaired(Normalized(r)) /\ Normalized(r).action = r.action
  BY <1>1, NormalizedMeans
<1>3. ASSUME Prepared(r)
      PROVE  r.action \in Actions /\ Normalized(r).trigger \in TriggerOptions(Normalized(r).action)
  BY <1>3 DEF Prepared, ActionTriggerFits
<1> QED BY <1>1, <1>2, <1>3

\* An editor that opens with a rule it knows.
LEMMA OpenedForm ==
  ASSUME NEW r \in Rules, Repaired(r), NEW f, f = Filled(r), NEW n, n = r.procs,
         NEW o, o = TriggerOptions(r.action)
  PROVE  /\ f \in Forms /\ n \in {0, 1} /\ o \in {TriggerOptions(a) : a \in Actions}
         /\ LogicFits(f) /\ f.trigger \in o
         /\ r.action \in Actions => o = TriggerOptions(f.action)
<1>1. f \in Forms /\ LogicFits(f) /\ f.trigger = Option(r.action, r.trigger)
      /\ (r.action \in Actions => f.action = r.action)
  BY FilledMeans
<1>2. Option(r.action, r.trigger) \in TriggerOptions(r.action)
      /\ \E b \in Actions : TriggerOptions(r.action) = TriggerOptions(b)
  BY OptionFits
<1>3. n \in {0, 1}
  BY DEF Rules
<1> QED BY <1>1, <1>2, <1>3

\* The invariant of the form holds at first.
LEMMA InitFormInv == FormInit => FormInv
<1> SUFFICES ASSUME FormInit PROVE FormInv
  OBVIOUS
<1>1. rule \in Rules /\ isNew \in BOOLEAN /\ raw \in BOOLEAN /\ RuleIsKnown
  <2>1. CASE rule = DefaultRule /\ isNew = TRUE /\ raw = FALSE
    BY <2>1, DefaultIsKnown DEF RuleIsKnown
  <2>2. ASSUME isNew = FALSE, NEW r \in FileRules, rule = Normalized(r), raw = ~Prepared(r)
        PROVE  rule \in Rules /\ isNew \in BOOLEAN /\ raw \in BOOLEAN /\ RuleIsKnown
    BY <2>2, FileRuleIsKnown DEF RuleIsKnown
  <2> QED BY <2>1, <2>2 DEF FormInit
<1>2. form = Filled(rule) /\ procs = rule.procs /\ options = TriggerOptions(rule.action)
      /\ shown = Fields(form, procs) /\ error \in {"issue", "none"} /\ (error = "issue" => raw)
      /\ phase = "edit" /\ touched = FALSE
  BY DEF FormInit
<1>3. /\ form \in Forms /\ procs \in {0, 1} /\ options \in {TriggerOptions(a) : a \in Actions}
      /\ LogicFits(form) /\ form.trigger \in options
      /\ rule.action \in Actions => options = TriggerOptions(form.action)
  BY <1>1, <1>2, OpenedForm DEF RuleIsKnown
<1>4. raw \/ options = TriggerOptions(form.action)
  BY <1>1, <1>3 DEF RuleIsKnown
<1>5. shown \subseteq Always \cup TextFields \cup ChoiceFields \cup {"days", "keep", "info"}
  BY <1>2, FieldsTyped
<1>6. FormTypes
  BY <1>1, <1>2, <1>3, <1>5 DEF FormTypes
<1>7. BlameIsShown /\ FormIsTheRule
  BY <1>2 DEF BlameIsShown, FormIsTheRule, TextFields
<1> QED BY <1>1, <1>2, <1>3, <1>4, <1>6, <1>7 DEF FormInv

\* An edit clears the error, or shows what it showed and blames what it blamed.
BlameStays == error' = "none" \/ (error' = error /\ shown' = shown)

\* What an edit has to leave.
LEMMA EditKeepsInv ==
  ASSUME FormInv, Edit, form' \in Forms, procs' \in {0, 1},
         options' \in {TriggerOptions(a) : a \in Actions},
         shown' = Fields(form', procs'),
         BlameStays,
         LogicFits(form'), form'.trigger \in options',
         raw \/ options' = TriggerOptions(form'.action)
  PROVE  FormInv'
<1>1. UNCHANGED <<rule, isNew, raw, phase>> /\ touched' = TRUE
  BY DEF Edit
<1>2. shown' \subseteq Always \cup TextFields \cup ChoiceFields \cup {"days", "keep", "info"}
  BY FieldsTyped
<1>3. FormTypes'
  BY <1>1, <1>2 DEF FormInv, FormTypes, BlameStays
<1>4. RuleIsKnown'
  BY <1>1 DEF FormInv, RuleIsKnown
<1>5. BlameIsShown'
  BY DEF FormInv, BlameIsShown, TextFields, BlameStays
<1>6. FormIsTheRule'
  BY <1>1 DEF FormIsTheRule
<1> QED BY <1>1, <1>3, <1>4, <1>5, <1>6 DEF FormInv, LogicFits

\* Typing, pressing days and the keep screen box: what is chosen stays.
LEMMA SameChoices ==
  ASSUME FormInv, Edit, form' \in Forms, UNCHANGED <<procs, options, shown>>,
         error' = "none" \/ error' = error,
         form'.action = form.action, form'.trigger = form.trigger,
         form'.policy = form.policy, form'.logic = form.logic
  PROVE  FormInv'
<1>1. shown' = Fields(form', procs')
  <2>1. shown = Fields(form, procs) /\ shown' = shown /\ procs' = procs
    BY DEF FormInv
  <2> DEFINE f == form
             g == form'
  <2>2. f.action = g.action /\ f.trigger = g.trigger /\ f.policy = g.policy
    OBVIOUS
  <2> HIDE DEF f, g
  <2>3. Fields(f, procs) = Fields(g, procs)
    BY <2>2, SameFields
  <2> QED BY <2>1, <2>3 DEF f, g
<1>2. procs' \in {0, 1} /\ options' \in {TriggerOptions(a) : a \in Actions} /\ shown' = shown
  BY DEF FormInv, FormTypes
<1>3. LogicFits(form') /\ form'.trigger \in options'
  BY DEF FormInv, LogicFits
<1>4. raw \/ options' = TriggerOptions(form'.action)
  BY DEF FormInv
<1>5. BlameStays
  BY DEF BlameStays
<1> QED BY <1>1, <1>2, <1>3, <1>4, <1>5, EditKeepsInv

\* Typing into a field.
LEMMA TypeFieldStep ==
  ASSUME FormInv, NEW field \in TextFields, NEW text \in Typed(field), TypeField(field, text)
  PROVE  FormInv'
<1>1. Edit /\ UNCHANGED <<procs, options, shown>> /\ error' = "none"
      /\ form' = [form EXCEPT ![field] = text]
  BY DEF TypeField
<1>2. form \in Forms
  BY DEF FormInv, FormTypes
<1>3. form' \in Forms
  <2>1. CASE field = "name"
    BY <1>1, <1>2, <2>1 DEF Forms, Typed
  <2>2. CASE field = "date"
    BY <1>1, <1>2, <2>2 DEF Forms, Typed
  <2>3. CASE field = "time"
    BY <1>1, <1>2, <2>3 DEF Forms, Typed
  <2>4. CASE field = "end"
    BY <1>1, <1>2, <2>4 DEF Forms, Typed
  <2>5. CASE field = "idle"
    BY <1>1, <1>2, <2>5 DEF Forms, Typed
  <2>6. CASE field = "warning"
    BY <1>1, <1>2, <2>6 DEF Forms, Typed
  <2>7. CASE field = "wait"
    BY <1>1, <1>2, <2>7 DEF Forms, Typed
  <2> QED BY <2>1, <2>2, <2>3, <2>4, <2>5, <2>6, <2>7 DEF TextFields
<1>4. /\ form'.action = form.action /\ form'.trigger = form.trigger
      /\ form'.policy = form.policy /\ form'.logic = form.logic
  BY <1>1, <1>2 DEF Forms, TextFields
<1> QED BY <1>1, <1>3, <1>4, SameChoices

\* Pressing a day, or one of the two buttons that choose days.
LEMMA DaysStep ==
  ASSUME FormInv, (\E day \in {"mon", "sun"} : PressDay(day)) \/ (\E every \in BOOLEAN : QuickDays(every))
  PROVE  FormInv'
<1>1. Edit /\ UNCHANGED <<procs, options, shown>> /\ error' = "none"
  BY DEF PressDay, QuickDays
<1>2. form \in Forms
  BY DEF FormInv, FormTypes
<1>3. \E s \in SUBSET {"mon", "sun"} : form' = [form EXCEPT !.days = s]
  <2>1. ASSUME NEW day \in {"mon", "sun"}, PressDay(day)
        PROVE  \E s \in SUBSET {"mon", "sun"} : form' = [form EXCEPT !.days = s]
    <3> DEFINE s == IF day \in form.days THEN form.days \ {day} ELSE form.days \cup {day}
    <3>1. s \in SUBSET {"mon", "sun"}
      BY <1>2 DEF Forms
    <3>2. form' = [form EXCEPT !.days = s]
      BY <2>1 DEF PressDay
    <3> QED BY <3>1, <3>2
  <2>2. ASSUME NEW every \in BOOLEAN, QuickDays(every)
        PROVE  \E s \in SUBSET {"mon", "sun"} : form' = [form EXCEPT !.days = s]
    BY <2>2 DEF QuickDays
  <2> QED BY <2>1, <2>2
<1>4. /\ form' \in Forms /\ form'.action = form.action /\ form'.trigger = form.trigger
      /\ form'.policy = form.policy /\ form'.logic = form.logic
  BY <1>2, <1>3 DEF Forms
<1> QED BY <1>1, <1>4, SameChoices

\* Pressing the box that keeps the screen on.
LEMMA PressKeepScreenStep ==
  ASSUME FormInv, PressKeepScreen
  PROVE  FormInv'
<1>1. Edit /\ UNCHANGED <<procs, options, shown>> /\ error' = error
      /\ form' = [form EXCEPT !.keep = ~form.keep]
  BY DEF PressKeepScreen
<1>2. form \in Forms
  BY DEF FormInv, FormTypes
<1>3. /\ form' \in Forms /\ form'.action = form.action /\ form'.trigger = form.trigger
      /\ form'.policy = form.policy /\ form'.logic = form.logic
  BY <1>1, <1>2 DEF Forms
<1> QED BY <1>1, <1>3, SameChoices

\* A choice leaves a form whose trigger is one of the options.
LEMMA AfterChoiceFits ==
  ASSUME FormInv, NEW field \in ChoiceFields, NEW value \in OfferedValues(field),
         NEW f, f = AfterChoice(field, value),
         NEW o, o = IF field = "action" THEN TriggerOptions(value) ELSE options
  PROVE  /\ f \in Forms /\ LogicFits(f) /\ f.trigger \in o
         /\ o \in {TriggerOptions(a) : a \in Actions}
         /\ raw \/ o = TriggerOptions(f.action)
<1>1. /\ form \in Forms /\ options \in {TriggerOptions(a) : a \in Actions}
      /\ form.trigger \in options /\ (raw \/ options = TriggerOptions(form.action))
  BY DEF FormInv, FormTypes
<1>2. options \subseteq Triggers
  BY <1>1, OptionFits
<1> DEFINE chosen == [form EXCEPT ![field] = value]
           fitted == IF field = "action" THEN [chosen EXCEPT !.trigger = Option(value, chosen.trigger)]
                                         ELSE chosen
<1>3. f = Coerced(fitted)
  BY DEF AfterChoice
<1>4. /\ fitted \in Forms /\ fitted.trigger \in o
      /\ o \in {TriggerOptions(a) : a \in Actions}
      /\ raw \/ o = TriggerOptions(fitted.action)
  <2>1. CASE field = "action"
    <3>1. value \in Actions
      BY <2>1 DEF OfferedValues
    <3> DEFINE t == Option(value, chosen.trigger)
    <3>2. t \in TriggerOptions(value) /\ t \in Triggers
      BY OptionFits
    <3>3. fitted = [chosen EXCEPT !.trigger = t]
      BY <2>1
    <3> HIDE DEF t
    <3>4. fitted \in Forms /\ fitted.trigger = t /\ fitted.action = value
      BY <1>1, <2>1, <3>1, <3>2, <3>3 DEF Forms
    <3> QED BY <2>1, <3>1, <3>2, <3>4
  <2>2. CASE field = "trigger"
    <3>1. value \in options
      BY <2>2 DEF OfferedValues
    <3>2. fitted \in Forms /\ fitted.trigger = value /\ fitted.action = form.action
      BY <1>1, <1>2, <2>2, <3>1 DEF Forms
    <3> QED BY <1>1, <2>2, <3>1, <3>2
  <2>3. CASE field = "logic"
    <3>1. value \in Logics
      BY <2>3 DEF OfferedValues
    <3>2. fitted \in Forms /\ fitted.trigger = form.trigger /\ fitted.action = form.action
      BY <1>1, <2>3, <3>1 DEF Forms
    <3> QED BY <1>1, <2>3, <3>2
  <2>4. CASE field = "policy"
    <3>1. value \in Policies
      BY <2>4 DEF OfferedValues
    <3>2. fitted \in Forms /\ fitted.trigger = form.trigger /\ fitted.action = form.action
      BY <1>1, <2>4, <3>1 DEF Forms
    <3> QED BY <1>1, <2>4, <3>2
  <2> QED BY <2>1, <2>2, <2>3, <2>4 DEF ChoiceFields
<1> HIDE DEF fitted
<1>5. /\ Coerced(fitted) \in Forms /\ LogicFits(Coerced(fitted))
      /\ Coerced(fitted).trigger = fitted.trigger /\ Coerced(fitted).action = fitted.action
  BY <1>4, CoercedMeans
<1> QED BY <1>3, <1>4, <1>5

\* Choosing an action, a trigger, a logic or a policy.
LEMMA ChooseStep ==
  ASSUME FormInv, NEW field \in ChoiceFields, NEW value \in OfferedValues(field), Choose(field, value)
  PROVE  FormInv'
<1>1. /\ form' \in Forms /\ LogicFits(form') /\ form'.trigger \in options'
      /\ options' \in {TriggerOptions(a) : a \in Actions}
      /\ raw \/ options' = TriggerOptions(form'.action)
  <2>1. /\ form' = AfterChoice(field, value)
        /\ options' = IF field = "action" THEN TriggerOptions(value) ELSE options
    BY DEF Choose
  <2> QED BY <2>1, AfterChoiceFits
<1>2. procs' \in {0, 1}
  BY DEF FormInv, FormTypes, Choose
<1>3. Edit /\ BlameStays
  BY DEF Choose, BlameStays
<1>4. shown' = Fields(form', procs')
  BY DEF Choose
<1> QED BY <1>1, <1>2, <1>3, <1>4, EditKeepsInv

\* What the process picker confirms.
LEMMA PickProcessesStep ==
  ASSUME FormInv, NEW n \in {0, 1}, PickProcesses(n)
  PROVE  FormInv'
<1>1. /\ form' \in Forms /\ options' \in {TriggerOptions(a) : a \in Actions}
      /\ LogicFits(form') /\ form'.trigger \in options'
      /\ raw \/ options' = TriggerOptions(form'.action)
  BY DEF FormInv, FormTypes, LogicFits, PickProcesses
<1>2. procs' \in {0, 1}
  BY DEF PickProcesses
<1>3. Edit /\ BlameStays
  BY DEF PickProcesses, BlameStays
<1>4. shown' = Fields(form', procs')
  BY DEF PickProcesses
<1> QED BY <1>1, <1>2, <1>3, <1>4, EditKeepsInv

\* Saving is refused with a control to blame, or leaves a rule the editor knows.
LEMMA SaveStep ==
  ASSUME FormInv, Save
  PROVE  FormInv'
<1>1. UNCHANGED <<form, procs, options, shown, touched, edits>> /\ phase = "edit"
  BY DEF Save
<1>2. FormTypes /\ form \in Forms /\ procs \in {0, 1} /\ shown = Fields(form, procs)
      /\ form.trigger \in options /\ options \in {TriggerOptions(a) : a \in Actions}
  BY DEF FormInv, FormTypes
<1>3. ASSUME error' \in {"none", "issue", "save", "choose", "days"} \cup TextFields,
             BlameIsShown', UNCHANGED <<rule, raw, isNew, phase>>
      PROVE  FormInv'
  <2>1. FormTypes'
    BY <1>1, <1>2, <1>3 DEF FormTypes
  <2>2. RuleIsKnown' /\ FormIsTheRule'
    BY <1>1, <1>3 DEF FormInv, RuleIsKnown, FormIsTheRule
  <2> QED BY <1>1, <1>3, <2>1, <2>2 DEF FormInv, LogicFits
<1>4. CASE FirstFault(Draft) # "none"
  <2>1. error' = FirstFault(Draft) /\ UNCHANGED <<rule, raw, isNew, phase>>
    BY <1>4 DEF Save
  <2>2. /\ FirstFault(Draft) \in Fields(form, procs)
        /\ FirstFault(Draft) \in {"none", "issue", "save", "choose", "days"} \cup TextFields
    BY <1>2, <1>4, BlamedIsShown
  <2>3. BlameIsShown'
    BY <1>1, <1>2, <2>1, <2>2 DEF BlameIsShown
  <2> QED BY <1>3, <2>1, <2>2, <2>3
<1>5. CASE FirstFault(Draft) = "none" /\ ~Prepared(Draft)
  <2>1. error' = "save" /\ UNCHANGED <<rule, raw, isNew, phase>>
    BY <1>5 DEF Save
  <2>2. BlameIsShown'
    BY <2>1 DEF BlameIsShown, TextFields
  <2> QED BY <1>3, <2>1, <2>2
<1>6. CASE FirstFault(Draft) = "none" /\ Prepared(Draft)
  <2>1. rule' = Normalized(Draft) /\ raw' = FALSE /\ isNew' = FALSE /\ phase' = "left" /\ error' = "none"
    BY <1>6 DEF Save
  <2> DEFINE d == Draft
             n == Normalized(d)
  <2>2. d \in Rules /\ d.action = form.action /\ d.trigger = form.trigger
    BY <1>2, DraftMeans
  <2>3. Prepared(d) /\ rule' = n
    BY <1>6, <2>1
  <2> HIDE DEF d
  <2>4. n \in Rules /\ Repaired(n) /\ n.action = d.action /\ n.trigger = d.trigger
    BY <2>2, NormalizedMeans
  <2>5. n.trigger \in TriggerOptions(n.action) /\ d.action \in Actions
    BY <2>3 DEF Prepared, ActionTriggerFits
  <2>6. RuleIsKnown'
    <3>1. \E x \in Rules : Prepared(x) /\ rule' = Normalized(x)
      BY <2>2, <2>3
    <3>2. Repaired(rule') /\ rule'.action \in Actions /\ rule'.trigger \in TriggerOptions(rule'.action)
      BY <2>3, <2>4, <2>5
    <3> QED BY <3>1, <3>2 DEF RuleIsKnown, Repaired
  <2>7. options' = TriggerOptions(form'.action)
    <3>1. form.trigger \in TriggerOptions(form.action)
      BY <2>2, <2>4, <2>5
    <3>2. PICK a \in Actions : options = TriggerOptions(a)
      BY <1>2
    <3>3. options = TriggerOptions(form.action)
      BY <1>2, <3>1, <3>2, SharedOption
    <3> QED BY <1>1, <3>3
  <2>8. FormTypes'
    BY <1>1, <1>2, <2>1, <2>3, <2>4 DEF FormTypes
  <2>9. BlameIsShown' /\ FormIsTheRule'
    BY <2>1 DEF BlameIsShown, TextFields, FormIsTheRule
  <2> QED BY <1>1, <2>6, <2>7, <2>8, <2>9 DEF FormInv, LogicFits
<1> QED BY <1>4, <1>5, <1>6

\* Cancelling and the answer to its question.
LEMMA LeaveFormStep ==
  ASSUME FormInv, Cancel \/ \E discard \in BOOLEAN : Answer(discard)
  PROVE  FormInv'
<1>1. UNCHANGED <<rule, isNew, raw, form, procs, options, shown, error, touched, edits>>
      /\ phase \in {"edit", "asking"} /\ phase' \in {"edit", "asking", "left"}
  BY DEF Cancel, Answer
<1>2. FormTypes'
  BY <1>1 DEF FormInv, FormTypes
<1>3. RuleIsKnown' /\ BlameIsShown' /\ FormIsTheRule'
  BY <1>1 DEF FormInv, RuleIsKnown, BlameIsShown, FormIsTheRule
<1> QED BY <1>1, <1>2, <1>3 DEF FormInv, LogicFits

\* The editor opens again with the rule it left.
LEMMA ReopenFormStep ==
  ASSUME FormInv, Reopen
  PROVE  FormInv'
<1>1. /\ UNCHANGED <<rule, isNew, raw>>
      /\ form' = Filled(rule) /\ procs' = rule.procs /\ options' = TriggerOptions(rule.action)
      /\ shown' = Fields(Filled(rule), rule.procs)
      /\ error' \in {"issue", "none"} /\ phase' = "edit" /\ touched' = FALSE
  BY DEF Reopen, Opened
<1>2. rule \in Rules /\ isNew \in BOOLEAN /\ raw \in BOOLEAN /\ RuleIsKnown
  BY DEF FormInv, FormTypes
<1>3. /\ form' \in Forms /\ procs' \in {0, 1} /\ options' \in {TriggerOptions(a) : a \in Actions}
      /\ LogicFits(form') /\ form'.trigger \in options'
      /\ rule.action \in Actions => options' = TriggerOptions(form'.action)
  BY <1>1, <1>2, OpenedForm DEF RuleIsKnown
<1>4. raw \/ options' = TriggerOptions(form'.action)
  BY <1>2, <1>3 DEF RuleIsKnown
<1>5. shown' = Fields(form', procs')
  BY <1>1
<1>6. shown' \subseteq Always \cup TextFields \cup ChoiceFields \cup {"days", "keep", "info"}
  BY <1>1, FieldsTyped
<1>7. FormTypes'
  BY <1>1, <1>2, <1>3, <1>6 DEF FormTypes
<1>8. RuleIsKnown'
  BY <1>1, <1>2 DEF RuleIsKnown
<1>9. BlameIsShown' /\ FormIsTheRule'
  BY <1>1 DEF BlameIsShown, FormIsTheRule, TextFields
<1>10. LogicFits(form)' /\ (form.trigger \in options)' /\ (shown = Fields(form, procs))'
       /\ (raw \/ options = TriggerOptions(form.action))'
  BY <1>1, <1>3, <1>4, <1>5 DEF LogicFits
<1> QED BY <1>7, <1>8, <1>9, <1>10 DEF FormInv

\* Every step keeps the invariant of the form.
LEMMA NextFormInv == FormInv /\ [FormNext]_formVars => FormInv'
<1> SUFFICES ASSUME FormInv, [FormNext]_formVars PROVE FormInv'
  OBVIOUS
<1>1. ASSUME NEW field \in TextFields, NEW text \in Typed(field), TypeField(field, text) PROVE FormInv'
  BY <1>1, TypeFieldStep
<1>2. CASE (\E day \in {"mon", "sun"} : PressDay(day)) \/ (\E every \in BOOLEAN : QuickDays(every))
  BY <1>2, DaysStep
<1>3. CASE PressKeepScreen
  BY <1>3, PressKeepScreenStep
<1>4. ASSUME NEW field \in ChoiceFields, NEW value \in OfferedValues(field), Choose(field, value)
      PROVE  FormInv'
  BY <1>4, ChooseStep
<1>5. ASSUME NEW n \in {0, 1}, PickProcesses(n) PROVE FormInv'
  BY <1>5, PickProcessesStep
<1>6. CASE Save
  BY <1>6, SaveStep
<1>7. CASE Cancel \/ \E discard \in BOOLEAN : Answer(discard)
  BY <1>7, LeaveFormStep
<1>8. CASE Reopen
  BY <1>8, ReopenFormStep
<1>9. CASE UNCHANGED formVars
  <2>1. UNCHANGED <<rule, isNew, raw, form, procs, options, shown, error, phase, touched, edits>>
    BY <1>9 DEF formVars
  <2>2. FormTypes' /\ RuleIsKnown' /\ BlameIsShown' /\ FormIsTheRule'
    BY <2>1 DEF FormInv, FormTypes, RuleIsKnown, BlameIsShown, FormIsTheRule
  <2> QED BY <2>1, <2>2 DEF FormInv, LogicFits
<1> QED BY <1>1, <1>2, <1>3, <1>4, <1>5, <1>6, <1>7, <1>8, <1>9 DEF FormNext

\* The invariant of the form holds in every reachable state.
THEOREM FormInvariance == FormSpec => []FormInv
<1>1. FormInit => FormInv
  BY InitFormInv
<1>2. FormInv /\ [FormNext]_formVars => FormInv'
  BY NextFormInv
<1> QED BY <1>1, <1>2, PTL DEF FormSpec

\* Whatever is chosen, typed, picked, saved or reopened in whatever order, the
\* editor shows the fields of its action and trigger, the trigger is one the
\* action can have, and what is blamed is visible (handleChoiceChanged,
\* layoutEditorContent, validateDraft).
THEOREM FormAlwaysFollowsChoices == FormSpec => []FormFollowsChoices
<1>1. FormInv => FormFollowsChoices
  <2> SUFFICES ASSUME FormInv PROVE FormFollowsChoices
    OBVIOUS
  <2>1. FormTypes /\ form \in Forms /\ LogicFits(form)
    BY DEF FormInv, FormTypes
  <2>2. Coerced(form) = form
    BY <2>1, CoercedMeans
  <2>3. ErrorIsShown
    BY DEF FormInv, BlameIsShown, ErrorIsShown
  <2> QED BY <2>1, <2>2, <2>3 DEF FormInv, FormFollowsChoices
<1> QED BY <1>1, FormInvariance, PTL

\* A rule of the file that PrepareRules accepts is one the editor accepts, and
\* saving it untouched, as often as one likes, does not change what the runner
\* makes of it (showEditorDraft, syncDraft, NormalizeRules).
THEOREM UntouchedAlwaysKeepsMeaning == FormSpec => []UntouchedKeepsMeaning
<1>1. FormInv => UntouchedKeepsMeaning
  <2> SUFFICES ASSUME FormInv, phase = "edit", ~touched, ~isNew, ~raw
               PROVE  /\ FirstFault(Draft) = "none" /\ Prepared(Draft)
                      /\ Meaning(Normalized(Draft)) = Meaning(rule)
    BY DEF UntouchedKeepsMeaning
  <2>1. PICK x \in Rules : Prepared(x) /\ rule = Normalized(x)
    BY DEF FormInv, RuleIsKnown
  <2>2. form = Filled(rule) /\ procs = rule.procs
    BY DEF FormInv, FormIsTheRule
  <2> QED BY <2>1, <2>2, UntouchedMeans
<1> QED BY <1>1, FormInvariance, PTL

------------------------------------------------------------------------------
(* The text of a time field *)

\* What a time field can hold: hours without a colon, or one or two digits of
\* them, a colon and up to two digits of minutes.
OnlyHours == {<<>>, <<"d">>, <<"d", "d">>}
OneHourDigit == {<<"d", ":">>, <<"d", ":", "d">>, <<"d", ":", "d", "d">>}
TwoHourDigits == {<<"d", "d", ":">>, <<"d", "d", ":", "d">>, <<"d", "d", ":", "d", "d">>}
TimeShapes == OnlyHours \cup OneHourDigit \cup TwoHourDigits

\* The digits before the colon are counted by its place.
LEMMA HoursOf ==
  ASSUME NEW out, NEW k \in DOMAIN out, out[k] = ":", \A j \in DOMAIN out : out[j] = ":" => j = k
  PROVE  Separated(out) /\ HourDigits(out) = k - 1
<1>1. Separated(out)
  BY DEF Separated
<1>2. (CHOOSE i \in DOMAIN out : out[i] = ":") = k
  OBVIOUS
<1> QED BY <1>1, <1>2 DEF HourDigits

\* The digits of such a text.
LEMMA ShapesMean ==
  ASSUME NEW s \in TimeShapes
  PROVE  /\ s \in OnlyHours => /\ ~Separated(s) /\ HourDigits(s) = Len(s)
                               /\ MinuteDigits(s) = 0 /\ Len(s) \in 0 .. 2
         /\ s \in OneHourDigit => /\ Separated(s) /\ HourDigits(s) = 1
                                  /\ MinuteDigits(s) = Len(s) - 2 /\ Len(s) \in 2 .. 4
         /\ s \in TwoHourDigits => /\ Separated(s) /\ HourDigits(s) = 2
                                   /\ MinuteDigits(s) = Len(s) - 3 /\ Len(s) \in 3 .. 5
<1>1. ASSUME s \in OnlyHours
      PROVE  ~Separated(s) /\ HourDigits(s) = Len(s) /\ MinuteDigits(s) = 0 /\ Len(s) \in 0 .. 2
  <2>1. Len(s) \in 0 .. 2 /\ \A i \in DOMAIN s : s[i] = "d"
    BY <1>1 DEF OnlyHours
  <2>2. ~Separated(s)
    BY <2>1 DEF Separated
  <2> QED BY <2>1, <2>2 DEF HourDigits, MinuteDigits
<1>2. ASSUME s \in OneHourDigit
      PROVE  /\ Separated(s) /\ HourDigits(s) = 1
             /\ MinuteDigits(s) = Len(s) - 2 /\ Len(s) \in 2 .. 4
  <2>1. Len(s) \in 2 .. 4 /\ 2 \in DOMAIN s /\ s[2] = ":" /\ \A j \in DOMAIN s : s[j] = ":" => j = 2
    BY <1>2 DEF OneHourDigit
  <2>2. Separated(s) /\ HourDigits(s) = 1
    BY <2>1, HoursOf
  <2> QED BY <2>1, <2>2 DEF MinuteDigits
<1>3. ASSUME s \in TwoHourDigits
      PROVE  /\ Separated(s) /\ HourDigits(s) = 2
             /\ MinuteDigits(s) = Len(s) - 3 /\ Len(s) \in 3 .. 5
  <2>1. Len(s) \in 3 .. 5 /\ 3 \in DOMAIN s /\ s[3] = ":" /\ \A j \in DOMAIN s : s[j] = ":" => j = 3
    BY <1>3 DEF TwoHourDigits
  <2>2. Separated(s) /\ HourDigits(s) = 2
    BY <2>1, HoursOf
  <2> QED BY <2>1, <2>2 DEF MinuteDigits
<1> QED BY <1>1, <1>2, <1>3

\* What a rune makes of such a text.
LEMMA GrownMeans ==
  /\ Grown(<<>>, "d") = <<"d">> /\ Grown(<<"d">>, "d") = <<"d", "d">>
  /\ Grown(<<"d", "d">>, "d") = <<"d", "d", ":", "d">>
  /\ Grown(<<"d">>, ":") = <<"d", ":">> /\ Grown(<<"d", "d">>, ":") = <<"d", "d", ":">>
  /\ Grown(<<"d", ":">>, "d") = <<"d", ":", "d">>
  /\ Grown(<<"d", "d", ":">>, "d") = <<"d", "d", ":", "d">>
  /\ Grown(<<"d", ":", "d">>, "d") = <<"d", ":", "d", "d">>
  /\ Grown(<<"d", "d", ":", "d">>, "d") = <<"d", "d", ":", "d", "d">>
<1>1. ASSUME NEW s \in OnlyHours, Len(s) < 2 PROVE Grown(s, "d") = Append(s, "d")
  <2>1. ~Separated(s) /\ HourDigits(s) = Len(s)
    BY ShapesMean DEF TimeShapes
  <2> QED BY <1>1, <2>1 DEF Grown
<1>2. ASSUME NEW s \in OnlyHours, Len(s) = 2 PROVE Grown(s, "d") = s \o <<":", "d">>
  <2>1. ~Separated(s) /\ HourDigits(s) = Len(s)
    BY ShapesMean DEF TimeShapes
  <2> QED BY <1>2, <2>1 DEF Grown
<1>3. ASSUME NEW s \in OnlyHours, Len(s) > 0 PROVE Grown(s, ":") = Append(s, ":")
  <2>1. ~Separated(s) /\ HourDigits(s) = Len(s)
    BY ShapesMean DEF TimeShapes
  <2> QED BY <1>3, <2>1 DEF Grown
<1>4. ASSUME NEW s \in OneHourDigit, Len(s) < 4 PROVE Grown(s, "d") = Append(s, "d")
  <2>1. Separated(s) /\ MinuteDigits(s) = Len(s) - 2 /\ Len(s) \in 2 .. 4
    BY ShapesMean DEF TimeShapes
  <2> QED BY <1>4, <2>1 DEF Grown
<1>5. ASSUME NEW s \in TwoHourDigits, Len(s) < 5 PROVE Grown(s, "d") = Append(s, "d")
  <2>1. Separated(s) /\ MinuteDigits(s) = Len(s) - 3 /\ Len(s) \in 3 .. 5
    BY ShapesMean DEF TimeShapes
  <2> QED BY <1>5, <2>1 DEF Grown
<1>6. Grown(<<>>, "d") = <<"d">>
  BY <1>1 DEF OnlyHours
<1>7. Grown(<<"d">>, "d") = <<"d", "d">>
  BY <1>1 DEF OnlyHours
<1>8. Grown(<<"d", "d">>, "d") = <<"d", "d", ":", "d">>
  BY <1>2 DEF OnlyHours
<1>9. Grown(<<"d">>, ":") = <<"d", ":">>
  BY <1>3 DEF OnlyHours
<1>10. Grown(<<"d", "d">>, ":") = <<"d", "d", ":">>
  BY <1>3 DEF OnlyHours
<1>11. Grown(<<"d", ":">>, "d") = <<"d", ":", "d">>
  BY <1>4 DEF OneHourDigit
<1>12. Grown(<<"d", "d", ":">>, "d") = <<"d", "d", ":", "d">>
  BY <1>5 DEF TwoHourDigits
<1>13. Grown(<<"d", ":", "d">>, "d") = <<"d", ":", "d", "d">>
  BY <1>4 DEF OneHourDigit
<1>14. Grown(<<"d", "d", ":", "d">>, "d") = <<"d", "d", ":", "d", "d">>
  BY <1>5 DEF TwoHourDigits
<1> QED BY <1>6, <1>7, <1>8, <1>9, <1>10, <1>11, <1>12, <1>13, <1>14

\* A rune leaves such a text or makes it a longer one.
LEMMA GrownFits ==
  ASSUME NEW s \in TimeShapes, NEW x \in {"d", ":", "x"}
  PROVE  Grown(s, x) \in TimeShapes /\ Len(s) <= Len(Grown(s, x))
<1>1. \/ Grown(s, x) = s
      \/ /\ s \in {<<>>, <<"d">>, <<"d", "d">>, <<"d", ":">>, <<"d", "d", ":">>,
                   <<"d", ":", "d">>, <<"d", "d", ":", "d">>}
         /\ x = "d"
      \/ s \in {<<"d">>, <<"d", "d">>} /\ x = ":"
  <2>1. CASE s \in OnlyHours
    <3>1. ~Separated(s) /\ HourDigits(s) = Len(s) /\ Len(s) \in 0 .. 2
      BY <2>1, ShapesMean
    <3>2. s = <<>> \/ s = <<"d">> \/ s = <<"d", "d">>
      BY <2>1 DEF OnlyHours
    <3>3. CASE x = "d"
      BY <3>2, <3>3
    <3>4. CASE x = ":"
      <4>1. s = <<>> => Grown(s, x) = s
        BY <3>1, <3>4 DEF Grown
      <4> QED BY <3>2, <3>4, <4>1
    <3>5. CASE x = "x"
      BY <3>5 DEF Grown
    <3> QED BY <3>3, <3>4, <3>5
  <2>2. CASE s \in OneHourDigit
    <3>1. Separated(s) /\ MinuteDigits(s) = Len(s) - 2 /\ Len(s) \in 2 .. 4
      BY <2>2, ShapesMean
    <3>2. s = <<"d", ":">> \/ s = <<"d", ":", "d">> \/ s = <<"d", ":", "d", "d">>
      BY <2>2 DEF OneHourDigit
    <3>3. s = <<"d", ":", "d", "d">> => Grown(s, x) = s
      <4>1. s = <<"d", ":", "d", "d">> => Len(s) = 4
        OBVIOUS
      <4> QED BY <3>1, <4>1 DEF Grown
    <3>4. x # "d" => Grown(s, x) = s
      BY <3>1 DEF Grown
    <3> QED BY <3>2, <3>3, <3>4
  <2>3. CASE s \in TwoHourDigits
    <3>1. Separated(s) /\ MinuteDigits(s) = Len(s) - 3 /\ Len(s) \in 3 .. 5
      BY <2>3, ShapesMean
    <3>2. s = <<"d", "d", ":">> \/ s = <<"d", "d", ":", "d">> \/ s = <<"d", "d", ":", "d", "d">>
      BY <2>3 DEF TwoHourDigits
    <3>3. s = <<"d", "d", ":", "d", "d">> => Grown(s, x) = s
      <4>1. s = <<"d", "d", ":", "d", "d">> => Len(s) = 5
        OBVIOUS
      <4> QED BY <3>1, <4>1 DEF Grown
    <3>4. x # "d" => Grown(s, x) = s
      BY <3>1 DEF Grown
    <3> QED BY <3>2, <3>3, <3>4
  <2> QED BY <2>1, <2>2, <2>3 DEF TimeShapes
<1>2. CASE Grown(s, x) = s
  <2>1. Len(s) \in Nat
    BY DEF TimeShapes, OnlyHours, OneHourDigit, TwoHourDigits
  <2> QED BY <1>2, <2>1
<1>3. CASE /\ s \in {<<>>, <<"d">>, <<"d", "d">>, <<"d", ":">>, <<"d", "d", ":">>,
                     <<"d", ":", "d">>, <<"d", "d", ":", "d">>}
           /\ x = "d"
  <2>1. CASE s = <<>>
    <3>1. Grown(s, x) = <<"d">>
      BY <1>3, <2>1, GrownMeans, Zenon
    <3>2. <<"d">> \in OnlyHours /\ Len(<<>>) <= Len(<<"d">>)
      BY DEF OnlyHours
    <3> QED BY <2>1, <3>1, <3>2 DEF TimeShapes
  <2>2. CASE s = <<"d">>
    <3>1. Grown(s, x) = <<"d", "d">>
      BY <1>3, <2>2, GrownMeans, Zenon
    <3>2. <<"d", "d">> \in OnlyHours /\ Len(<<"d">>) <= Len(<<"d", "d">>)
      BY DEF OnlyHours
    <3> QED BY <2>2, <3>1, <3>2 DEF TimeShapes
  <2>3. CASE s = <<"d", "d">>
    <3>1. Grown(s, x) = <<"d", "d", ":", "d">>
      BY <1>3, <2>3, GrownMeans, Zenon
    <3>2. <<"d", "d", ":", "d">> \in TwoHourDigits /\ Len(<<"d", "d">>) <= Len(<<"d", "d", ":", "d">>)
      BY DEF TwoHourDigits
    <3> QED BY <2>3, <3>1, <3>2 DEF TimeShapes
  <2>4. CASE s = <<"d", ":">>
    <3>1. Grown(s, x) = <<"d", ":", "d">>
      BY <1>3, <2>4, GrownMeans, Zenon
    <3>2. <<"d", ":", "d">> \in OneHourDigit /\ Len(<<"d", ":">>) <= Len(<<"d", ":", "d">>)
      BY DEF OneHourDigit
    <3> QED BY <2>4, <3>1, <3>2 DEF TimeShapes
  <2>5. CASE s = <<"d", "d", ":">>
    <3>1. Grown(s, x) = <<"d", "d", ":", "d">>
      BY <1>3, <2>5, GrownMeans, Zenon
    <3>2. <<"d", "d", ":", "d">> \in TwoHourDigits /\ Len(<<"d", "d", ":">>) <= Len(<<"d", "d", ":", "d">>)
      BY DEF TwoHourDigits
    <3> QED BY <2>5, <3>1, <3>2 DEF TimeShapes
  <2>6. CASE s = <<"d", ":", "d">>
    <3>1. Grown(s, x) = <<"d", ":", "d", "d">>
      BY <1>3, <2>6, GrownMeans, Zenon
    <3>2. <<"d", ":", "d", "d">> \in OneHourDigit /\ Len(<<"d", ":", "d">>) <= Len(<<"d", ":", "d", "d">>)
      BY DEF OneHourDigit
    <3> QED BY <2>6, <3>1, <3>2 DEF TimeShapes
  <2>7. CASE s = <<"d", "d", ":", "d">>
    <3>1. Grown(s, x) = <<"d", "d", ":", "d", "d">>
      BY <1>3, <2>7, GrownMeans, Zenon
    <3>2. <<"d", "d", ":", "d", "d">> \in TwoHourDigits
         /\ Len(<<"d", "d", ":", "d">>) <= Len(<<"d", "d", ":", "d", "d">>)
      BY DEF TwoHourDigits
    <3> QED BY <2>7, <3>1, <3>2 DEF TimeShapes
  <2> QED BY <1>3, <2>1, <2>2, <2>3, <2>4, <2>5, <2>6, <2>7
<1>4. CASE s \in {<<"d">>, <<"d", "d">>} /\ x = ":"
  <2>1. CASE s = <<"d">>
    <3>1. Grown(s, x) = <<"d", ":">>
      BY <1>4, <2>1, GrownMeans, Zenon
    <3>2. <<"d", ":">> \in OneHourDigit /\ Len(<<"d">>) <= Len(<<"d", ":">>)
      BY DEF OneHourDigit
    <3> QED BY <2>1, <3>1, <3>2 DEF TimeShapes
  <2>2. CASE s = <<"d", "d">>
    <3>1. Grown(s, x) = <<"d", "d", ":">>
      BY <1>4, <2>2, GrownMeans, Zenon
    <3>2. <<"d", "d", ":">> \in TwoHourDigits /\ Len(<<"d", "d">>) <= Len(<<"d", "d", ":">>)
      BY DEF TwoHourDigits
    <3> QED BY <2>2, <3>1, <3>2 DEF TimeShapes
  <2> QED BY <1>4, <2>1, <2>2
<1> QED BY <1>1, <1>2, <1>3, <1>4

IsScan(f, n, text) == f[0] = <<>> /\ \A i \in 1 .. n : f[i] = Grown(f[i - 1], text[i])

\* Scanning makes one rune after the other into the text.
LEMMA ScanRuns ==
  ASSUME NEW text, NEW m \in Nat
  PROVE  \E f : IsScan(f, m, text) /\ Scanned(text, m) = f[m]
<1> DEFINE S == {k \in 0 .. m : \E f : IsScan(f, k, text)}
<1>1. 0 \in S
  <2> DEFINE f == [i \in 0 .. 0 |-> <<>>]
  <2>1. f[0] = <<>>
    OBVIOUS
  <2> HIDE DEF f
  <2>2. IsScan(f, 0, text)
    BY <2>1 DEF IsScan
  <2> QED BY <2>2
<1>2. ASSUME NEW k \in 0 .. (m - 1), k \in S PROVE k + 1 \in S
  <2>1. PICK f : IsScan(f, k, text)
    BY <1>2
  <2> DEFINE h == [i \in 0 .. (k + 1) |-> IF i <= k THEN f[i] ELSE Grown(f[k], text[k + 1])]
  <2>2. h[0] = f[0] /\ h[k + 1] = Grown(f[k], text[k + 1]) /\ \A i \in 0 .. k : h[i] = f[i]
    OBVIOUS
  <2> HIDE DEF h
  <2>3. \A i \in 1 .. (k + 1) : i - 1 \in 0 .. k /\ (i \in 1 .. k \/ (i = k + 1 /\ i - 1 = k))
    OBVIOUS
  <2>4. \A i \in 1 .. (k + 1) : h[i] = Grown(h[i - 1], text[i])
    <3> SUFFICES ASSUME NEW i \in 1 .. (k + 1) PROVE h[i] = Grown(h[i - 1], text[i])
      OBVIOUS
    <3>1. h[i - 1] = f[i - 1]
      BY <2>2, <2>3
    <3>2. CASE i \in 1 .. k
      BY <2>1, <2>2, <3>1, <3>2 DEF IsScan
    <3>3. CASE i = k + 1 /\ i - 1 = k
      BY <2>2, <3>1, <3>3
    <3> QED BY <2>3, <3>2, <3>3
  <2>5. IsScan(h, k + 1, text)
    BY <2>1, <2>2, <2>4 DEF IsScan
  <2> QED BY <2>5
<1>3. m \in S
  <2> HIDE DEF S
  <2>1. \A i \in 0 .. m : i \in S
    BY <1>1, <1>2, UpTo
  <2> QED BY <2>1
<1>4. PICK h : IsScan(h, m, text)
  BY <1>3
<1> DEFINE Eq(f) == f = [i \in 0 .. m |-> IF i = 0 THEN <<>> ELSE Grown(f[i - 1], text[i])]
           g == [i \in 0 .. m |-> h[i]]
           f == CHOOSE x : Eq(x)
<1>5. Eq(g)
  <2>1. \A i \in 0 .. m : g[i] = h[i]
    OBVIOUS
  <2>2. \A i \in 0 .. m : i = 0 \/ (i \in 1 .. m /\ i - 1 \in 0 .. m)
    OBVIOUS
  <2>3. \A i \in 0 .. m : h[i] = IF i = 0 THEN <<>> ELSE Grown(g[i - 1], text[i])
    BY <1>4, <2>1, <2>2 DEF IsScan
  <2> QED BY <2>3
<1>6. Eq(f)
  <2> HIDE DEF Eq, g
  <2> QED BY <1>5
<1>7. Scanned(text, m) = f[m]
  BY DEF Scanned
<1> HIDE DEF f
<1>8. f[0] = <<>> /\ \A i \in 1 .. m : f[i] = Grown(f[i - 1], text[i])
  <2>1. \A i \in 0 .. m : f[i] = IF i = 0 THEN <<>> ELSE Grown(f[i - 1], text[i])
    BY <1>6
  <2>2. \A i \in 1 .. m : i \in 0 .. m /\ i # 0
    OBVIOUS
  <2> QED BY <2>1, <2>2
<1> QED BY <1>7, <1>8 DEF IsScan

\* The scan of nothing, and the scan of one rune more.
LEMMA ScannedStep ==
  ASSUME NEW text, NEW n \in Nat
  PROVE  Scanned(text, 0) = <<>> /\ Scanned(text, n + 1) = Grown(Scanned(text, n), text[n + 1])
<1>1. Scanned(text, 0) = <<>>
  <2>1. 0 \in Nat
    OBVIOUS
  <2>2. PICK f : IsScan(f, 0, text) /\ Scanned(text, 0) = f[0]
    BY <2>1, ScanRuns
  <2> QED BY <2>2 DEF IsScan
<1>2. PICK f : IsScan(f, n, text) /\ Scanned(text, n) = f[n]
  BY ScanRuns
<1>3. n + 1 \in Nat
  OBVIOUS
<1>4. PICK h : IsScan(h, n + 1, text) /\ Scanned(text, n + 1) = h[n + 1]
  BY <1>3, ScanRuns
<1>5. f[n] = h[n]
  <2> DEFINE d == 0
  <2>1. d \in {0, 1} /\ f[0] = h[d]
    BY <1>2, <1>4 DEF IsScan
  <2>2. \A i \in 1 .. n : f[i - 1] = h[i - 1 + d] => f[i] = h[i + d]
    <3>1. \A i \in 1 .. n : i \in 1 .. (n + 1) /\ i - 1 + 0 = i - 1 /\ i + 0 = i
      OBVIOUS
    <3> QED BY <1>2, <1>4, <3>1 DEF IsScan
  <2>3. Follows(f, h, d, n)
    BY <2>1, <2>2 DEF Follows
  <2> HIDE DEF d
  <2>4. f[n] = h[n + d]
    BY <2>1, <2>3, RunsAgree
  <2>5. n + d = n
    BY DEF d
  <2> QED BY <2>4, <2>5
<1>6. h[n + 1] = Grown(h[n], text[n + 1])
  <2>1. n + 1 \in 1 .. (n + 1) /\ (n + 1) - 1 = n
    OBVIOUS
  <2> QED BY <1>4, <2>1 DEF IsScan
<1> QED BY <1>1, <1>2, <1>4, <1>5, <1>6

\* What has been scanned is always a text the field can hold.
LEMMA ScannedFits ==
  ASSUME NEW text, NEW n \in Nat, \A i \in 1 .. n : text[i] \in {"d", ":", "x"}
  PROVE  \A i \in 0 .. n : Scanned(text, i) \in TimeShapes
<1> DEFINE S == {i \in 0 .. n : Scanned(text, i) \in TimeShapes}
<1>1. 0 \in S
  <2>1. Scanned(text, 0) = <<>>
    BY ScannedStep
  <2> QED BY <2>1 DEF TimeShapes, OnlyHours
<1>2. ASSUME NEW i \in 0 .. (n - 1), i \in S PROVE i + 1 \in S
  <2>1. i \in Nat /\ i + 1 \in 1 .. n
    OBVIOUS
  <2>2. Scanned(text, i + 1) = Grown(Scanned(text, i), text[i + 1])
    BY <2>1, ScannedStep
  <2>3. Scanned(text, i) \in TimeShapes /\ text[i + 1] \in {"d", ":", "x"}
    BY <1>2, <2>1
  <2>4. Scanned(text, i + 1) \in TimeShapes
    BY <2>2, <2>3, GrownFits
  <2> QED BY <2>1, <2>4
<1>3. \A i \in 0 .. n : i \in S
  <2> HIDE DEF S
  <2> QED BY <1>1, <1>2, UpTo
<1> QED BY <1>3

\* It only grows.
LEMMA ScannedGrows ==
  ASSUME NEW text, NEW n \in Nat, \A i \in 1 .. n : text[i] \in {"d", ":", "x"}, NEW k \in 0 .. n
  PROVE  Len(Scanned(text, k)) <= Len(Scanned(text, n))
<1> DEFINE l(i) == Len(Scanned(text, i))
           S == {i \in 0 .. n : k <= i => l(k) <= l(i)}
<1>1. \A i \in 0 .. n : l(i) \in Nat
  <2> SUFFICES ASSUME NEW i \in 0 .. n PROVE l(i) \in Nat
    OBVIOUS
  <2>1. Scanned(text, i) \in TimeShapes
    BY ScannedFits
  <2> QED BY <2>1, ShapesMean DEF TimeShapes
<1>2. \A i \in 0 .. (n - 1) : l(i) <= l(i + 1)
  <2> SUFFICES ASSUME NEW i \in 0 .. (n - 1) PROVE l(i) <= l(i + 1)
    OBVIOUS
  <2>1. i \in Nat /\ i \in 0 .. n /\ i + 1 \in 1 .. n
    OBVIOUS
  <2>2. Scanned(text, i + 1) = Grown(Scanned(text, i), text[i + 1])
    BY <2>1, ScannedStep
  <2>3. Scanned(text, i) \in TimeShapes
    BY <2>1, ScannedFits
  <2> QED BY <2>1, <2>2, <2>3, GrownFits
<1> HIDE DEF l
<1>3. 0 \in S
  <2>1. k <= 0 => k = 0
    OBVIOUS
  <2> QED BY <1>1, <2>1
<1>4. ASSUME NEW i \in 0 .. (n - 1), i \in S PROVE i + 1 \in S
  <2>1. l(i) \in Nat /\ l(i + 1) \in Nat /\ l(k) \in Nat /\ l(i) <= l(i + 1)
    BY <1>1, <1>2
  <2>2. k <= i + 1 => k <= i \/ k = i + 1
    OBVIOUS
  <2> QED BY <1>4, <2>1, <2>2
<1>5. \A i \in 0 .. n : i \in S
  <2> HIDE DEF S
  <2> QED BY <1>3, <1>4, UpTo
<1> QED BY <1>1, <1>5 DEF l

\* Two texts that begin alike are scanned alike.
LEMMA ScannedAlike ==
  ASSUME NEW a, NEW b, NEW n \in Nat, \A i \in 1 .. n : a[i] = b[i]
  PROVE  \A i \in 0 .. n : Scanned(a, i) = Scanned(b, i)
<1> DEFINE S == {i \in 0 .. n : Scanned(a, i) = Scanned(b, i)}
<1>1. 0 \in S
  BY ScannedStep
<1>2. ASSUME NEW i \in 0 .. (n - 1), i \in S PROVE i + 1 \in S
  <2>1. i \in Nat /\ i + 1 \in 1 .. n /\ Scanned(a, i) = Scanned(b, i) /\ a[i + 1] = b[i + 1]
    BY <1>2
  <2>2. Scanned(a, i + 1) = Grown(Scanned(a, i), a[i + 1])
        /\ Scanned(b, i + 1) = Grown(Scanned(b, i), b[i + 1])
    BY <2>1, ScannedStep
  <2> QED BY <2>1, <2>2
<1>3. \A i \in 0 .. n : i \in S
  <2> HIDE DEF S
  <2> QED BY <1>1, <1>2, UpTo
<1> QED BY <1>3

\* Scanning leaves the text and, before any of its runes, the caret.
IsKept(s) == Scanned(s, Len(s)) = s /\ \A k \in 0 .. Len(s) : Len(Scanned(s, k)) = k

\* A text that grows by a rune is kept when what it grew from is.
LEMMA KeptAppend ==
  ASSUME NEW q, NEW s, NEW x, NEW n \in Nat, Len(q) = n, Len(s) = n + 1,
         s[n + 1] = x, \A i \in 1 .. n : s[i] = q[i], IsKept(q), Grown(q, x) = s
  PROVE  IsKept(s)
<1>1. \A i \in 0 .. n : Scanned(s, i) = Scanned(q, i)
  BY ScannedAlike
<1>2. Scanned(s, n) = q
  BY <1>1 DEF IsKept
<1>3. Scanned(s, n + 1) = s
  BY <1>2, ScannedStep
<1>4. ASSUME NEW k \in 0 .. (n + 1) PROVE Len(Scanned(s, k)) = k
  <2>1. CASE k \in 0 .. n
    BY <1>1, <2>1 DEF IsKept
  <2>2. CASE k = n + 1
    BY <1>3, <2>2
  <2> QED BY <2>1, <2>2
<1> QED BY <1>3, <1>4 DEF IsKept

\* The texts a field can hold are kept.
LEMMA ShapesAreKept ==
  ASSUME NEW s \in TimeShapes
  PROVE  IsKept(s)
<1>0. IsKept(<<>>)
  <2>1. Scanned(<<>>, 0) = <<>> /\ Len(<<>>) = 0
    BY ScannedStep
  <2> QED BY <2>1 DEF IsKept
<1>1. IsKept(<<"d">>)
  <2> DEFINE q == <<>>
             t == <<"d">>
             n == 0
  <2>1. /\ n \in Nat /\ Len(q) = n /\ Len(t) = n + 1 /\ t[n + 1] = "d"
        /\ \A i \in 1 .. n : t[i] = q[i]
    OBVIOUS
  <2>2. Grown(q, "d") = t
    BY GrownMeans
  <2>3. IsKept(q)
    BY <1>0
  <2> HIDE DEF q, t, n
  <2>4. IsKept(t)
    BY <2>1, <2>2, <2>3, KeptAppend
  <2> QED BY <2>4 DEF t
<1>2. IsKept(<<"d", "d">>)
  <2> DEFINE q == <<"d">>
             t == <<"d", "d">>
             n == 1
  <2>1. /\ n \in Nat /\ Len(q) = n /\ Len(t) = n + 1 /\ t[n + 1] = "d"
        /\ \A i \in 1 .. n : t[i] = q[i]
    OBVIOUS
  <2>2. Grown(q, "d") = t
    BY GrownMeans
  <2>3. IsKept(q)
    BY <1>1
  <2> HIDE DEF q, t, n
  <2>4. IsKept(t)
    BY <2>1, <2>2, <2>3, KeptAppend
  <2> QED BY <2>4 DEF t
<1>3. IsKept(<<"d", ":">>)
  <2> DEFINE q == <<"d">>
             t == <<"d", ":">>
             n == 1
  <2>1. /\ n \in Nat /\ Len(q) = n /\ Len(t) = n + 1 /\ t[n + 1] = ":"
        /\ \A i \in 1 .. n : t[i] = q[i]
    OBVIOUS
  <2>2. Grown(q, ":") = t
    BY GrownMeans
  <2>3. IsKept(q)
    BY <1>1
  <2> HIDE DEF q, t, n
  <2>4. IsKept(t)
    BY <2>1, <2>2, <2>3, KeptAppend
  <2> QED BY <2>4 DEF t
<1>4. IsKept(<<"d", "d", ":">>)
  <2> DEFINE q == <<"d", "d">>
             t == <<"d", "d", ":">>
             n == 2
  <2>1. /\ n \in Nat /\ Len(q) = n /\ Len(t) = n + 1 /\ t[n + 1] = ":"
        /\ \A i \in 1 .. n : t[i] = q[i]
    OBVIOUS
  <2>2. Grown(q, ":") = t
    BY GrownMeans
  <2>3. IsKept(q)
    BY <1>2
  <2> HIDE DEF q, t, n
  <2>4. IsKept(t)
    BY <2>1, <2>2, <2>3, KeptAppend
  <2> QED BY <2>4 DEF t
<1>5. IsKept(<<"d", ":", "d">>)
  <2> DEFINE q == <<"d", ":">>
             t == <<"d", ":", "d">>
             n == 2
  <2>1. /\ n \in Nat /\ Len(q) = n /\ Len(t) = n + 1 /\ t[n + 1] = "d"
        /\ \A i \in 1 .. n : t[i] = q[i]
    OBVIOUS
  <2>2. Grown(q, "d") = t
    BY GrownMeans
  <2>3. IsKept(q)
    BY <1>3
  <2> HIDE DEF q, t, n
  <2>4. IsKept(t)
    BY <2>1, <2>2, <2>3, KeptAppend
  <2> QED BY <2>4 DEF t
<1>6. IsKept(<<"d", "d", ":", "d">>)
  <2> DEFINE q == <<"d", "d", ":">>
             t == <<"d", "d", ":", "d">>
             n == 3
  <2>1. /\ n \in Nat /\ Len(q) = n /\ Len(t) = n + 1 /\ t[n + 1] = "d"
        /\ \A i \in 1 .. n : t[i] = q[i]
    OBVIOUS
  <2>2. Grown(q, "d") = t
    BY GrownMeans
  <2>3. IsKept(q)
    BY <1>4
  <2> HIDE DEF q, t, n
  <2>4. IsKept(t)
    BY <2>1, <2>2, <2>3, KeptAppend
  <2> QED BY <2>4 DEF t
<1>7. IsKept(<<"d", ":", "d", "d">>)
  <2> DEFINE q == <<"d", ":", "d">>
             t == <<"d", ":", "d", "d">>
             n == 3
  <2>1. /\ n \in Nat /\ Len(q) = n /\ Len(t) = n + 1 /\ t[n + 1] = "d"
        /\ \A i \in 1 .. n : t[i] = q[i]
    OBVIOUS
  <2>2. Grown(q, "d") = t
    BY GrownMeans
  <2>3. IsKept(q)
    BY <1>5
  <2> HIDE DEF q, t, n
  <2>4. IsKept(t)
    BY <2>1, <2>2, <2>3, KeptAppend
  <2> QED BY <2>4 DEF t
<1>8. IsKept(<<"d", "d", ":", "d", "d">>)
  <2> DEFINE q == <<"d", "d", ":", "d">>
             t == <<"d", "d", ":", "d", "d">>
             n == 4
  <2>1. /\ n \in Nat /\ Len(q) = n /\ Len(t) = n + 1 /\ t[n + 1] = "d"
        /\ \A i \in 1 .. n : t[i] = q[i]
    OBVIOUS
  <2>2. Grown(q, "d") = t
    BY GrownMeans
  <2>3. IsKept(q)
    BY <1>6
  <2> HIDE DEF q, t, n
  <2>4. IsKept(t)
    BY <2>1, <2>2, <2>3, KeptAppend
  <2> QED BY <2>4 DEF t
<1> QED BY <1>0, <1>1, <1>2, <1>3, <1>4, <1>5, <1>6, <1>7, <1>8
    DEF TimeShapes, OnlyHours, OneHourDigit, TwoHourDigits

\* A text the field can hold stays as it is, and the caret where it is.
LEMMA ShapeStays ==
  ASSUME NEW s \in TimeShapes, NEW caret \in 0 .. Len(s), NEW final \in BOOLEAN,
         Separated(s) /\ final => HourDigits(s) = 2
  PROVE  TimeText(s, caret, final) = [text |-> s, caret |-> caret]
<1>1. Scanned(s, Len(s)) = s /\ Len(Scanned(s, caret)) = caret
  BY ShapesAreKept DEF IsKept
<1>2. ~(final /\ Separated(s) /\ HourDigits(s) = 1)
  OBVIOUS
<1> QED BY <1>1, <1>2 DEF TimeText

\* The second hour digit that a left field gets.
LEMMA PaddedMeans ==
  /\ <<"d">> \o <<"d", ":">> = <<"d", "d", ":">>
  /\ <<"d">> \o <<"d", ":", "d">> = <<"d", "d", ":", "d">>
  /\ <<"d">> \o <<"d", ":", "d", "d">> = <<"d", "d", ":", "d", "d">>
<1> DEFINE S == {"d", ":"}
           a == <<"d">>
<1>1. ASSUME NEW b \in Seq(S), NEW c \in Seq(S), Len(c) = Len(b) + 1, c[1] = "d",
             \A i \in 1 .. Len(b) : c[i + 1] = b[i]
      PROVE  a \o b = c
  <2>1. Len(a) = 1 /\ a[1] = "d"
    OBVIOUS
  <2>2. a \in Seq(S) /\ b \in Seq(S) /\ c \in Seq(S)
    BY <1>1
  <2> HIDE DEF a, S
  <2>3. a \o b \in Seq(S)
    BY <2>2
  <2>4. Len(a \o b) = Len(a) + Len(b)
    BY <2>2
  <2>5. \A i \in 1 .. Len(a) : (a \o b)[i] = a[i]
    BY <2>2
  <2>6. \A i \in 1 .. (Len(a) + Len(b)) : i > Len(a) => (a \o b)[i] = b[i - Len(a)]
    BY <2>2
  <2>7. \A i \in 1 .. Len(c) : (a \o b)[i] = c[i]
    <3> SUFFICES ASSUME NEW i \in 1 .. Len(c) PROVE (a \o b)[i] = c[i]
      OBVIOUS
    <3>1. CASE i = 1
      BY <1>1, <2>1, <2>5, <3>1
    <3>2. CASE i # 1
      <4>1. i - 1 \in 1 .. Len(b) /\ (i - 1) + 1 = i /\ i > 1 /\ i \in 1 .. (1 + Len(b))
        BY <1>1, <2>2, <3>2
      <4>2. (a \o b)[i] = b[i - 1]
        BY <2>1, <2>6, <4>1
      <4>3. c[i] = b[i - 1]
        BY <1>1, <4>1
      <4> QED BY <4>2, <4>3
    <3> QED BY <3>1, <3>2
  <2> QED BY <1>1, <2>1, <2>2, <2>3, <2>4, <2>7
<1>2. a \o <<"d", ":">> = <<"d", "d", ":">>
  <2> DEFINE b == <<"d", ":">>
             c == <<"d", "d", ":">>
  <2>1. b \in Seq(S) /\ c \in Seq(S) /\ Len(c) = Len(b) + 1 /\ c[1] = "d"
        /\ \A i \in 1 .. Len(b) : c[i + 1] = b[i]
    OBVIOUS
  <2> HIDE DEF a, b, c, S
  <2>2. a \o b = c
    BY <1>1, <2>1
  <2> QED BY <2>2 DEF b, c
<1>3. a \o <<"d", ":", "d">> = <<"d", "d", ":", "d">>
  <2> DEFINE b == <<"d", ":", "d">>
             c == <<"d", "d", ":", "d">>
  <2>1. b \in Seq(S) /\ c \in Seq(S) /\ Len(c) = Len(b) + 1 /\ c[1] = "d"
        /\ \A i \in 1 .. Len(b) : c[i + 1] = b[i]
    OBVIOUS
  <2> HIDE DEF a, b, c, S
  <2>2. a \o b = c
    BY <1>1, <2>1
  <2> QED BY <2>2 DEF b, c
<1>4. a \o <<"d", ":", "d", "d">> = <<"d", "d", ":", "d", "d">>
  <2> DEFINE b == <<"d", ":", "d", "d">>
             c == <<"d", "d", ":", "d", "d">>
  <2>1. b \in Seq(S) /\ c \in Seq(S) /\ Len(c) = Len(b) + 1 /\ c[1] = "d"
        /\ \A i \in 1 .. Len(b) : c[i + 1] = b[i]
    OBVIOUS
  <2> HIDE DEF a, b, c, S
  <2>2. a \o b = c
    BY <1>1, <2>1
  <2> QED BY <2>2 DEF b, c
<1> QED BY <1>2, <1>3, <1>4

\* What a field makes of a text it can hold, with the caret in it.
LEMMA TimeTextFits ==
  ASSUME NEW text, NEW n \in Nat, Len(text) = n, \A i \in 1 .. n : text[i] \in {"d", ":", "x"},
         NEW caret \in 0 .. n, NEW final \in BOOLEAN,
         NEW t, t = TimeText(text, caret, final)
  PROVE  /\ t.text \in TimeShapes /\ t.caret \in 0 .. Len(t.text)
         /\ Separated(t.text) /\ final => HourDigits(t.text) = 2
         /\ t = [text |-> t.text, caret |-> t.caret]
<1> DEFINE out == Scanned(text, Len(text))
           at == Len(Scanned(text, caret))
           pad == final /\ Separated(out) /\ HourDigits(out) = 1
           line == IF pad THEN <<"d">> \o out ELSE out
           place == IF pad /\ caret > 0 THEN at + 1 ELSE at
<1>1. t = [text |-> line, caret |-> place]
  BY DEF TimeText
<1>2. out \in TimeShapes /\ Scanned(text, caret) \in TimeShapes
  <2>1. n \in 0 .. n
    OBVIOUS
  <2> QED BY <2>1, ScannedFits
<1>3. at \in Nat /\ Len(out) \in Nat
  BY <1>2, ShapesMean DEF TimeShapes
<1>4. at <= Len(out)
  BY ScannedGrows
<1>5. pad <=> final /\ Separated(out) /\ HourDigits(out) = 1
  OBVIOUS
<1>6. line = (IF pad THEN <<"d">> \o out ELSE out)
      /\ place = (IF pad /\ caret > 0 THEN at + 1 ELSE at)
  OBVIOUS
<1> HIDE DEF out, at, pad, line, place
<1>7. /\ line \in TimeShapes /\ place \in 0 .. Len(line)
      /\ Separated(line) /\ final => HourDigits(line) = 2
  <2>1. CASE pad
    <3>1. out \in OneHourDigit
      BY <1>2, <1>5, <2>1, ShapesMean DEF TimeShapes, TwoHourDigits, OnlyHours
    <3>2. <<"d">> \o out \in TwoHourDigits /\ Len(<<"d">> \o out) = Len(out) + 1
      <4>1. CASE out = <<"d", ":">>
        <5>1. <<"d">> \o <<"d", ":">> = <<"d", "d", ":">>
          BY PaddedMeans
        <5>2. <<"d", "d", ":">> \in TwoHourDigits /\ Len(<<"d", "d", ":">>) = Len(<<"d", ":">>) + 1
          BY DEF TwoHourDigits
        <5> QED BY <4>1, <5>1, <5>2
      <4>2. CASE out = <<"d", ":", "d">>
        <5>1. <<"d">> \o <<"d", ":", "d">> = <<"d", "d", ":", "d">>
          BY PaddedMeans
        <5>2. <<"d", "d", ":", "d">> \in TwoHourDigits
             /\ Len(<<"d", "d", ":", "d">>) = Len(<<"d", ":", "d">>) + 1
          BY DEF TwoHourDigits
        <5> QED BY <4>2, <5>1, <5>2
      <4>3. CASE out = <<"d", ":", "d", "d">>
        <5>1. <<"d">> \o <<"d", ":", "d", "d">> = <<"d", "d", ":", "d", "d">>
          BY PaddedMeans
        <5>2. <<"d", "d", ":", "d", "d">> \in TwoHourDigits
             /\ Len(<<"d", "d", ":", "d", "d">>) = Len(<<"d", ":", "d", "d">>) + 1
          BY DEF TwoHourDigits
        <5> QED BY <4>3, <5>1, <5>2
      <4> QED BY <3>1, <4>1, <4>2, <4>3 DEF OneHourDigit
    <3>3. line \in TwoHourDigits /\ Len(line) = Len(out) + 1
      BY <1>6, <2>1, <3>2
    <3>4. line \in TimeShapes
      BY <3>3 DEF TimeShapes
    <3>5. HourDigits(line) = 2
      BY <3>3, <3>4, ShapesMean
    <3>6. place \in 0 .. Len(line)
      BY <1>3, <1>4, <1>6, <3>3
    <3> QED BY <3>4, <3>5, <3>6
  <2>2. CASE ~pad
    <3>1. line = out /\ place = at
      BY <1>6, <2>2
    <3>2. Separated(out) /\ final => HourDigits(out) = 2
      <4>1. Separated(out) => HourDigits(out) = 1 \/ HourDigits(out) = 2
        BY <1>2, ShapesMean DEF TimeShapes
      <4> QED BY <1>5, <2>2, <4>1
    <3>3. place \in 0 .. Len(line)
      BY <1>3, <1>4, <3>1
    <3> QED BY <1>2, <3>1, <3>2, <3>3
  <2> QED BY <2>1, <2>2
<1> QED BY <1>1, <1>7

\* A text typed into a time field is a sequence of runes.
LEMMA TimeTextsTyped ==
  ASSUME NEW text \in TimeTexts
  PROVE  \E n \in Nat : Len(text) = n /\ \A i \in 1 .. n : text[i] \in {"d", ":", "x"}
<1>1. PICK n \in 0 .. MaxText : text \in [1 .. n -> {"d", ":", "x"}]
  BY DEF TimeTexts
<1>2. n \in Nat
  BY FormAssumption
<1>3. Len(text) = n
  BY <1>1, <1>2
<1> QED BY <1>1, <1>2, <1>3

\* Whatever is typed or pasted into a time field, of whatever length, it holds at
\* most two digits, a colon and two digits, normalizing again changes nothing, a
\* left field with a colon has both hour digits, and the caret stays in the text
\* (normalizeTimeEditText).
THEOREM TimeTextIsAlwaysSound == FormSpec => []TimeTextIsSound
<1>1. TimeTextIsSound
  <2> SUFFICES ASSUME NEW text \in TimeTexts, NEW caret \in 0 .. Len(text), NEW final \in BOOLEAN,
                      NEW t, t = TimeText(text, caret, final)
               PROVE  /\ t.caret \in 0 .. Len(t.text)
                      /\ HourDigits(t.text) <= 2 /\ MinuteDigits(t.text) <= 2
                      /\ Separated(t.text) => HourDigits(t.text) > 0
                      /\ Separated(t.text) /\ final => HourDigits(t.text) = 2
                      /\ TimeText(t.text, t.caret, final) = t
    BY DEF TimeTextIsSound
  <2>1. PICK n \in Nat : Len(text) = n /\ \A i \in 1 .. n : text[i] \in {"d", ":", "x"}
    BY TimeTextsTyped
  <2>2. /\ t.text \in TimeShapes /\ t.caret \in 0 .. Len(t.text)
        /\ Separated(t.text) /\ final => HourDigits(t.text) = 2
        /\ t = [text |-> t.text, caret |-> t.caret]
    BY <2>1, TimeTextFits
  <2>3. /\ HourDigits(t.text) <= 2 /\ MinuteDigits(t.text) <= 2
        /\ Separated(t.text) => HourDigits(t.text) > 0
    <3> DEFINE s == t.text
               h == HourDigits(s)
               m == MinuteDigits(s)
    <3>1. s \in TimeShapes
      BY <2>2
    <3> HIDE DEF s
    <3>2. /\ s \in OnlyHours => ~Separated(s) /\ h = Len(s) /\ m = 0 /\ Len(s) \in 0 .. 2
          /\ s \in OneHourDigit => h = 1 /\ m = Len(s) - 2 /\ Len(s) \in 2 .. 4
          /\ s \in TwoHourDigits => h = 2 /\ m = Len(s) - 3 /\ Len(s) \in 3 .. 5
      BY <3>1, ShapesMean
    <3> HIDE DEF h, m
    <3>3. h <= 2 /\ m <= 2 /\ (Separated(s) => h > 0)
      <4>1. CASE s \in OnlyHours
        BY <3>2, <4>1
      <4>2. CASE s \in OneHourDigit
        <5>1. h = 1 /\ Len(s) \in 2 .. 4 /\ m = Len(s) - 2
          BY <3>2, <4>2
        <5>2. \A k \in 2 .. 4 : k - 2 <= 2
          OBVIOUS
        <5> QED BY <5>1, <5>2
      <4>3. CASE s \in TwoHourDigits
        <5>1. h = 2 /\ Len(s) \in 3 .. 5 /\ m = Len(s) - 3
          BY <3>2, <4>3
        <5>2. \A k \in 3 .. 5 : k - 3 <= 2
          OBVIOUS
        <5> QED BY <5>1, <5>2, SMTT(30)
      <4> QED BY <3>1, <4>1, <4>2, <4>3 DEF TimeShapes
    <3> QED BY <3>3 DEF s, h, m
  <2>4. TimeText(t.text, t.caret, final) = [text |-> t.text, caret |-> t.caret]
    <3> DEFINE s == t.text
               c == t.caret
    <3>1. s \in TimeShapes /\ c \in 0 .. Len(s) /\ (Separated(s) /\ final => HourDigits(s) = 2)
      BY <2>2
    <3> HIDE DEF s, c
    <3>2. TimeText(s, c, final) = [text |-> s, caret |-> c]
      BY <3>1, ShapeStays
    <3> QED BY <3>2 DEF s, c
  <2> QED BY <2>2, <2>3, <2>4
<1> QED BY <1>1, PTL
=============================================================================
