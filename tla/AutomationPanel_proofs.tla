---------------------- MODULE AutomationPanel_proofs ----------------------
(***************************************************************************)
(* What AutomationPanel does for every set of rule IDs, every file and     *)
(* every bound: its state stays sound, no accepted save touches a rule it  *)
(* was not made for, no news take away what the user has typed, and the    *)
(* windows block each other as ModalTree demands.                          *)
(***************************************************************************)
EXTENDS AutomationPanel, TLAPS, FiniteSetTheorems, WellFoundedInduction
-----------------------------------------------------------------------------
(* The inductive invariant *)

Lists     == Seq(Rules)
Files     == [rules : Lists, other : {0, 1}]
Snapshots == [rules : Lists, other : {0, 1}, owner : 0..MaxControls + 1]
Closures  == [kind : {"update", "show"}, state : Snapshots]
                \cup [kind : {"toggle", "control", "automation"}]
Boxes     == [kind : {"none", "discard", "details"}]
                \cup [kind : {"delete"}, index : Nat, id : Ids]
Reasons   == {"toggle", "delete", "edit"}
Savings   == [kind : {"none"}]
                \cup [kind : {"asked"}, what : Reasons, id : Ids, rules : Lists, base : Files]
                \cup [kind : {"answered"}, ok : BOOLEAN, what : Reasons, id : Ids, state : Snapshots]
Views     == {"none", "manager", "editor", "crashed"}
Open      == {"manager", "editor"}

LoopTypes ==
    /\ store \in Files /\ runnerOwes \in BOOLEAN
    /\ posts \in Seq(Closures) /\ Len(posts) <= MaxPosts
    /\ asked \in SUBSET {"manager", "control"} /\ saving \in Savings
    /\ outside \in Nat /\ saves \in Nat /\ opened \in 0..MaxControls

PanelTypes ==
    /\ control \in 0..MaxControls + 1 /\ controlOn \in BOOLEAN
    /\ view \in Views /\ panelOn \in BOOLEAN /\ ownerOff \in BOOLEAN
    /\ state \in Snapshots \cup {None} /\ pending \in Snapshots \cup {None}
    /\ editing \in Nat /\ draft \in Rules /\ original \in Rules
    /\ row \in Nat /\ selected \in SUBSET Ids
    /\ box \in Boxes /\ picker \in BOOLEAN /\ shown \in SUBSET Open

\* What a view shows belongs to the state it was given
ViewSound ==
    /\ view \in Open => state \in Snapshots
    /\ view = "editor" => shown = {"editor"} /\ editing \in 0..Len(state.rules)
    /\ view = "manager" => "manager" \in shown /\ row \in 0..Len(state.rules)
    /\ view \notin Open => shown = {}

\* The draft has the ID of the rule it will replace
DraftSound ==
    view = "editor" /\ editing \in DOMAIN state.rules => state.rules[editing].id = draft.id

\* Who is blocked by whom
Blocking ==
    /\ panelOn <=> view \in Open /\ box = None /\ ~picker
    /\ box # None \/ picker => view \in Open
    /\ box = None \/ ~picker
    /\ box.kind = "delete" => view = "manager"
    /\ ownerOff => view \in Open /\ control # 0
    /\ controlOn <=> control # 0 /\ ~ownerOff

\* What the UI thread asks to be saved differs from its base in one rule
AskedSound ==
    saving.kind = "asked" /\ saving.what # "delete" =>
        \A id \in Ids \ {saving.id} : RulesOf(saving.rules, id) = RulesOf(saving.base.rules, id)

IInv == LoopTypes /\ PanelTypes /\ ViewSound /\ DraftSound /\ Blocking /\ AskedSound
-----------------------------------------------------------------------------
(* Records and sequences *)

\* The constants, one by one.
LEMMA Constants ==
  /\ Ids # {} /\ MaxPosts \in Nat /\ MaxOutside \in Nat /\ MaxSaves \in Nat
  /\ MaxControls \in Nat /\ \A rules \in FileRules : rules \in Lists
BY PanelAssumption DEF Lists

\* What a rule becomes on its way through the editor is still a rule.
LEMMA RuleFacts ==
  /\ NoRule \in Rules
  /\ \A id \in Ids : Blank(id) \in Rules /\ Blank(id).id = id
  /\ \A rule \in Rules : ReadBack(rule) \in Rules /\ ReadBack(rule).id = rule.id
  /\ \A rule \in Rules, body \in Bodies :
        [rule EXCEPT !.body = body] \in Rules /\ [rule EXCEPT !.body = body].id = rule.id
  /\ \A rule \in Rules : rule.id \in Ids
<1>1. NoRule \in Rules
  BY Constants DEF NoRule, Blank, Rules, Bodies
<1>2. \A id \in Ids : Blank(id) \in Rules /\ Blank(id).id = id
  BY DEF Blank, Rules, Bodies
<1>3. \A rule \in Rules, body \in Bodies :
        [rule EXCEPT !.body = body] \in Rules /\ [rule EXCEPT !.body = body].id = rule.id
  BY DEF Rules
<1>4. \A rule \in Rules : rule.id \in Ids
  BY DEF Rules
<1>5. \A rule \in Rules : ReadBack(rule) \in Rules /\ ReadBack(rule).id = rule.id
  BY <1>3 DEF ReadBack, Bodies
<1> QED BY <1>1, <1>2, <1>3, <1>4, <1>5

\* The states and files, and their difference from None.
LEMMA StateFacts ==
  /\ \A s \in Snapshots : s.rules \in Lists /\ s.other \in {0, 1}
        /\ s.owner \in 0..MaxControls + 1 /\ s # None /\ Revision(s) \in Files
  /\ \A s \in Files : s.rules \in Lists /\ s.other \in {0, 1} /\ Revision(s) = s
  /\ \A r \in Lists, o \in {0, 1} : [rules |-> r, other |-> o] \in Files
  /\ \A s \in Files : control \in 0..MaxControls + 1 => Snapshot(s) \in Snapshots
<1>1. \A s \in Snapshots : s.rules \in Lists /\ s.other \in {0, 1}
        /\ s.owner \in 0..MaxControls + 1 /\ Revision(s) \in Files
  BY DEF Snapshots, Revision, Files
<1>2. \A s \in Snapshots : s # None
  <2>1. \A s \in Snapshots : DOMAIN s = {"rules", "other", "owner"}
    BY DEF Snapshots
  <2>2. DOMAIN None = {"kind"}
    BY DEF None
  <2> QED BY <2>1, <2>2
<1>3. \A s \in Files : s.rules \in Lists /\ s.other \in {0, 1} /\ Revision(s) = s
  BY DEF Files, Revision
<1>4. \A r \in Lists, o \in {0, 1} : [rules |-> r, other |-> o] \in Files
  BY DEF Files
<1>5. \A s \in Files : control \in 0..MaxControls + 1 => Snapshot(s) \in Snapshots
  BY <1>3 DEF Snapshots, Snapshot
<1> QED BY <1>1, <1>2, <1>3, <1>4, <1>5

\* A list of rules.
LEMMA ListFacts ==
  ASSUME NEW rules \in Lists
  PROVE  /\ Len(rules) \in Nat /\ DOMAIN rules = 1..Len(rules)
         /\ \A i \in DOMAIN rules : i \in Nat /\ i \in 0..Len(rules) /\ rules[i] \in Rules
               /\ rules[i].id \in Ids
         /\ rules # <<>> => 1 \in DOMAIN rules
<1>1. /\ Len(rules) \in Nat /\ DOMAIN rules = 1..Len(rules)
      /\ \A i \in DOMAIN rules : i \in Nat /\ i \in 0..Len(rules) /\ rules[i] \in Rules
      /\ rules # <<>> => 1 \in DOMAIN rules
  BY DEF Lists
<1> QED BY <1>1, RuleFacts

\* A set of numbers has a first one.
LEMMA FirstIsIn ==
  ASSUME NEW S, S \subseteq Nat, S # {}
  PROVE  First(S) \in S
<1>1. PICK R : IsWellFoundedOn(R, Nat) /\ \A x, y \in Nat : <<x, y>> \in R <=> x < y
  <2>1. \A x, y \in Nat : <<x, y>> \in OpToRel(<, Nat) <=> x < y
    BY DEF OpToRel
  <2> QED BY <2>1, NatLessThanWellFounded
<1>2. PICK x \in S : \A y \in S : ~(<<y, x>> \in R)
  <2>1. IsWellFoundedOn(R, Nat)
    BY <1>1
  <2> QED BY <2>1, WFMin, Zenon
<1>3. \A y \in S : x <= y
  <2>1. ASSUME NEW y \in S PROVE x <= y
    <3>1. x \in Nat /\ y \in Nat /\ ~(<<y, x>> \in R)
      BY <1>2
    <3>2. ~(y < x)
      BY <1>1, <3>1
    <3> QED BY <3>1, <3>2
  <2> QED BY <2>1
<1> QED BY <1>3 DEF First

\* The rules with one of the IDs are rules of the list, the first one too.
LEMMA IndexFacts ==
  ASSUME NEW rules \in Lists, NEW ids
  PROVE  /\ IndexOf(rules, ids) \subseteq DOMAIN rules
         /\ IndexOf(rules, ids) # {} =>
               /\ First(IndexOf(rules, ids)) \in DOMAIN rules
               /\ rules[First(IndexOf(rules, ids))].id \in ids
<1>1. IndexOf(rules, ids) \subseteq DOMAIN rules /\ IndexOf(rules, ids) \subseteq Nat
  BY ListFacts DEF IndexOf
<1>2. IndexOf(rules, ids) # {} => First(IndexOf(rules, ids)) \in IndexOf(rules, ids)
  BY <1>1, FirstIsIn
<1> QED BY <1>1, <1>2 DEF IndexOf

\* Filling the list selects one of its rules, or none of an empty one.
LEMMA PopulateFacts ==
  ASSUME NEW rules \in Lists, selected \in SUBSET Ids, Populate(rules)
  PROVE  row' \in 0..Len(rules) /\ row' \in Nat /\ selected' \in SUBSET Ids
<1> DEFINE wanted == IF row \in DOMAIN rules THEN {rules[row].id} ELSE selected
<1> DEFINE found == IndexOf(rules, wanted)
<1>1. PickRow(rules) = IF found # {} THEN First(found) ELSE IF rules = <<>> THEN 0 ELSE 1
  BY DEF PickRow
<1>2. found # {} => First(found) \in DOMAIN rules
  BY IndexFacts
<1> HIDE DEF found
<1>3. PickRow(rules) \in 0..Len(rules) /\ (rules # <<>> => PickRow(rules) \in DOMAIN rules)
  <2>1. found # {} => rules # <<>>
    BY <1>2
  <2> QED BY <1>1, <1>2, <2>1, ListFacts
<1>4. row' \in 0..Len(rules) /\ row' \in Nat
  BY <1>3, ListFacts DEF Populate
<1>5. selected' \in SUBSET Ids
  BY <1>3, ListFacts DEF Populate
<1> QED BY <1>4, <1>5

\* What is posted, asked and shown.
LEMMA MessageFacts ==
  /\ \A s \in Snapshots, k \in {"update", "show"} : [kind |-> k, state |-> s] \in Closures
  /\ \A k \in {"toggle", "control", "automation"} : [kind |-> k] \in Closures
  /\ \A c \in Closures : c.kind \in {"update", "show", "toggle", "control", "automation"}
  /\ \A c \in Closures : c.kind \in {"update", "show"} => c.state \in Snapshots
  /\ None \in Boxes /\ None.kind = "none"
  /\ \A b \in Boxes : b.kind \in {"none", "delete", "discard", "details"}
  /\ \A b \in Boxes : b.kind = "none" <=> b = None
  /\ \A b \in Boxes : b.kind = "delete" => b.index \in Nat /\ b.id \in Ids
  /\ \A k \in {"none", "discard", "details"} : [kind |-> k] \in Boxes
  /\ \A i \in Nat, id \in Ids : [kind |-> "delete", index |-> i, id |-> id] \in Boxes
BY DEF Closures, Boxes, None

\* A save and its answer.
LEMMA SavingFacts ==
  /\ [kind |-> "none"] \in Savings
  /\ \A s \in Savings : s.kind \in {"none", "asked", "answered"}
  /\ \A s \in Savings : s.kind = "asked" =>
        s.what \in Reasons /\ s.id \in Ids /\ s.rules \in Lists /\ s.base \in Files
  /\ \A s \in Savings : s.kind = "answered" =>
        s.ok \in BOOLEAN /\ s.what \in Reasons /\ s.id \in Ids /\ s.state \in Snapshots
  /\ \A w \in Reasons, id \in Ids, r \in Lists, b \in Files :
        [kind |-> "asked", what |-> w, id |-> id, rules |-> r, base |-> b] \in Savings
  /\ \A ok \in BOOLEAN, w \in Reasons, id \in Ids, s \in Snapshots :
        [kind |-> "answered", ok |-> ok, what |-> w, id |-> id, state |-> s] \in Savings
BY DEF Savings

\* Replacing, adding or removing a rule makes a list again.
LEMMA ListSteps ==
  ASSUME NEW rules \in Lists
  PROVE  /\ \A rule \in Rules : Append(rules, rule) \in Lists
         /\ \A i \in DOMAIN rules :
               /\ \A rule \in Rules : [rules EXCEPT ![i] = rule] \in Lists
               /\ RemoveAt(rules, i) \in Lists
               /\ [rules EXCEPT ![i].on = ~@] \in Lists
               /\ [rules EXCEPT ![i].on = FALSE] \in Lists
<1>1. \A rule \in Rules : Append(rules, rule) \in Lists
  BY DEF Lists
<1>2. ASSUME NEW i \in DOMAIN rules
      PROVE  /\ \A rule \in Rules : [rules EXCEPT ![i] = rule] \in Lists
             /\ RemoveAt(rules, i) \in Lists
             /\ [rules EXCEPT ![i].on = ~@] \in Lists
             /\ [rules EXCEPT ![i].on = FALSE] \in Lists
  <2>1. \A rule \in Rules : [rules EXCEPT ![i] = rule] \in Lists
    BY DEF Lists
  <2>2. RemoveAt(rules, i) \in Lists
    <3>1. SubSeq(rules, 1, i - 1) \in Seq(Rules) /\ SubSeq(rules, i + 1, Len(rules)) \in Seq(Rules)
      BY DEF Lists
    <3> QED BY <3>1 DEF RemoveAt, Lists
  <2>3. rules[i] \in Rules
    BY ListFacts
  <2>4. \A b \in BOOLEAN : [rules[i] EXCEPT !.on = b] \in Rules
    BY <2>3 DEF Rules
  <2>5. [rules[i] EXCEPT !.on = ~@] \in Rules
    <3>1. CASE rules[i].on = TRUE
      <4>1. [rules[i] EXCEPT !.on = ~@] = [rules[i] EXCEPT !.on = FALSE]
        BY <3>1
      <4> QED BY <2>4, <4>1
    <3>2. CASE rules[i].on = FALSE
      <4>1. [rules[i] EXCEPT !.on = ~@] = [rules[i] EXCEPT !.on = TRUE]
        BY <3>2
      <4> QED BY <2>4, <4>1
    <3>3. rules[i].on \in BOOLEAN
      BY <2>3 DEF Rules
    <3> QED BY <3>1, <3>2, <3>3
  <2>6. [rules EXCEPT ![i].on = ~@] = [rules EXCEPT ![i] = [rules[i] EXCEPT !.on = ~@]]
    OBVIOUS
  <2>7. [rules EXCEPT ![i].on = FALSE] = [rules EXCEPT ![i] = [rules[i] EXCEPT !.on = FALSE]]
    OBVIOUS
  <2>8. [rules EXCEPT ![i].on = ~@] \in Lists
    BY <2>1, <2>5, <2>6
  <2>9. [rules EXCEPT ![i].on = FALSE] \in Lists
    BY <2>1, <2>4, <2>7
  <2> QED BY <2>1, <2>2, <2>8, <2>9
<1> QED BY <1>1, <1>2

\* A list that differs in one place, and not in its ID, differs in one rule.
LEMMA OneRuleDiffers ==
  ASSUME NEW rules \in Lists, NEW new \in Lists, NEW i \in DOMAIN rules,
         DOMAIN new = DOMAIN rules, new[i].id = rules[i].id,
         \A j \in DOMAIN rules \ {i} : new[j] = rules[j]
  PROVE  \A id \in Ids \ {rules[i].id} : RulesOf(new, id) = RulesOf(rules, id)
<1>1. ASSUME NEW id \in Ids \ {rules[i].id} PROVE IndexOf(new, {id}) = IndexOf(rules, {id})
  BY <1>1 DEF IndexOf
<1>2. ASSUME NEW id \in Ids \ {rules[i].id}, NEW j \in IndexOf(rules, {id})
      PROVE  new[j] = rules[j]
  BY <1>2 DEF IndexOf
<1> QED BY <1>1, <1>2, Zenon DEF RulesOf

\* A longer list has one rule more.
LEMMA OneRuleMore ==
  ASSUME NEW rules \in Lists, NEW rule \in Rules
  PROVE  \A id \in Ids \ {rule.id} : RulesOf(Append(rules, rule), id) = RulesOf(rules, id)
<1> DEFINE new == Append(rules, rule)
<1>1. /\ DOMAIN rules = 1..Len(rules) /\ Len(rules) \in Nat
      /\ DOMAIN new = 1..Len(rules) + 1 /\ new[Len(rules) + 1] = rule
      /\ \A j \in DOMAIN rules : new[j] = rules[j]
  BY DEF Lists
<1> HIDE DEF new
<1>2. ASSUME NEW id \in Ids \ {rule.id} PROVE IndexOf(new, {id}) = IndexOf(rules, {id})
  <2>1. \A j \in DOMAIN new : j \in DOMAIN rules \/ j = Len(rules) + 1
    BY <1>1
  <2>2. DOMAIN rules \subseteq DOMAIN new
    BY <1>1
  <2> QED BY <1>1, <2>1, <2>2 DEF IndexOf
<1>3. ASSUME NEW id \in Ids \ {rule.id}, NEW j \in IndexOf(rules, {id})
      PROVE  new[j] = rules[j]
  BY <1>1 DEF IndexOf
<1>4. \A id \in Ids \ {rule.id} : RulesOf(new, id) = RulesOf(rules, id)
  BY <1>2, <1>3, Zenon DEF RulesOf
<1> QED BY <1>4 DEF new

\* What is posted comes behind what is there.
LEMMA PostFacts ==
  ASSUME NEW closures \in Seq(Closures), LoopTypes, Post(closures)
  PROVE  posts' \in Seq(Closures) /\ Len(posts') <= MaxPosts
BY Constants DEF LoopTypes, Post

\* The rest of the queue.
LEMMA TailFacts ==
  ASSUME LoopTypes, posts # <<>>
  PROVE  /\ Head(posts) \in Closures /\ Tail(posts) \in Seq(Closures)
         /\ Len(Tail(posts)) <= MaxPosts
BY Constants DEF LoopTypes
-----------------------------------------------------------------------------
(* The request loop *)

\* It leaves the window alone.
LEMMA WindowStays ==
  ASSUME IInv, UNCHANGED ui
  PROVE  PanelTypes' /\ ViewSound' /\ DraftSound' /\ Blocking'
<1>1. UNCHANGED <<control, view, panelOn, ownerOff, controlOn, state, pending, editing, draft,
                  original, row, selected, box, picker, shown>>
  BY DEF ui, window, data, form, list, extras
<1>2. PanelTypes'
  BY <1>1 DEF IInv, PanelTypes
<1>3. ViewSound'
  BY <1>1 DEF IInv, ViewSound
<1>4. DraftSound'
  BY <1>1 DEF IInv, DraftSound
<1>5. Blocking'
  BY <1>1 DEF IInv, Blocking
<1> QED BY <1>2, <1>3, <1>4, <1>5

\* A save that waits is still sound as long as nobody answers it.
LEMMA AskedStays ==
  ASSUME AskedSound, UNCHANGED saving
  PROVE  AskedSound'
BY DEF AskedSound

\* What reloadConfig does to the loop.
LEMMA ReloadedFacts ==
  ASSUME IInv, NEW s \in Files, Reloaded(s)
  PROVE  /\ store' = s /\ runnerOwes' \in BOOLEAN /\ outside' \in Nat
         /\ posts' \in Seq(Closures) /\ Len(posts') <= MaxPosts
<1>1. control \in 0..MaxControls + 1 /\ LoopTypes
  BY DEF IInv, PanelTypes
<1>2. Update(s) \in Closures /\ Hide("automation") \in Closures /\ Hide("control") \in Closures
  BY <1>1, StateFacts, MessageFacts DEF Update, Hide
<1>3. PICK text \in {Update(s), Hide("automation")} : Post(<<text, Hide("control")>>)
  BY DEF Reloaded
<1>4. <<text, Hide("control")>> \in Seq(Closures)
  BY <1>2, <1>3
<1>5. posts' \in Seq(Closures) /\ Len(posts') <= MaxPosts
  BY <1>1, <1>3, <1>4, PostFacts
<1>6. store' = s /\ runnerOwes' \in BOOLEAN /\ outside' \in Nat
  BY <1>1 DEF Reloaded, LoopTypes
<1> QED BY <1>5, <1>6

\* What the loop tells the window.
LEMMA UpdateFacts ==
  ASSUME IInv, NEW s \in Files
  PROVE  Update(s) \in Closures
<1>1. Snapshot(s) \in Snapshots
  BY StateFacts DEF IInv, PanelTypes
<1> QED BY <1>1, MessageFacts DEF Update

\* A reload only posts to the window.
LEMMA ReloadStep == IInv /\ Reload => IInv'
<1> SUFFICES ASSUME IInv, Reload PROVE IInv'
  OBVIOUS
<1>1. PICK rules \in FileRules, other \in {0, 1} : Reloaded([rules |-> rules, other |-> other])
  BY DEF Reload
<1>2. [rules |-> rules, other |-> other] \in Files
  BY Constants, StateFacts
<1>3. UNCHANGED ui /\ UNCHANGED <<asked, saving, saves, opened>>
  BY DEF Reload
<1>4. /\ store' \in Files /\ runnerOwes' \in BOOLEAN /\ outside' \in Nat
      /\ posts' \in Seq(Closures) /\ Len(posts') <= MaxPosts
  BY <1>1, <1>2, ReloadedFacts
<1>5. LoopTypes'
  BY <1>3, <1>4 DEF IInv, LoopTypes
<1>6. AskedSound'
  BY <1>3, AskedStays DEF IInv
<1> QED BY <1>3, <1>5, <1>6, WindowStays DEF IInv

\* Another setting does not touch the rules.
LEMMA SaveSettingStep == IInv /\ SaveSetting => IInv'
<1> SUFFICES ASSUME IInv, SaveSetting PROVE IInv'
  OBVIOUS
<1>1. /\ UNCHANGED ui /\ UNCHANGED <<posts, runnerOwes, asked, saving, saves, opened>>
      /\ outside' = outside + 1 /\ store' = [store EXCEPT !.other = 1 - @]
  BY DEF SaveSetting
<1>2. store' \in Files
  BY <1>1 DEF IInv, LoopTypes, Files
<1>3. LoopTypes'
  BY <1>1, <1>2 DEF IInv, LoopTypes
<1>4. AskedSound'
  BY <1>1, AskedStays DEF IInv
<1> QED BY <1>1, <1>3, <1>4, WindowStays DEF IInv

\* A one-time rule that is over is switched off in the store.
LEMMA FinishStep == IInv /\ FinishOneTimeRule => IInv'
<1> SUFFICES ASSUME IInv, FinishOneTimeRule PROVE IInv'
  OBVIOUS
<1>1. PICK i \in DOMAIN store.rules :
        store' = [store EXCEPT !.rules[i].on = FALSE] /\ Post(<<Update(store')>>)
  BY DEF FinishOneTimeRule
<1>2. /\ UNCHANGED ui /\ UNCHANGED <<runnerOwes, asked, saving, saves, opened>>
      /\ outside' = outside + 1
  BY DEF FinishOneTimeRule
<1>3. store' \in Files
  <2>1. store \in Files /\ store.rules \in Lists
    BY StateFacts DEF IInv, LoopTypes
  <2>2. [store.rules EXCEPT ![i].on = FALSE] \in Lists
    BY <2>1, ListSteps
  <2>3. store' = [store EXCEPT !.rules = [store.rules EXCEPT ![i].on = FALSE]]
    BY <1>1
  <2> QED BY <2>1, <2>2, <2>3 DEF Files
<1>4. posts' \in Seq(Closures) /\ Len(posts') <= MaxPosts
  <2>1. PICK s \in Files : s = store'
    BY <1>3
  <2>2. Post(<<Update(s)>>)
    BY <1>1, <2>1 DEF Update, Snapshot
  <2>3. Update(s) \in Closures
    BY UpdateFacts
  <2>4. <<Update(s)>> \in Seq(Closures)
    BY <2>3
  <2> QED BY <2>2, <2>4, PostFacts DEF IInv
<1>5. LoopTypes'
  BY <1>2, <1>3, <1>4 DEF IInv, LoopTypes
<1>6. AskedSound'
  BY <1>2, AskedStays DEF IInv
<1> QED BY <1>2, <1>5, <1>6, WindowStays DEF IInv

\* The runner's first state only posts.
LEMMA RunnerStateStep == IInv /\ RunnerState => IInv'
<1> SUFFICES ASSUME IInv, RunnerState PROVE IInv'
  OBVIOUS
<1>1. /\ UNCHANGED ui /\ UNCHANGED <<store, asked, saving, outside, saves, opened>>
      /\ runnerOwes' = FALSE /\ Post(<<Update(store)>>)
  BY DEF RunnerState, counts
<1>2. <<Update(store)>> \in Seq(Closures)
  <2>1. Update(store) \in Closures
    BY UpdateFacts DEF IInv, LoopTypes
  <2> QED BY <2>1
<1>3. posts' \in Seq(Closures) /\ Len(posts') <= MaxPosts
  BY <1>1, <1>2, PostFacts DEF IInv
<1>4. LoopTypes'
  BY <1>1, <1>3 DEF IInv, LoopTypes
<1>5. AskedSound'
  BY <1>1, AskedStays DEF IInv
<1> QED BY <1>1, <1>4, <1>5, WindowStays DEF IInv

\* A click that has reached the loop only posts.
LEMMA HandleClickStep == IInv /\ HandleClick => IInv'
<1> SUFFICES ASSUME IInv, HandleClick PROVE IInv'
  OBVIOUS
<1>1. PICK what \in asked :
        /\ asked' = asked \ {what}
        /\ Post(<<IF what = "manager" THEN [kind |-> "show", state |-> Snapshot(store)]
                                      ELSE [kind |-> "toggle"]>>)
  BY DEF HandleClick
<1>2. UNCHANGED ui /\ UNCHANGED <<store, runnerOwes, saving, outside, saves, opened>>
  BY DEF HandleClick, loop, counts
<1>3. PICK c \in Closures : Post(<<c>>)
  <2>1. Snapshot(store) \in Snapshots
    BY StateFacts DEF IInv, LoopTypes, PanelTypes
  <2> QED BY <1>1, <2>1, MessageFacts
<1>4. posts' \in Seq(Closures) /\ Len(posts') <= MaxPosts
  <2>1. <<c>> \in Seq(Closures)
    OBVIOUS
  <2> QED BY <1>3, <2>1, PostFacts DEF IInv
<1>5. LoopTypes'
  BY <1>1, <1>2, <1>4 DEF IInv, LoopTypes
<1>6. AskedSound'
  BY <1>2, AskedStays DEF IInv
<1> QED BY <1>2, <1>5, <1>6, WindowStays DEF IInv

\* An answer carries the state of the store as it is then.
LEMMA AnswerFacts ==
  ASSUME IInv, saving.kind = "asked", store' \in Files, UNCHANGED control,
         NEW ok \in BOOLEAN, saving' = Answer(ok)
  PROVE  saving' \in Savings /\ saving'.kind = "answered" /\ saving'.ok = ok
<1>1. saving.what \in Reasons /\ saving.id \in Ids
  BY SavingFacts DEF IInv, LoopTypes
<1>2. PICK s \in Snapshots : s = Snapshot(store')
  BY StateFacts DEF IInv, PanelTypes, Snapshot
<1>3. saving' = [kind |-> "answered", ok |-> ok, what |-> saving.what, id |-> saving.id, state |-> s]
  BY <1>2 DEF Answer
<1> QED BY <1>1, <1>3, SavingFacts

\* A refused save leaves the store alone.
LEMMA RefuseSaveStep == IInv /\ RefuseSave => IInv'
<1> SUFFICES ASSUME IInv, RefuseSave PROVE IInv'
  OBVIOUS
<1>1. /\ UNCHANGED ui /\ UNCHANGED <<store, posts, runnerOwes, asked, outside, saves, opened>>
      /\ saving.kind = "asked" /\ saving' = Answer(FALSE)
  BY DEF RefuseSave, counts
<1>2. store' \in Files /\ UNCHANGED control
  BY <1>1 DEF IInv, LoopTypes, ui
<1>3. saving' \in Savings /\ saving'.kind = "answered"
  BY <1>1, <1>2, AnswerFacts
<1>4. LoopTypes'
  BY <1>1, <1>3 DEF IInv, LoopTypes
<1>5. AskedSound'
  BY <1>3 DEF AskedSound
<1> QED BY <1>1, <1>4, <1>5, WindowStays DEF IInv

\* A save that finds another file loads it.
LEMMA SaveMeetsEditStep == IInv /\ SaveMeetsEdit => IInv'
<1> SUFFICES ASSUME IInv, SaveMeetsEdit PROVE IInv'
  OBVIOUS
<1>1. /\ UNCHANGED ui /\ UNCHANGED <<asked, saves, opened>>
      /\ saving.kind = "asked" /\ saving' = Answer(FALSE)
  BY DEF SaveMeetsEdit
<1>2. PICK rules \in FileRules : Reloaded([rules |-> rules, other |-> store.other])
  BY DEF SaveMeetsEdit
<1>3. [rules |-> rules, other |-> store.other] \in Files
  BY Constants, StateFacts DEF IInv, LoopTypes
<1>4. /\ store' \in Files /\ runnerOwes' \in BOOLEAN /\ outside' \in Nat
      /\ posts' \in Seq(Closures) /\ Len(posts') <= MaxPosts
  BY <1>2, <1>3, ReloadedFacts
<1>5. UNCHANGED control
  BY <1>1 DEF ui
<1>6. saving' \in Savings /\ saving'.kind = "answered"
  BY <1>1, <1>4, <1>5, AnswerFacts
<1>7. LoopTypes'
  BY <1>1, <1>4, <1>6 DEF IInv, LoopTypes
<1>8. AskedSound'
  BY <1>6 DEF AskedSound
<1> QED BY <1>1, <1>7, <1>8, WindowStays DEF IInv

\* An accepted save puts its rules into the store.
LEMMA DoSaveStep == IInv /\ DoSave => IInv'
<1> SUFFICES ASSUME IInv, DoSave PROVE IInv'
  OBVIOUS
<1>1. /\ UNCHANGED ui /\ UNCHANGED <<posts, asked, outside, saves, opened>>
      /\ saving.kind = "asked" /\ saving' = Answer(TRUE)
      /\ store' = [store EXCEPT !.rules = saving.rules] /\ runnerOwes' = (saving.rules # <<>>)
  BY DEF DoSave, counts
<1>2. store' \in Files
  BY <1>1, SavingFacts DEF IInv, LoopTypes, Files
<1>3. UNCHANGED control
  BY <1>1 DEF ui
<1>4. saving' \in Savings /\ saving'.kind = "answered"
  BY <1>1, <1>2, <1>3, AnswerFacts
<1>5. runnerOwes' \in BOOLEAN
  BY <1>1
<1>6. LoopTypes'
  BY <1>1, <1>2, <1>4, <1>5 DEF IInv, LoopTypes
<1>7. AskedSound'
  BY <1>4 DEF AskedSound
<1> QED BY <1>1, <1>6, <1>7, WindowStays DEF IInv
-----------------------------------------------------------------------------
(* Posted closures *)

\* The loop's part stays as it is.
LEMMA LoopStays ==
  ASSUME IInv, UNCHANGED <<store, posts, runnerOwes, asked, saving, outside, saves, opened>>
  PROVE  LoopTypes' /\ AskedSound'
<1>1. LoopTypes'
  BY DEF IInv, LoopTypes
<1>2. AskedSound'
  BY AskedStays DEF IInv
<1> QED BY <1>1, <1>2

\* The manager shows a list and forgets what was edited.
LEMMA ManagerFacts ==
  ASSUME NEW rules \in Lists, selected \in SUBSET Ids, ShowManager(rules)
  PROVE  /\ view' = "manager" /\ shown' = {"manager"}
         /\ row' \in 0..Len(rules) /\ row' \in Nat /\ selected' \in SUBSET Ids
         /\ editing' = 0 /\ draft' \in Rules /\ original' \in Rules
BY PopulateFacts, RuleFacts DEF ShowManager

\* A window that is destroyed leaves nothing open and its owner enabled.
LEMMA DestroyedFacts ==
  ASSUME IInv, Destroyed, control' \in 0..MaxControls + 1, controlOn' \in BOOLEAN,
         controlOn' <=> control' # 0
  PROVE  PanelTypes' /\ ViewSound' /\ DraftSound' /\ Blocking'
<1>1. /\ view' = "none" /\ shown' = {} /\ panelOn' = FALSE /\ ownerOff' = FALSE
      /\ box' = None /\ picker' = FALSE
      /\ editing' = 0 /\ draft' = NoRule /\ original' = NoRule /\ row' = 0 /\ selected' = {}
      /\ state' = None /\ pending' = None
  BY DEF Destroyed
<1>2. PanelTypes'
  BY <1>1, RuleFacts, MessageFacts DEF PanelTypes, Views
<1>3. ViewSound' /\ DraftSound'
  BY <1>1 DEF ViewSound, DraftSound, Open
<1>4. Blocking'
  BY <1>1, MessageFacts DEF Blocking, Open
<1> QED BY <1>2, <1>3, <1>4

\* The panel's window is destroyed, or was not there.
LEMMA DestroyPanelFacts ==
  ASSUME IInv, view # "crashed", DestroyPanel, UNCHANGED control
  PROVE  PanelTypes' /\ ViewSound' /\ DraftSound' /\ Blocking'
<1>1. CASE view = "none"
  <2>1. UNCHANGED ui
    BY <1>1 DEF DestroyPanel, ui, window, data, form, list, extras
  <2> QED BY <2>1, WindowStays
<1>2. CASE view # "none"
  <2>1. Destroyed /\ controlOn' = IF ownerOff THEN TRUE ELSE controlOn
    BY <1>2 DEF DestroyPanel
  <2>2. control' \in 0..MaxControls + 1 /\ controlOn' \in BOOLEAN /\ (controlOn' <=> control' # 0)
    BY <2>1 DEF IInv, PanelTypes, Blocking
  <2> QED BY <2>1, <2>2, DestroyedFacts
<1> QED BY <1>1, <1>2

\* The control panel takes the window it owns with it.
LEMMA DestroyControlFacts ==
  ASSUME IInv, DestroyControl
  PROVE  PanelTypes' /\ ViewSound' /\ DraftSound' /\ Blocking'
<1>1. control' = 0 /\ controlOn' = FALSE /\ 0 \in 0..MaxControls + 1
  BY Constants DEF DestroyControl
<1>2. CASE view # "none" /\ ownerOff
  BY <1>1, <1>2, DestroyedFacts DEF DestroyControl
<1>3. CASE ~(view # "none" /\ ownerOff)
  <2>1. UNCHANGED <<view, panelOn, ownerOff, state, pending, editing, draft, original, row, selected,
                    box, picker, shown>>
    BY <1>3 DEF DestroyControl, data, form, list, extras
  <2>2. ownerOff = FALSE
    BY <1>3 DEF IInv, PanelTypes, Blocking, Open
  <2>3. PanelTypes'
    BY <1>1, <2>1 DEF IInv, PanelTypes
  <2>4. ViewSound' /\ DraftSound'
    BY <2>1 DEF IInv, ViewSound, DraftSound
  <2>5. Blocking'
    BY <1>1, <2>1, <2>2 DEF IInv, Blocking
  <2> QED BY <2>3, <2>4, <2>5
<1> QED BY <1>2, <1>3

\* The editor takes the draft back and keeps it, the manager refreshes its row,
\* and either is shown anew with the news.
LEMMA UpdateStateFacts ==
  ASSUME IInv, view \in Open, NEW new \in Snapshots, UpdateState(new),
         UNCHANGED <<control, controlOn, panelOn, ownerOff, box, picker>>
  PROVE  PanelTypes' /\ ViewSound' /\ DraftSound' /\ Blocking'
<1> USE DEF Open
<1>1. PanelTypes /\ ViewSound /\ DraftSound /\ Blocking /\ state \in Snapshots
  BY DEF IInv, ViewSound
<1>2. state.rules \in Lists /\ new.rules \in Lists /\ selected \in SUBSET Ids
  BY <1>1, StateFacts DEF PanelTypes
<1>3. CASE Revision(new) = Revision(state)
  <2>1. /\ UNCHANGED <<state, pending, editing, draft, original, view, shown>>
        /\ IF view = "manager" THEN Populate(state.rules) ELSE UNCHANGED <<row, selected>>
    BY <1>3 DEF UpdateState, data, form, list
  <2>2. /\ row' \in Nat /\ selected' \in SUBSET Ids
        /\ view = "manager" => row' \in 0..Len(state.rules)
    BY <1>1, <1>2, <2>1, PopulateFacts DEF PanelTypes
  <2>3. PanelTypes'
    BY <1>1, <2>1, <2>2 DEF PanelTypes
  <2>4. ViewSound'
    BY <1>1, <2>1, <2>2 DEF ViewSound
  <2>5. DraftSound' /\ Blocking'
    BY <1>1, <2>1 DEF DraftSound, Blocking
  <2> QED BY <2>3, <2>4, <2>5
<1>4. CASE Revision(new) # Revision(state) /\ view = "editor" /\ ReadBack(draft) # original
  <2>1. /\ pending' = new /\ draft' = ReadBack(draft)
        /\ UNCHANGED <<state, row, selected, editing, original, view, shown>>
    BY <1>4 DEF UpdateState, list
  <2>2. draft' \in Rules /\ draft'.id = draft.id
    BY <1>1, <2>1, RuleFacts DEF PanelTypes
  <2>3. PanelTypes'
    BY <1>1, <2>1, <2>2 DEF PanelTypes
  <2>4. ViewSound'
    BY <1>1, <2>1 DEF ViewSound
  <2>5. DraftSound'
    BY <1>1, <2>1, <2>2 DEF DraftSound
  <2>6. Blocking'
    BY <1>1, <2>1 DEF Blocking
  <2> QED BY <2>3, <2>4, <2>5, <2>6
<1>5. CASE Revision(new) # Revision(state) /\ ~(view = "editor" /\ ReadBack(draft) # original)
  <2> DEFINE ids == IF view = "editor" THEN {draft.id} ELSE {}
  <2> DEFINE here == IndexOf(new.rules, ids)
  <2>1. /\ state' = new /\ pending' = None
        /\ IF here # {} THEN ShowEditor(First(here), new.rules[First(here)]) /\ UNCHANGED list
                        ELSE ShowManager(new.rules)
    BY <1>5 DEF UpdateState
  <2>2. here # {} =>
          /\ First(here) \in DOMAIN new.rules /\ new.rules[First(here)] \in Rules
          /\ First(here) \in Nat /\ First(here) \in 0..Len(new.rules)
          /\ new.rules[First(here)].id \in ids
    BY <1>2, IndexFacts, ListFacts
  <2> HIDE DEF here
  <2>3. CASE here # {}
    <3>1. /\ view' = "editor" /\ shown' = {"editor"} /\ UNCHANGED <<row, selected>>
          /\ editing' = First(here) /\ draft' = new.rules[First(here)] /\ original' = draft'
      BY <2>1, <2>3 DEF ShowEditor, list
    <3>2. view = "editor"
      BY <2>2, <2>3
    <3>3. PanelTypes'
      BY <1>1, <2>1, <2>2, <2>3, <3>1 DEF PanelTypes, Views
    <3>4. ViewSound'
      BY <2>1, <2>2, <2>3, <3>1 DEF ViewSound
    <3>5. DraftSound'
      BY <2>1, <3>1 DEF DraftSound
    <3>6. Blocking'
      BY <1>1, <3>1, <3>2 DEF Blocking
    <3> QED BY <3>3, <3>4, <3>5, <3>6
  <2>4. CASE here = {}
    <3>1. /\ view' = "manager" /\ shown' = {"manager"}
          /\ row' \in 0..Len(new.rules) /\ row' \in Nat /\ selected' \in SUBSET Ids
          /\ editing' = 0 /\ draft' \in Rules /\ original' \in Rules
      BY <1>2, <2>1, <2>4, ManagerFacts
    <3>2. PanelTypes'
      BY <1>1, <2>1, <3>1 DEF PanelTypes, Views
    <3>3. ViewSound'
      BY <2>1, <3>1 DEF ViewSound
    <3>4. DraftSound'
      BY <3>1 DEF DraftSound
    <3>5. Blocking'
      BY <1>1, <3>1 DEF Blocking
    <3> QED BY <3>2, <3>3, <3>4, <3>5
  <2> QED BY <2>3, <2>4
<1> QED BY <1>3, <1>4, <1>5

\* News reach a window or nobody.
LEMMA RunUpdateFacts ==
  ASSUME IInv, view # "crashed", NEW new \in Snapshots, RunUpdate(new)
  PROVE  PanelTypes' /\ ViewSound' /\ DraftSound' /\ Blocking'
<1>1. CASE view = "none"
  <2>1. UNCHANGED ui
    BY <1>1 DEF RunUpdate, ui, window, data, form, list, extras
  <2> QED BY <2>1, WindowStays
<1>2. CASE view # "none"
  <2>1. view \in Open
    BY <1>2 DEF IInv, PanelTypes, Views, Open
  <2>2. /\ UpdateState(new)
        /\ UNCHANGED <<control, controlOn, panelOn, ownerOff, box, picker>>
    BY <1>2 DEF RunUpdate
  <2> QED BY <2>1, <2>2, UpdateStateFacts
<1> QED BY <1>1, <1>2

\* The manager opens over its owner, or not at all.
LEMMA RunShowFacts ==
  ASSUME IInv, NEW new \in Snapshots, RunShow(new)
  PROVE  PanelTypes' /\ ViewSound' /\ DraftSound' /\ Blocking'
<1>1. CASE /\ view = "none" /\ new.owner \in {0, control}
           /\ state' = new /\ pending' = None /\ panelOn' = TRUE
           /\ ownerOff' = (new.owner # 0) /\ controlOn' = (controlOn /\ new.owner = 0)
           /\ ShowManager(new.rules)
           /\ UNCHANGED <<control, box, picker>>
  <2>1. new.rules \in Lists /\ selected \in SUBSET Ids
    BY StateFacts DEF IInv, PanelTypes
  <2>2. /\ view' = "manager" /\ shown' = {"manager"}
        /\ row' \in 0..Len(new.rules) /\ row' \in Nat /\ selected' \in SUBSET Ids
        /\ editing' = 0 /\ draft' \in Rules /\ original' \in Rules
    BY <1>1, <2>1, ManagerFacts
  <2>3. box = None /\ picker = FALSE /\ (controlOn <=> control # 0)
    BY <1>1 DEF IInv, PanelTypes, Blocking, Open
  <2>4. PanelTypes'
    <3>1. ownerOff' \in BOOLEAN /\ controlOn' \in BOOLEAN
      BY <1>1
    <3> QED BY <1>1, <2>2, <3>1 DEF IInv, PanelTypes, Views, Open
  <2>5. ViewSound' /\ DraftSound'
    BY <1>1, <2>2 DEF ViewSound, DraftSound, Open
  <2>6. Blocking'
    BY <1>1, <2>2, <2>3, MessageFacts DEF Blocking, Open
  <2> QED BY <2>4, <2>5, <2>6
<1>2. CASE UNCHANGED <<control, window, data, form, list, extras, shown>>
  BY <1>2, WindowStays DEF ui
<1> QED BY <1>1, <1>2 DEF RunShow

\* The control panel opens, or a second one closes the first.
LEMMA RunControlFacts ==
  ASSUME IInv, RunControl
  PROVE  PanelTypes' /\ ViewSound' /\ DraftSound' /\ Blocking'
<1>1. CASE control # 0
  BY <1>1, DestroyControlFacts DEF RunControl
<1>2. CASE control = 0
  <2>1. /\ \/ control' = opened + 1 /\ controlOn' = TRUE
           \/ UNCHANGED <<control, controlOn>>
        /\ UNCHANGED <<view, panelOn, ownerOff, state, pending, editing, draft, original, row, selected,
                       box, picker, shown>>
    BY <1>2 DEF RunControl, data, form, list, extras
  <2>2. opened + 1 \in 0..MaxControls + 1 /\ opened + 1 # 0
    BY Constants DEF IInv, LoopTypes
  <2>3. ownerOff = FALSE /\ controlOn = FALSE
    BY <1>2 DEF IInv, PanelTypes, Blocking
  <2>4. PanelTypes'
    BY <2>1, <2>2 DEF IInv, PanelTypes
  <2>5. ViewSound' /\ DraftSound'
    BY <2>1 DEF IInv, ViewSound, DraftSound
  <2>6. Blocking'
    BY <1>2, <2>1, <2>2, <2>3 DEF IInv, Blocking
  <2> QED BY <2>4, <2>5, <2>6
<1> QED BY <1>1, <1>2

\* Whatever was posted keeps the invariant.
LEMMA RunPostStep == IInv /\ RunPost => IInv'
<1> SUFFICES ASSUME IInv, RunPost PROVE IInv'
  OBVIOUS
<1>1. /\ posts # <<>> /\ view # "crashed" /\ posts' = Tail(posts)
      /\ UNCHANGED <<store, runnerOwes, asked, saving, outside, saves, opened>>
  BY DEF RunPost, loop, counts
<1>2. /\ Head(posts) \in Closures /\ Tail(posts) \in Seq(Closures)
      /\ Len(Tail(posts)) <= MaxPosts
  BY <1>1, TailFacts DEF IInv
<1>3. LoopTypes'
  BY <1>1, <1>2 DEF IInv, LoopTypes
<1>4. AskedSound'
  BY <1>1, AskedStays DEF IInv
<1>5. PanelTypes' /\ ViewSound' /\ DraftSound' /\ Blocking'
  <2> DEFINE post == Head(posts)
  <2>1. CASE post.kind = "update"
    BY <1>1, <1>2, <2>1, MessageFacts, RunUpdateFacts DEF RunPost
  <2>2. CASE post.kind = "show"
    BY <1>1, <1>2, <2>2, MessageFacts, RunShowFacts DEF RunPost
  <2>3. CASE post.kind = "toggle"
    BY <2>3, RunControlFacts DEF RunPost
  <2>4. CASE post.kind = "automation"
    BY <1>1, <2>4, DestroyPanelFacts DEF RunPost
  <2>5. CASE post.kind = "control"
    BY <2>5, DestroyControlFacts DEF RunPost
  <2> QED BY <1>2, <2>1, <2>2, <2>3, <2>4, <2>5, MessageFacts
<1> QED BY <1>3, <1>4, <1>5 DEF IInv
-----------------------------------------------------------------------------
(* The user *)

\* Clicks outside the window only go to the loop.
LEMMA ClickStep == IInv /\ (ClickTray \/ ClickAutomation) => IInv'
<1> SUFFICES ASSUME IInv, ClickTray \/ ClickAutomation PROVE IInv'
  OBVIOUS
<1>1. /\ UNCHANGED ui /\ UNCHANGED <<store, posts, runnerOwes, saving, outside, saves>>
      /\ asked' \in {asked \cup {"control"}, asked \cup {"manager"}}
      /\ opened' = opened \/ (opened < MaxControls /\ opened' = opened + 1)
  BY DEF ClickTray, ClickAutomation, loop, still, counts
<1>2. asked' \in SUBSET {"manager", "control"}
  BY <1>1 DEF IInv, LoopTypes
<1>3. opened' \in 0..MaxControls
  BY <1>1, Constants DEF IInv, LoopTypes
<1>4. LoopTypes'
  BY <1>1, <1>2, <1>3 DEF IInv, LoopTypes
<1>5. AskedSound'
  BY <1>1, AskedStays DEF IInv
<1> QED BY <1>1, <1>4, <1>5, WindowStays DEF IInv

\* Selecting a row.
LEMMA SelectStep == ASSUME NEW i \in Nat PROVE IInv /\ Select(i) => IInv'
<1> SUFFICES ASSUME IInv, Select(i) PROVE IInv'
  OBVIOUS
<1>1. /\ UNCHANGED <<store, posts, runnerOwes, asked, saving, outside, saves, opened>>
      /\ UNCHANGED <<control, view, panelOn, ownerOff, controlOn, state, pending, editing, draft,
                     original, box, picker, shown>>
      /\ view = "manager" /\ i \in DOMAIN state.rules
      /\ row' = i /\ selected' = {state.rules[i].id}
  BY DEF Select, Takes, still, loop, window, data, form, extras, counts
<1>2. state.rules \in Lists
  BY <1>1, StateFacts DEF IInv, ViewSound, Open
<1>3. row' \in Nat /\ row' \in 0..Len(state.rules) /\ selected' \in SUBSET Ids
  BY <1>1, <1>2, ListFacts
<1>4. PanelTypes'
  BY <1>1, <1>3 DEF IInv, PanelTypes
<1>5. ViewSound'
  BY <1>1, <1>3 DEF IInv, ViewSound
<1>6. DraftSound' /\ Blocking'
  BY <1>1 DEF IInv, DraftSound, Blocking
<1> QED BY <1>1, <1>4, <1>5, <1>6, LoopStays DEF IInv

\* A new rule is edited at no place of the list.
LEMMA EditNewStep == IInv /\ EditNew => IInv'
<1> SUFFICES ASSUME IInv, EditNew PROVE IInv'
  OBVIOUS
<1>1. PICK id \in Ids : ShowEditor(0, Blank(id))
  BY DEF EditNew
<1>2. /\ UNCHANGED <<store, posts, runnerOwes, asked, saving, outside, saves, opened>>
      /\ UNCHANGED <<control, panelOn, ownerOff, controlOn, state, pending, row, selected, box, picker>>
      /\ view = "manager" /\ panelOn
  BY DEF EditNew, Takes, still, loop, data, list, counts
<1>3. /\ view' = "editor" /\ shown' = {"editor"}
      /\ editing' = 0 /\ draft' = Blank(id) /\ original' = Blank(id)
  BY <1>1 DEF ShowEditor
<1>4. state.rules \in Lists /\ state \in Snapshots
  BY <1>2, StateFacts DEF IInv, ViewSound, Open
<1>5. Len(state.rules) \in Nat /\ 0 \notin DOMAIN state.rules
  BY <1>4, ListFacts
<1>6. PanelTypes'
  BY <1>2, <1>3, RuleFacts DEF IInv, PanelTypes, Views, Open
<1>7. ViewSound' /\ DraftSound'
  BY <1>2, <1>3, <1>4, <1>5 DEF ViewSound, DraftSound, Open
<1>8. Blocking'
  BY <1>2, <1>3, MessageFacts DEF IInv, Blocking, Open
<1> QED BY <1>2, <1>6, <1>7, <1>8, LoopStays DEF IInv

\* The selected rule is edited at its place.
LEMMA EditSelectedStep == IInv /\ EditSelected => IInv'
<1> SUFFICES ASSUME IInv, EditSelected PROVE IInv'
  OBVIOUS
<1>1. /\ UNCHANGED <<store, posts, runnerOwes, asked, saving, outside, saves, opened>>
      /\ UNCHANGED <<control, panelOn, ownerOff, controlOn, state, pending, row, box, picker>>
      /\ view = "manager" /\ panelOn /\ row \in DOMAIN state.rules
      /\ view' = "editor" /\ shown' = {"editor"} /\ selected' = {state.rules[row].id}
      /\ editing' = row /\ draft' = state.rules[row] /\ original' = state.rules[row]
  BY DEF EditSelected, ShowEditor, Takes, still, loop, data, counts
<1>2. state.rules \in Lists /\ state \in Snapshots
  BY <1>1, StateFacts DEF IInv, ViewSound, Open
<1>3. row \in Nat /\ row \in 0..Len(state.rules) /\ state.rules[row] \in Rules
      /\ state.rules[row].id \in Ids
  BY <1>1, <1>2, ListFacts
<1>4. PanelTypes'
  BY <1>1, <1>3 DEF IInv, PanelTypes, Views, Open
<1>5. ViewSound' /\ DraftSound'
  BY <1>1, <1>2, <1>3 DEF ViewSound, DraftSound, Open
<1>6. Blocking'
  BY <1>1, MessageFacts DEF IInv, Blocking, Open
<1> QED BY <1>1, <1>4, <1>5, <1>6, LoopStays DEF IInv

\* A save that is asked for differs from the state it was made from in one rule.
LEMMA NotifySaveFacts ==
  ASSUME IInv, state \in Snapshots, NEW rules \in Lists, NEW what \in Reasons, NEW id \in Ids,
         NotifySave(rules, what, id),
         what # "delete" =>
            \A other \in Ids \ {id} : RulesOf(rules, other) = RulesOf(state.rules, other)
  PROVE  LoopTypes' /\ AskedSound'
<1>1. /\ UNCHANGED <<store, posts, runnerOwes, asked, outside, opened>> /\ saves' = saves + 1
      /\ saving' = [kind |-> "asked", what |-> what, id |-> id, rules |-> rules,
                    base |-> Revision(state)]
  BY DEF NotifySave, loop
<1>2. saving' \in Savings
  BY <1>1, StateFacts, SavingFacts
<1>3. LoopTypes'
  BY <1>1, <1>2 DEF IInv, LoopTypes
<1>4. AskedSound'
  BY <1>1 DEF AskedSound, Revision
<1> QED BY <1>3, <1>4

\* Switching a rule asks for a save of that rule.
LEMMA ToggleStep == IInv /\ Toggle => IInv'
<1> SUFFICES ASSUME IInv, Toggle PROVE IInv'
  OBVIOUS
<1> DEFINE new == [state.rules EXCEPT ![row].on = ~@]
<1>1. /\ view = "manager" /\ row \in DOMAIN state.rules
      /\ NotifySave(new, "toggle", state.rules[row].id)
      /\ UNCHANGED <<window, form, list, extras>>
  BY DEF Toggle, Takes
<1>2. state.rules \in Lists /\ state \in Snapshots
  BY <1>1, StateFacts DEF IInv, ViewSound, Open
<1>3. new \in Lists /\ DOMAIN new = DOMAIN state.rules
  BY <1>1, <1>2, ListSteps
<1>4. new[row].id = state.rules[row].id /\ \A j \in DOMAIN state.rules \ {row} : new[j] = state.rules[j]
  BY <1>1, <1>2, ListFacts DEF Rules
<1>5. state.rules[row].id \in Ids
  BY <1>1, <1>2, ListFacts
<1> HIDE DEF new
<1>6. \A other \in Ids \ {state.rules[row].id} : RulesOf(new, other) = RulesOf(state.rules, other)
  BY <1>1, <1>2, <1>3, <1>4, OneRuleDiffers
<1>7. LoopTypes' /\ AskedSound'
  BY <1>1, <1>2, <1>3, <1>5, <1>6, NotifySaveFacts DEF Reasons
<1>8. UNCHANGED ui
  BY <1>1 DEF ui, NotifySave, data
<1> QED BY <1>7, <1>8, WindowStays DEF IInv

\* The question about a deletion blocks the manager.
LEMMA AskDeleteStep == IInv /\ AskDelete => IInv'
<1> SUFFICES ASSUME IInv, AskDelete PROVE IInv'
  OBVIOUS
<1>1. /\ UNCHANGED <<store, posts, runnerOwes, asked, saving, outside, saves, opened>>
      /\ UNCHANGED <<control, view, ownerOff, controlOn, state, pending, editing, draft, original,
                     row, selected, picker, shown>>
      /\ view = "manager" /\ panelOn /\ row \in DOMAIN state.rules /\ panelOn' = FALSE
      /\ box' = [kind |-> "delete", index |-> row, id |-> state.rules[row].id]
  BY DEF AskDelete, Takes, still, loop, data, form, list, counts
<1>2. row \in Nat /\ state.rules[row].id \in Ids
  BY <1>1, StateFacts, ListFacts DEF IInv, ViewSound, Open
<1>3. box' \in Boxes /\ box' # None
  BY <1>1, <1>2, MessageFacts
<1>4. PanelTypes'
  BY <1>1, <1>3 DEF IInv, PanelTypes
<1>5. ViewSound' /\ DraftSound'
  BY <1>1 DEF IInv, ViewSound, DraftSound
<1>6. Blocking'
  BY <1>1, <1>3 DEF IInv, Blocking, Open
<1> QED BY <1>1, <1>4, <1>5, <1>6, LoopStays DEF IInv

\* A confirmed deletion asks for a save, or ends the process.
LEMMA ConfirmDeleteStep == IInv /\ ConfirmDelete => IInv'
<1> SUFFICES ASSUME IInv, ConfirmDelete PROVE IInv'
  OBVIOUS
<1>1. box.kind = "delete" /\ box' = None
  BY DEF ConfirmDelete
<1>2. /\ view = "manager" /\ box # None /\ picker = FALSE /\ state \in Snapshots
      /\ box.index \in Nat /\ box.id \in Ids
  BY <1>1, MessageFacts DEF IInv, PanelTypes, Blocking, ViewSound, Open
<1>3. state.rules \in Lists
  BY <1>2, StateFacts
<1>4. CASE box.index \in DOMAIN state.rules
  <2>1. /\ NotifySave(RemoveAt(state.rules, box.index), "delete", box.id)
        /\ selected' = {} /\ panelOn' = TRUE
        /\ UNCHANGED <<view, ownerOff, controlOn, row, editing, draft, original, picker>>
    BY <1>4 DEF ConfirmDelete, form
  <2>2. LoopTypes' /\ AskedSound'
    BY <1>2, <1>3, <1>4, <2>1, ListSteps, NotifySaveFacts DEF Reasons
  <2>3. UNCHANGED <<control, state, pending, shown>>
    BY <2>1 DEF NotifySave, data
  <2>4. PanelTypes'
    BY <1>1, <2>1, <2>3, MessageFacts DEF IInv, PanelTypes
  <2>5. ViewSound' /\ DraftSound'
    BY <2>1, <2>3 DEF IInv, ViewSound, DraftSound
  <2>6. Blocking'
    BY <1>1, <1>2, <2>1, <2>3, MessageFacts DEF IInv, Blocking, Open
  <2> QED BY <2>2, <2>4, <2>5, <2>6 DEF IInv
<1>5. CASE box.index \notin DOMAIN state.rules
  <2>1. /\ view' = "crashed" /\ control' = 0 /\ controlOn' = FALSE /\ shown' = {}
        /\ panelOn' = FALSE /\ ownerOff' = FALSE
        /\ UNCHANGED <<store, posts, runnerOwes, asked, saving, outside, saves, opened>>
        /\ UNCHANGED <<state, pending, editing, draft, original, row, selected, picker>>
    BY <1>5 DEF ConfirmDelete, still, loop, data, form, list, counts
  <2>2. PanelTypes'
    <3>1. 0 \in 0..MaxControls + 1 /\ None \in Boxes
      BY Constants, MessageFacts
    <3> QED BY <1>1, <2>1, <3>1 DEF IInv, PanelTypes, Views
  <2>3. ViewSound' /\ DraftSound'
    BY <2>1 DEF ViewSound, DraftSound, Open
  <2>4. Blocking'
    BY <1>1, <1>2, <2>1, MessageFacts DEF Blocking, Open
  <2> QED BY <2>1, <2>2, <2>3, <2>4, LoopStays DEF IInv
<1> QED BY <1>4, <1>5

\* Closing the manager, and a display that is lost.
LEMMA DestroyStep == IInv /\ view # "crashed" /\ (CloseManager \/ DpiChanged) => IInv'
<1> SUFFICES ASSUME IInv, view # "crashed", CloseManager \/ DpiChanged PROVE IInv'
  OBVIOUS
<1>1. /\ UNCHANGED <<store, posts, runnerOwes, asked, saving, outside, saves, opened>>
      /\ DestroyPanel /\ UNCHANGED control
  BY DEF CloseManager, DpiChanged, still, loop, counts
<1> QED BY <1>1, LoopStays, DestroyPanelFacts DEF IInv

\* Typing changes the draft and not its ID.
LEMMA TypeStep == ASSUME NEW body \in Bodies PROVE IInv /\ Type(body) => IInv'
<1> SUFFICES ASSUME IInv, Type(body) PROVE IInv'
  OBVIOUS
<1>1. /\ UNCHANGED <<store, posts, runnerOwes, asked, saving, outside, saves, opened>>
      /\ UNCHANGED <<control, view, panelOn, ownerOff, controlOn, state, pending, editing, original,
                     row, selected, box, picker, shown>>
      /\ draft' = [draft EXCEPT !.body = body]
  BY DEF Type, inEditor, still, loop, data, list, counts
<1>2. draft' \in Rules /\ draft'.id = draft.id
  BY <1>1, RuleFacts DEF IInv, PanelTypes
<1>3. PanelTypes'
  BY <1>1, <1>2 DEF IInv, PanelTypes
<1>4. ViewSound' /\ Blocking'
  BY <1>1 DEF IInv, ViewSound, Blocking
<1>5. DraftSound'
  BY <1>1, <1>2 DEF IInv, DraftSound
<1> QED BY <1>1, <1>3, <1>4, <1>5, LoopStays DEF IInv

\* The picker blocks the editor.
LEMMA OpenPickerStep == IInv /\ OpenPicker => IInv'
<1> SUFFICES ASSUME IInv, OpenPicker PROVE IInv'
  OBVIOUS
<1>1. /\ UNCHANGED <<store, posts, runnerOwes, asked, saving, outside, saves, opened>>
      /\ UNCHANGED <<control, view, ownerOff, controlOn, state, pending, editing, original,
                     row, selected, box, shown>>
      /\ view = "editor" /\ panelOn
      /\ draft' = ReadBack(draft) /\ picker' = TRUE /\ panelOn' = FALSE
  BY DEF OpenPicker, Takes, inEditor, still, loop, data, list, counts
<1>2. draft' \in Rules /\ draft'.id = draft.id
  BY <1>1, RuleFacts DEF IInv, PanelTypes
<1>3. PanelTypes'
  BY <1>1, <1>2 DEF IInv, PanelTypes
<1>4. ViewSound'
  BY <1>1 DEF IInv, ViewSound
<1>5. DraftSound'
  BY <1>1, <1>2 DEF IInv, DraftSound
<1>6. Blocking'
  BY <1>1 DEF IInv, Blocking, Open
<1> QED BY <1>1, <1>3, <1>4, <1>5, <1>6, LoopStays DEF IInv

\* The picker gives the input back to whatever is shown by then.
LEMMA ClosePickerStep == ASSUME NEW yes \in BOOLEAN PROVE IInv /\ ClosePicker(yes) => IInv'
<1> SUFFICES ASSUME IInv, ClosePicker(yes) PROVE IInv'
  OBVIOUS
<1>1. /\ UNCHANGED <<store, posts, runnerOwes, asked, saving, outside, saves, opened>>
      /\ UNCHANGED <<control, view, ownerOff, controlOn, state, pending, editing, original,
                     row, selected, box>>
      /\ picker /\ picker' = FALSE /\ panelOn' = TRUE
  BY DEF ClosePicker, still, loop, data, list, counts
<1>2. draft' \in Rules /\ draft'.id = draft.id
  BY RuleFacts DEF ClosePicker, IInv, PanelTypes, Bodies
<1>3. shown' = shown \/ shown' = shown \cup {"editor"}
  BY DEF ClosePicker
<1>4. view \in Open /\ box = None
  BY <1>1 DEF IInv, Blocking
<1>5. PanelTypes'
  BY <1>1, <1>2, <1>3 DEF IInv, PanelTypes, Open
<1>6. ViewSound'
  BY <1>1, <1>3, <1>4 DEF IInv, ViewSound
<1>7. DraftSound'
  BY <1>1, <1>2 DEF IInv, DraftSound
<1>8. Blocking'
  BY <1>1, <1>4 DEF IInv, Blocking
<1> QED BY <1>1, <1>5, <1>6, <1>7, <1>8, LoopStays DEF IInv

\* A box blocks the editor.
LEMMA OpenBoxStep == IInv /\ OpenBox => IInv'
<1> SUFFICES ASSUME IInv, OpenBox PROVE IInv'
  OBVIOUS
<1>1. /\ UNCHANGED <<store, posts, runnerOwes, asked, saving, outside, saves, opened>>
      /\ UNCHANGED <<control, view, ownerOff, controlOn, state, pending, editing, original,
                     row, selected, picker, shown>>
      /\ view = "editor" /\ panelOn /\ panelOn' = FALSE
      /\ draft' \in {draft, ReadBack(draft)}
      /\ box' \in {[kind |-> "discard"], [kind |-> "details"]}
  BY DEF OpenBox, Takes, inEditor, still, loop, data, list, counts
<1>2. draft' \in Rules /\ draft'.id = draft.id
  BY <1>1, RuleFacts DEF IInv, PanelTypes
<1>3. box' \in Boxes /\ box' # None /\ box'.kind # "delete"
  BY <1>1, MessageFacts
<1>4. PanelTypes'
  BY <1>1, <1>2, <1>3 DEF IInv, PanelTypes
<1>5. ViewSound'
  BY <1>1 DEF IInv, ViewSound
<1>6. DraftSound'
  BY <1>1, <1>2 DEF IInv, DraftSound
<1>7. Blocking'
  BY <1>1, <1>3 DEF IInv, Blocking, Open
<1> QED BY <1>1, <1>4, <1>5, <1>6, <1>7, LoopStays DEF IInv

\* A box is closed and changes nothing.
LEMMA KeepStep == IInv /\ Keep => IInv'
<1> SUFFICES ASSUME IInv, Keep PROVE IInv'
  OBVIOUS
<1>1. /\ UNCHANGED <<store, posts, runnerOwes, asked, saving, outside, saves, opened>>
      /\ UNCHANGED <<control, view, ownerOff, controlOn, state, pending, editing, draft, original,
                     row, selected, picker, shown>>
      /\ box # None /\ box' = None /\ panelOn' = TRUE
  BY DEF Keep, inEditor, still, loop, data, form, list, counts
<1>2. view \in Open /\ picker = FALSE
  BY <1>1 DEF IInv, PanelTypes, Blocking
<1>3. PanelTypes'
  BY <1>1, MessageFacts DEF IInv, PanelTypes
<1>4. ViewSound' /\ DraftSound'
  BY <1>1 DEF IInv, ViewSound, DraftSound
<1>5. Blocking'
  BY <1>1, <1>2, MessageFacts DEF IInv, Blocking
<1> QED BY <1>1, <1>3, <1>4, <1>5, LoopStays DEF IInv

\* Leaving the editor accepts what arrived meanwhile.
LEMMA CancelStep == IInv /\ Cancel => IInv'
<1> SUFFICES ASSUME IInv, Cancel PROVE IInv'
  OBVIOUS
<1> DEFINE now == IF pending # None THEN pending ELSE state
<1>1. /\ UNCHANGED <<store, posts, runnerOwes, asked, saving, outside, saves, opened>>
      /\ UNCHANGED <<control, ownerOff, controlOn, picker>>
      /\ view = "editor" /\ (panelOn \/ box.kind = "discard")
      /\ state' = now /\ pending' = None /\ ShowManager(now.rules)
      /\ box' = None /\ panelOn' = TRUE
  BY DEF Cancel, LeaveEditor, Takes, still, loop, counts
<1>2. now \in Snapshots
  BY <1>1 DEF IInv, PanelTypes, ViewSound, Open
<1> HIDE DEF now
<1>3. now.rules \in Lists /\ selected \in SUBSET Ids
  BY <1>2, StateFacts DEF IInv, PanelTypes
<1>4. /\ view' = "manager" /\ shown' = {"manager"}
      /\ row' \in 0..Len(now.rules) /\ row' \in Nat /\ selected' \in SUBSET Ids
      /\ editing' = 0 /\ draft' \in Rules /\ original' \in Rules
  BY <1>1, <1>3, ManagerFacts
<1>5. picker = FALSE
  BY <1>1, MessageFacts DEF IInv, PanelTypes, Blocking
<1>6. PanelTypes'
  <2>1. box' \in Boxes /\ panelOn' \in BOOLEAN /\ state' \in Snapshots /\ pending' = None
    BY <1>1, <1>2, MessageFacts
  <2>2. /\ control' \in 0..MaxControls + 1 /\ controlOn' \in BOOLEAN
        /\ ownerOff' \in BOOLEAN /\ picker' \in BOOLEAN
    BY <1>1 DEF IInv, PanelTypes
  <2> QED BY <1>4, <2>1, <2>2 DEF PanelTypes, Views, Open
<1>7. ViewSound' /\ DraftSound'
  BY <1>1, <1>2, <1>4 DEF ViewSound, DraftSound, Open
<1>8. Blocking'
  BY <1>1, <1>4, <1>5, MessageFacts DEF IInv, Blocking, Open
<1> QED BY <1>1, <1>6, <1>7, <1>8, LoopStays DEF IInv

\* The editor's save replaces the rule with the draft's ID, or adds it.
LEMMA SaveEditorStep == IInv /\ SaveEditor => IInv'
<1> SUFFICES ASSUME IInv, SaveEditor PROVE IInv'
  OBVIOUS
<1> DEFINE rule == ReadBack(draft)
<1> DEFINE new == IF editing \in DOMAIN state.rules THEN [state.rules EXCEPT ![editing] = rule]
                                                     ELSE Append(state.rules, rule)
<1>1. /\ view = "editor" /\ draft' = rule /\ selected' = {rule.id}
      /\ NotifySave(new, "edit", rule.id)
      /\ UNCHANGED <<view, panelOn, ownerOff, controlOn, editing, original, row, box, picker>>
  BY DEF SaveEditor, Takes, window, extras
<1>2. state.rules \in Lists /\ state \in Snapshots
  BY <1>1, StateFacts DEF IInv, ViewSound, Open
<1>3. rule \in Rules /\ rule.id = draft.id /\ rule.id \in Ids
  BY RuleFacts DEF IInv, PanelTypes
<1> HIDE DEF rule
<1>4. new \in Lists
  BY <1>2, <1>3, ListSteps
<1>5. \A other \in Ids \ {rule.id} : RulesOf(new, other) = RulesOf(state.rules, other)
  <2>1. CASE editing \in DOMAIN state.rules
    <3>1. state.rules[editing].id = rule.id
      BY <1>1, <1>3, <2>1 DEF IInv, DraftSound
    <3>2. /\ DOMAIN new = DOMAIN state.rules /\ new[editing] = rule
          /\ \A j \in DOMAIN state.rules \ {editing} : new[j] = state.rules[j]
      BY <1>2, <2>1
    <3> HIDE DEF new
    <3> QED BY <1>2, <1>4, <2>1, <3>1, <3>2, OneRuleDiffers
  <2>2. CASE editing \notin DOMAIN state.rules
    BY <1>2, <1>3, <2>2, OneRuleMore
  <2> QED BY <2>1, <2>2
<1> HIDE DEF new
<1>6. LoopTypes' /\ AskedSound'
  BY <1>1, <1>2, <1>3, <1>4, <1>5, NotifySaveFacts DEF Reasons
<1>7. UNCHANGED <<control, state, pending, shown>>
  BY <1>1 DEF NotifySave, data
<1>8. PanelTypes'
  BY <1>1, <1>3, <1>7 DEF IInv, PanelTypes
<1>9. ViewSound' /\ Blocking'
  BY <1>1, <1>7 DEF IInv, ViewSound, Blocking
<1>10. DraftSound'
  BY <1>1, <1>3, <1>7 DEF IInv, DraftSound
<1> QED BY <1>6, <1>8, <1>9, <1>10 DEF IInv

\* The answer to a save brings the new state or leaves the old one.
LEMMA TakeAnswerStep == IInv /\ TakeAnswer => IInv'
<1> SUFFICES ASSUME IInv, TakeAnswer PROVE IInv'
  OBVIOUS
<1>1. /\ UNCHANGED <<store, posts, runnerOwes, asked, outside, saves, opened>>
      /\ UNCHANGED <<control, panelOn, ownerOff, controlOn, box, picker>>
      /\ saving.kind = "answered" /\ saving' = [kind |-> "none"]
  BY DEF TakeAnswer, loop, counts
<1>2. saving.state \in Snapshots /\ saving' \in Savings
  BY <1>1, SavingFacts DEF IInv, LoopTypes
<1>3. saving.state.rules \in Lists /\ selected \in SUBSET Ids
  BY <1>2, StateFacts DEF IInv, PanelTypes
<1>4. LoopTypes'
  BY <1>1, <1>2 DEF IInv, LoopTypes
<1>5. AskedSound'
  BY <1>1 DEF AskedSound
<1>6. CASE view = "manager"
  <2>1. /\ state' = saving.state /\ pending' = None /\ Populate(saving.state.rules)
        /\ UNCHANGED <<view, shown, editing, draft, original>>
    BY <1>6 DEF TakeAnswer, form
  <2>2. row' \in 0..Len(saving.state.rules) /\ row' \in Nat /\ selected' \in SUBSET Ids
    BY <1>3, <2>1, PopulateFacts
  <2>3. PanelTypes'
    BY <1>1, <1>2, <2>1, <2>2 DEF IInv, PanelTypes
  <2>4. ViewSound' /\ DraftSound'
    BY <1>2, <1>6, <2>1, <2>2 DEF IInv, ViewSound, DraftSound, Open
  <2>5. Blocking'
    BY <1>1, <2>1 DEF IInv, Blocking
  <2> QED BY <1>4, <1>5, <2>3, <2>4, <2>5 DEF IInv
<1>7. CASE view = "editor" /\ saving.ok
  <2>1. state' = saving.state /\ pending' = None /\ ShowManager(saving.state.rules)
    BY <1>7 DEF TakeAnswer
  <2>2. /\ view' = "manager" /\ shown' = {"manager"}
        /\ row' \in 0..Len(saving.state.rules) /\ row' \in Nat /\ selected' \in SUBSET Ids
        /\ editing' = 0 /\ draft' \in Rules /\ original' \in Rules
    BY <1>3, <2>1, ManagerFacts
  <2>3. PanelTypes'
    BY <1>1, <1>2, <2>1, <2>2 DEF IInv, PanelTypes, Views, Open
  <2>4. ViewSound' /\ DraftSound'
    BY <1>2, <2>1, <2>2 DEF ViewSound, DraftSound, Open
  <2>5. Blocking'
    BY <1>1, <1>7, <2>2 DEF IInv, Blocking, Open
  <2> QED BY <1>4, <1>5, <2>3, <2>4, <2>5 DEF IInv
<1>8. CASE view # "manager" /\ ~(view = "editor" /\ saving.ok)
  <2>1. /\ pending' \in {saving.state, pending}
        /\ UNCHANGED <<state, view, shown, row, selected, editing, draft, original>>
    BY <1>8 DEF TakeAnswer, list, form
  <2>2. PanelTypes'
    BY <1>1, <1>2, <2>1 DEF IInv, PanelTypes
  <2>3. ViewSound' /\ DraftSound' /\ Blocking'
    BY <1>1, <2>1 DEF IInv, ViewSound, DraftSound, Blocking
  <2> QED BY <1>4, <1>5, <2>2, <2>3 DEF IInv
<1> QED BY <1>6, <1>7, <1>8
-----------------------------------------------------------------------------
(* The invariant *)

\* The invariant holds at first.
LEMMA InitIInv == Init => IInv
<1> SUFFICES ASSUME Init PROVE IInv
  OBVIOUS
<1>1. PICK rules \in FileRules : store = [rules |-> rules, other |-> 0]
  BY DEF Init
<1>2. store \in Files
  BY <1>1, Constants, StateFacts
<1>3. posts \in Seq(Closures) /\ Len(posts) <= MaxPosts /\ runnerOwes \in BOOLEAN
  BY Constants DEF Init
<1>4. LoopTypes
  BY <1>2, <1>3, Constants, SavingFacts DEF Init, LoopTypes
<1>5. PanelTypes
  <2>1. /\ control = 0 /\ controlOn = FALSE /\ view = "none" /\ panelOn = FALSE /\ ownerOff = FALSE
        /\ state = None /\ pending = None /\ editing = 0 /\ draft = NoRule /\ original = NoRule
        /\ row = 0 /\ selected = {} /\ box = None /\ picker = FALSE /\ shown = {}
    BY DEF Init
  <2>2. 0 \in 0..MaxControls + 1 /\ NoRule \in Rules /\ None \in Boxes
    BY Constants, RuleFacts, MessageFacts
  <2> QED BY <2>1, <2>2 DEF PanelTypes, Views
<1>6. ViewSound /\ DraftSound /\ AskedSound
  BY DEF Init, ViewSound, DraftSound, AskedSound, Open
<1>7. Blocking
  BY MessageFacts DEF Init, Blocking, Open
<1> QED BY <1>4, <1>5, <1>6, <1>7 DEF IInv

\* The invariant is inductive.
LEMMA NextIInv == IInv /\ [Next]_vars => IInv'
<1> SUFFICES ASSUME IInv, [Next]_vars PROVE IInv'
  OBVIOUS
<1>1. CASE Next
  <2>1. view # "crashed"
    BY <1>1 DEF Next
  <2>2. CASE LoopNext
    BY <2>2, ReloadStep, SaveSettingStep, FinishStep, RunnerStateStep, HandleClickStep,
       RefuseSaveStep, SaveMeetsEditStep, DoSaveStep DEF LoopNext
  <2>3. CASE RunPost \/ ClickTray \/ ClickAutomation \/ TakeAnswer \/ DpiChanged
    BY <2>1, <2>3, RunPostStep, ClickStep, TakeAnswerStep, DestroyStep
  <2>4. CASE ManagerNext
    <3>1. CASE \E i \in 1..Cardinality(Ids) : Select(i)
      <4>1. PICK i \in 1..Cardinality(Ids) : Select(i)
        BY <3>1
      <4>2. i \in DOMAIN state.rules /\ view = "manager"
        BY <4>1 DEF Select, Takes
      <4>3. i \in Nat
        BY <4>2, StateFacts, ListFacts DEF IInv, ViewSound, Open
      <4> QED BY <4>1, <4>3, SelectStep
    <3>2. CASE EditNew \/ EditSelected \/ Toggle \/ AskDelete \/ ConfirmDelete \/ CloseManager
      BY <2>1, <3>2, EditNewStep, EditSelectedStep, ToggleStep, AskDeleteStep, ConfirmDeleteStep,
         DestroyStep
    <3> QED BY <2>4, <3>1, <3>2 DEF ManagerNext
  <2>5. CASE EditorNext
    <3>1. CASE OpenPicker \/ OpenBox \/ Keep \/ Cancel \/ SaveEditor
      BY <3>1, OpenPickerStep, OpenBoxStep, KeepStep, CancelStep, SaveEditorStep
    <3>2. ASSUME NEW body \in Bodies, Type(body) PROVE IInv'
      BY <3>2, TypeStep
    <3>3. ASSUME NEW yes \in BOOLEAN, ClosePicker(yes) PROVE IInv'
      BY <3>3, ClosePickerStep
    <3> QED BY <2>5, <3>1, <3>2, <3>3 DEF EditorNext
  <2> QED BY <1>1, <2>2, <2>3, <2>4, <2>5 DEF Next
<1>2. CASE UNCHANGED vars
  <2>1. UNCHANGED ui /\ UNCHANGED <<store, posts, runnerOwes, asked, saving, outside, saves, opened>>
    BY <1>2 DEF vars, loop, counts, ui, window, data, form, list, extras
  <2> QED BY <2>1, WindowStays, LoopStays DEF IInv
<1> QED BY <1>1, <1>2

\* Every reachable state satisfies the inductive invariant.
THEOREM Invariance == Spec => []IInv
<1> QED BY InitIInv, NextIInv, PTL DEF Spec
-----------------------------------------------------------------------------
(* The properties *)

\* The selected rule is the remembered one
SelectionSound ==
    view = "manager" /\ Free =>
        IF row = 0 THEN state.rules = <<>> ELSE selected = {state.rules[row].id}

\* The editor has its draft saved as it stands
SavingSound ==
    /\ saving.kind = "asked" /\ view = "editor" => Holds(saving.rules)
    /\ saving.kind = "answered" /\ saving.ok /\ view = "editor" => Holds(saving.state.rules)

\* Filling the list remembers the rule it selects.
LEMMA PopulateSelects ==
  ASSUME NEW rules \in Lists, selected \in SUBSET Ids, Populate(rules)
  PROVE  IF row' = 0 THEN rules = <<>> ELSE selected' = {rules[row'].id}
<1> DEFINE wanted == IF row \in DOMAIN rules THEN {rules[row].id} ELSE selected
<1> DEFINE found == IndexOf(rules, wanted)
<1>1. PickRow(rules) = IF found # {} THEN First(found) ELSE IF rules = <<>> THEN 0 ELSE 1
  BY DEF PickRow
<1>2. found # {} => First(found) \in DOMAIN rules
  BY IndexFacts
<1> HIDE DEF found
<1>3. rules # <<>> => PickRow(rules) \in DOMAIN rules
  BY <1>1, <1>2, ListFacts
<1>4. rules # <<>> => PickRow(rules) # 0
  BY <1>3, ListFacts
<1>5. rules = <<>> => PickRow(rules) = 0
  BY <1>1, <1>2
<1>6. /\ row' = PickRow(rules)
      /\ rules # <<>> => selected' = {rules[PickRow(rules)].id}
  BY DEF Populate
<1> QED BY <1>4, <1>5, <1>6

\* Steps of the UI thread that do not begin a save.
LEMMA SelectionNext == IInv /\ SelectionSound /\ Next /\ Free /\ saving' = saving => SelectionSound'
<1> SUFFICES ASSUME IInv, SelectionSound, Next, Free, saving' = saving, view' = "manager"
             PROVE  IF row' = 0 THEN state'.rules = <<>> ELSE selected' = {state'.rules[row'].id}
  BY DEF SelectionSound
<1> DEFINE Goal == IF row' = 0 THEN state'.rules = <<>> ELSE selected' = {state'.rules[row'].id}
<1>0. selected \in SUBSET Ids
  BY DEF IInv, PanelTypes
<1>1. CASE view = "manager" /\ UNCHANGED <<state, row, selected>>
  BY <1>1 DEF SelectionSound
<1>2. ASSUME NEW new \in Snapshots, state' = new, ShowManager(new.rules) PROVE Goal
  <2>1. new.rules \in Lists
    BY StateFacts
  <2>2. Populate(new.rules)
    BY <1>2 DEF ShowManager
  <2> QED BY <1>0, <1>2, <2>1, <2>2, PopulateSelects
<1>3. CASE LoopNext
  <2>1. UNCHANGED ui
    BY <1>3 DEF LoopNext, Reload, SaveSetting, FinishOneTimeRule, RunnerState, HandleClick,
                RefuseSave, SaveMeetsEdit, DoSave
  <2> QED BY <1>1, <2>1 DEF ui, window, data, list
<1>4. CASE RunPost
  <2> DEFINE post == Head(posts)
  <2>1. post \in Closures
    BY <1>4, TailFacts DEF RunPost, IInv
  <2>2. CASE post.kind = "update"
    <3>1. RunUpdate(post.state) /\ post.state \in Snapshots
      BY <1>4, <2>1, <2>2, MessageFacts DEF RunPost
    <3>2. CASE view = "none"
      BY <3>1, <3>2 DEF RunUpdate
    <3>3. CASE view # "none"
      <4> DEFINE new == post.state
      <4>1. UpdateState(new)
        BY <3>1, <3>3 DEF RunUpdate
      <4>2. CASE Revision(new) = Revision(state)
        <5>1. UNCHANGED <<state, view>>
          BY <4>1, <4>2 DEF UpdateState, data
        <5>2. state.rules \in Lists
          BY <5>1, StateFacts DEF IInv, ViewSound, Open
        <5>3. Populate(state.rules)
          BY <4>1, <4>2, <5>1 DEF UpdateState
        <5> QED BY <1>0, <5>1, <5>2, <5>3, PopulateSelects
      <4>3. CASE Revision(new) # Revision(state)
        <5>1. state' = new /\ ShowManager(new.rules)
          BY <4>1, <4>3 DEF UpdateState, ShowEditor
        <5> QED BY <1>2, <3>1, <5>1
      <4> QED BY <4>2, <4>3
    <3> QED BY <3>2, <3>3
  <2>3. CASE post.kind = "show"
    <3>1. RunShow(post.state) /\ post.state \in Snapshots
      BY <1>4, <2>1, <2>3, MessageFacts DEF RunPost
    <3>2. CASE UNCHANGED <<control, window, data, form, list, extras, shown>>
      BY <1>1, <3>2 DEF window, data, list
    <3>3. CASE state' = post.state /\ ShowManager(post.state.rules)
      BY <1>2, <3>1, <3>3
    <3> QED BY <3>1, <3>2, <3>3 DEF RunShow
  <2>4. CASE post.kind \in {"toggle", "control", "automation"}
    <3>1. Destroyed \/ UNCHANGED <<view, data, list>>
      BY <1>4, <2>4 DEF RunPost, RunControl, DestroyControl, DestroyPanel, window
    <3> QED BY <1>1, <3>1 DEF Destroyed, data, list
  <2> QED BY <2>1, <2>2, <2>3, <2>4, MessageFacts
<1>5. CASE ClickTray \/ ClickAutomation
  BY <1>1, <1>5 DEF ClickTray, ClickAutomation, ui, window, data, list
<1>6. CASE ManagerNext
  <2>1. CASE \E i \in 1..Cardinality(Ids) : Select(i)
    BY <2>1 DEF Select, data
  <2>2. CASE EditNew
    BY <2>2 DEF EditNew, ShowEditor
  <2>3. CASE EditSelected
    BY <2>3 DEF EditSelected, ShowEditor
  <2>4. CASE Toggle
    BY <2>4 DEF Toggle, NotifySave, Free
  <2>5. CASE AskDelete
    BY <1>1, <2>5 DEF AskDelete, Takes, data, list
  <2>6. CASE ConfirmDelete
    BY <2>6 DEF ConfirmDelete, NotifySave, Free
  <2>7. CASE CloseManager
    BY <2>7 DEF CloseManager, Takes, DestroyPanel, Destroyed
  <2> QED BY <1>6, <2>1, <2>2, <2>3, <2>4, <2>5, <2>6, <2>7 DEF ManagerNext
<1>7. CASE EditorNext
  <2>1. CASE OpenPicker \/ OpenBox \/ (\E body \in Bodies : Type(body))
    BY <2>1 DEF OpenPicker, OpenBox, Type, inEditor, Takes
  <2>2. CASE Keep \/ \E yes \in BOOLEAN : ClosePicker(yes)
    BY <1>1, <2>2 DEF Keep, ClosePicker, inEditor, data, list
  <2>3. CASE Cancel
    <3> DEFINE now == IF pending # None THEN pending ELSE state
    <3>1. state' = now /\ ShowManager(now.rules) /\ view = "editor"
      BY <2>3 DEF Cancel, LeaveEditor, Takes
    <3>2. now \in Snapshots
      BY <3>1 DEF IInv, PanelTypes, ViewSound, Open
    <3> QED BY <1>2, <3>1, <3>2
  <2>4. CASE SaveEditor
    BY <2>4 DEF SaveEditor, NotifySave, Free
  <2> QED BY <1>7, <2>1, <2>2, <2>3, <2>4 DEF EditorNext
<1>8. CASE TakeAnswer
  BY <1>8 DEF TakeAnswer, Free
<1>9. CASE DpiChanged
  BY <1>9 DEF DpiChanged, DestroyPanel, Destroyed
<1> QED BY <1>3, <1>4, <1>5, <1>6, <1>7, <1>8, <1>9 DEF Next

\* A save begins with the draft in its list, and its answer brings the list.
LEMMA SavesNext ==
  IInv /\ SelectionSound /\ SavingSound /\ [Next]_vars => SelectionSound' /\ SavingSound'
<1> SUFFICES ASSUME IInv, SelectionSound, SavingSound, [Next]_vars
             PROVE  SelectionSound' /\ SavingSound'
  OBVIOUS
<1>1. CASE UNCHANGED vars
  BY <1>1 DEF vars, window, data, form, list, SelectionSound, SavingSound, Holds, Free
<1>2. CASE Next /\ Free /\ saving' = saving
  <2>1. SavingSound'
    BY <1>2 DEF SavingSound, Free
  <2> QED BY <1>2, <2>1, SelectionNext
<1>3. CASE LoopNext /\ ~Free
  <2>1. UNCHANGED <<view, state, row, selected, draft>>
    BY <1>3 DEF LoopNext, Reload, SaveSetting, FinishOneTimeRule, RunnerState, HandleClick,
                RefuseSave, SaveMeetsEdit, DoSave, ui, window, data, form, list
  <2>2. CASE saving' = saving
    BY <1>3, <2>1, <2>2 DEF SelectionSound, SavingSound, Free, Holds
  <2>3. CASE RefuseSave \/ SaveMeetsEdit
    <3>1. saving'.kind = "answered" /\ saving'.ok = FALSE
      BY <2>3 DEF RefuseSave, SaveMeetsEdit, Answer
    <3> QED BY <3>1 DEF SelectionSound, SavingSound, Free
  <2>4. CASE DoSave
    <3>1. /\ saving'.kind = "answered" /\ saving.kind = "asked"
          /\ saving'.state.rules = store'.rules
          /\ store' = [store EXCEPT !.rules = saving.rules]
      BY <2>4 DEF DoSave, Answer, Snapshot
    <3>2. store'.rules = saving.rules
      BY <3>1 DEF IInv, LoopTypes, Files
    <3> QED BY <2>1, <3>1, <3>2 DEF SelectionSound, SavingSound, Free, Holds
  <2>5. LoopNext => saving' = saving \/ RefuseSave \/ SaveMeetsEdit \/ DoSave
    BY DEF LoopNext, Reload, SaveSetting, FinishOneTimeRule, RunnerState, HandleClick
  <2> QED BY <1>3, <2>2, <2>3, <2>4, <2>5
<1>4. CASE TakeAnswer
  <2>1. SavingSound'
    BY <1>4 DEF TakeAnswer, SavingSound
  <2>2. SelectionSound'
    <3> SUFFICES ASSUME view' = "manager"
                 PROVE  IF row' = 0 THEN state'.rules = <<>> ELSE selected' = {state'.rules[row'].id}
      BY DEF SelectionSound
    <3>1. state' = saving.state /\ Populate(saving.state.rules)
      BY <1>4 DEF TakeAnswer, ShowManager
    <3>2. saving.state.rules \in Lists /\ selected \in SUBSET Ids
      BY <1>4, SavingFacts, StateFacts DEF TakeAnswer, IInv, LoopTypes, PanelTypes
    <3> QED BY <3>1, <3>2, PopulateSelects
  <2> QED BY <2>1, <2>2
<1>5. CASE Toggle \/ ConfirmDelete
  <2>1. CASE saving' = saving
    BY <1>2, <1>5, <2>1 DEF Next, ManagerNext, Toggle, ConfirmDelete, Takes, IInv, Blocking
  <2>2. CASE saving' # saving
    <3>1. saving'.kind = "asked" /\ UNCHANGED view
      BY <1>5, <2>2 DEF Toggle, ConfirmDelete, NotifySave, window, still
    <3>2. view = "manager"
      BY <1>5, <2>2 DEF Toggle, ConfirmDelete, Takes, IInv, Blocking
    <3> QED BY <3>1, <3>2 DEF SelectionSound, SavingSound, Free
  <2> QED BY <2>1, <2>2
<1>6. CASE SaveEditor
  <2> DEFINE rule  == ReadBack(draft)
             rules == IF editing \in DOMAIN state.rules THEN [state.rules EXCEPT ![editing] = rule]
                                                        ELSE Append(state.rules, rule)
  <2>1. /\ view = "editor" /\ draft' = rule /\ saving'.kind = "asked" /\ saving'.rules = rules
        /\ UNCHANGED view
    BY <1>6 DEF SaveEditor, Takes, NotifySave, window
  <2>2. state.rules \in Lists
    BY <2>1, StateFacts DEF IInv, ViewSound, Open
  <2>3. \E i \in DOMAIN rules : rules[i] = rule
    <3>1. CASE editing \in DOMAIN state.rules
      BY <3>1
    <3>2. CASE editing \notin DOMAIN state.rules
      <4>1. /\ Len(state.rules) + 1 \in DOMAIN Append(state.rules, rule)
            /\ Append(state.rules, rule)[Len(state.rules) + 1] = rule
        BY <2>2 DEF Lists
      <4> QED BY <3>2, <4>1
    <3> QED BY <3>1, <3>2
  <2> HIDE DEF rules, rule
  <2> QED BY <2>1, <2>3 DEF SelectionSound, SavingSound, Holds, Free
<1>7. CASE Next /\ ~Free /\ ~LoopNext /\ ~TakeAnswer
  BY <1>7 DEF Next, RunPost, ClickTray, ClickAutomation, ManagerNext, EditNew, EditSelected, Toggle,
              AskDelete, ConfirmDelete, CloseManager, Select, EditorNext, OpenPicker, OpenBox, Keep,
              Cancel, SaveEditor, Type, ClosePicker, DpiChanged, Takes
<1>8. CASE Next /\ Free /\ saving' # saving
  <2>1. ~LoopNext
    BY <1>8 DEF LoopNext, Reload, SaveSetting, FinishOneTimeRule, RunnerState, HandleClick,
                RefuseSave, SaveMeetsEdit, DoSave, Free
  <2>2. Toggle \/ ConfirmDelete \/ SaveEditor \/ TakeAnswer
    BY <1>8, <2>1 DEF Next, RunPost, ClickTray, ClickAutomation, ManagerNext, EditNew, EditSelected,
                AskDelete, CloseManager, Select, EditorNext, OpenPicker, OpenBox, Keep, Cancel, Type,
                ClosePicker, DpiChanged, still, inEditor
  <2> QED BY <1>4, <1>5, <1>6, <2>2
<1> QED BY <1>1, <1>2, <1>3, <1>4, <1>7, <1>8

\* In every reachable state the remembered rule is the selected one, and a save
\* that was accepted holds the draft.
THEOREM Selections == Spec => [](SelectionSound /\ SavingSound)
<1>1. Init => SelectionSound /\ SavingSound
  BY DEF Init, SelectionSound, SavingSound
<1>2. IInv /\ (SelectionSound /\ SavingSound) /\ [Next]_vars => (SelectionSound /\ SavingSound)'
  BY SavesNext
<1> QED BY <1>1, <1>2, Invariance, PTL DEF Spec

\* The views do not lie over each other, nothing is open without a window, and
\* the draft, the selection and the question belong to the rules that are shown.
THEOREM StateIsSound == Spec => []PanelIsSound
<1>1. IInv /\ (SelectionSound /\ SavingSound) => PanelIsSound
  <2> SUFFICES ASSUME IInv, SelectionSound PROVE PanelIsSound
    OBVIOUS
  <2>1. store.rules \in Seq(Rules) /\ store.other \in {0, 1}
    BY StateFacts DEF IInv, LoopTypes, Lists
  <2>2. \A i \in DOMAIN posts : posts[i].kind \in {"update", "show", "toggle", "control", "automation"}
    <3>1. \A i \in DOMAIN posts : posts[i] \in Closures
      BY DEF IInv, LoopTypes
    <3> QED BY <3>1, MessageFacts
  <2>3. /\ Len(posts) <= MaxPosts /\ asked \subseteq {"manager", "control"}
        /\ saving.kind \in {"none", "asked", "answered"}
    BY SavingFacts DEF IInv, LoopTypes
  <2>4. view \in {"manager", "editor"} => state # None
    BY StateFacts DEF IInv, ViewSound, Open
  <2>5. box.kind \in {"none", "delete", "discard", "details"}
    BY MessageFacts DEF IInv, PanelTypes
  <2>6. /\ control \in 0..MaxControls + 1 /\ {controlOn, panelOn, ownerOff, picker} \subseteq BOOLEAN
        /\ view \in {"none", "manager", "editor", "crashed"}
        /\ {draft, original} \subseteq Rules /\ editing \in Nat /\ row \in Nat
        /\ selected \subseteq Ids /\ shown \subseteq {"manager", "editor"}
    BY DEF IInv, PanelTypes, Views, Open
  <2>7. TypeOK
    BY <2>1, <2>2, <2>3, <2>4, <2>5, <2>6 DEF TypeOK
  <2>8. /\ view = "editor" => shown = {"editor"} /\ editing \in 0..Len(state.rules)
        /\ view = "manager" => "manager" \in shown /\ row \in 0..Len(state.rules)
    BY DEF IInv, ViewSound
  <2>9. view \in {"none", "crashed"} => shown = {} /\ box = None /\ ~picker
    BY DEF IInv, ViewSound, Blocking, Open
  <2>10. view = "editor" /\ editing # 0 => state.rules[editing].id = draft.id
    <3>1. view = "editor" /\ editing # 0 => editing \in DOMAIN state.rules
      <4>1. view = "editor" => state.rules \in Lists
        BY StateFacts DEF IInv, ViewSound, Open
      <4> QED BY <2>8, <4>1, ListFacts
    <3> QED BY <3>1 DEF IInv, DraftSound
  <2>11. box.kind = "delete" => view = "manager"
    BY DEF IInv, Blocking
  <2> QED BY <2>7, <2>8, <2>9, <2>10, <2>11 DEF PanelIsSound, SelectionSound
<1> QED BY <1>1, Invariance, Selections, PTL

\* Only DoSave gives a save the answer that it was accepted.
LEMMA AcceptedByDoSave == Next /\ Accepts => DoSave
<1> SUFFICES ASSUME Next, Accepts, ~DoSave PROVE FALSE
  OBVIOUS
<1>1. saving.kind = "asked" /\ saving'.kind = "answered" /\ saving'.ok
  BY DEF Accepts
<1>2. CASE LoopNext
  <2>1. CASE RefuseSave \/ SaveMeetsEdit
    BY <1>1, <2>1 DEF RefuseSave, SaveMeetsEdit, Answer
  <2>2. CASE Reload \/ SaveSetting \/ FinishOneTimeRule \/ RunnerState \/ HandleClick
    BY <1>1, <2>2 DEF Reload, SaveSetting, FinishOneTimeRule, RunnerState, HandleClick
  <2> QED BY <1>2, <2>1, <2>2 DEF LoopNext
<1>3. CASE RunPost \/ ClickTray \/ ClickAutomation \/ TakeAnswer \/ DpiChanged
  BY <1>1, <1>3 DEF RunPost, ClickTray, ClickAutomation, TakeAnswer, DpiChanged, Free
<1>4. CASE ManagerNext
  BY <1>1, <1>4 DEF ManagerNext, EditNew, EditSelected, Toggle, AskDelete, ConfirmDelete,
                    CloseManager, Select, Takes, Free
<1>5. CASE EditorNext
  BY <1>1, <1>5 DEF EditorNext, OpenPicker, OpenBox, Keep, Cancel, SaveEditor, Type, ClosePicker,
                    Takes, Free
<1> QED BY <1>2, <1>3, <1>4, <1>5 DEF Next

\* A save that is accepted, and that is no deletion, changes no rule but the one it
\* was made for.
THEOREM SavesTouchOneRule == Spec => SaveTouchesOneRule
<1> DEFINE Kept == Accepts /\ saving.what # "delete" =>
        \A id \in Ids \ {saving.id} : RulesOf(store'.rules, id) = RulesOf(store.rules, id)
<1>1. IInv /\ [Next]_vars => Kept
  <2> SUFFICES ASSUME IInv, [Next]_vars, Accepts, saving.what # "delete",
                      NEW id \in Ids \ {saving.id}
               PROVE  RulesOf(store'.rules, id) = RulesOf(store.rules, id)
    OBVIOUS
  <2>1. saving.kind = "asked" /\ saving' # saving
    BY DEF Accepts
  <2>2. Next
    BY <2>1 DEF vars
  <2>3. /\ saving.base = Revision(store)
        /\ store' = [store EXCEPT !.rules = saving.rules]
    BY <2>2, AcceptedByDoSave DEF DoSave, Acceptable
  <2>4. store \in Files
    BY DEF IInv, LoopTypes
  <2>5. store'.rules = saving.rules /\ saving.base.rules = store.rules
    BY <2>3, <2>4 DEF Files, Revision
  <2>6. RulesOf(saving.rules, id) = RulesOf(saving.base.rules, id)
    BY <2>1 DEF IInv, AskedSound
  <2> QED BY <2>5, <2>6
<1>2. IInv /\ [Next]_vars => [Kept]_vars
  BY <1>1
<1> QED BY <1>2, Invariance, PTL DEF Spec, SaveTouchesOneRule

\* What a step may do to typed work
Leaves == Stays \/ Discarded \/ Saved \/ WindowGoes

\* No news replace it.
LEMMA NewsLeaveWork ==
  ASSUME IInv, NEW new \in Snapshots, RunUpdate(new), Work
  PROVE  view' = "editor" /\ draft' = draft /\ original' = original
<1>1. view = "editor" /\ draft # original /\ ReadBack(draft) = draft
  BY DEF Work, ReadBack
<1>2. UpdateState(new)
  BY <1>1 DEF RunUpdate
<1>3. CASE Revision(new) = Revision(state)
  BY <1>1, <1>2, <1>3 DEF UpdateState, form
<1>4. CASE Revision(new) # Revision(state)
  BY <1>1, <1>2, <1>4 DEF UpdateState
<1> QED BY <1>3, <1>4

\* What the user has typed is the user's to change until it is in the file: news
\* and refused saves leave it alone, only the user discards it or closes its
\* window, but for the closures that close windows.
THEOREM TypedWorkIsKept == Spec => WorkIsKept
<1>1. IInv /\ (SelectionSound /\ SavingSound) /\ [Next]_vars => (Work => Leaves)
  <2> SUFFICES ASSUME IInv, SavingSound, [Next]_vars, Work PROVE Leaves
    OBVIOUS
  <2>1. view = "editor" /\ draft # original /\ draft.body \in {"edited", "wrong"}
    BY DEF Work
  <2>2. ReadBack(draft) = draft
    BY <2>1 DEF ReadBack
  <2>3. box.kind # "delete"
    BY <2>1 DEF IInv, Blocking
  <2>4. CASE UNCHANGED <<view, draft, original>>
    BY <2>1, <2>4 DEF Leaves, Stays
  <2>5. CASE LoopNext
    <3>1. UNCHANGED ui
      BY <2>5 DEF LoopNext, Reload, SaveSetting, FinishOneTimeRule, RunnerState, HandleClick,
                  RefuseSave, SaveMeetsEdit, DoSave
    <3> QED BY <2>4, <3>1 DEF ui, window, form
  <2>6. CASE ClickTray \/ ClickAutomation
    BY <2>4, <2>6 DEF ClickTray, ClickAutomation, ui, window, form
  <2>7. CASE RunPost
    <3> DEFINE post == Head(posts)
    <3>1. post \in Closures /\ posts # <<>> /\ posts' = Tail(posts)
      BY <2>7, TailFacts DEF RunPost, IInv
    <3>2. CASE post.kind = "update"
      <4>1. RunUpdate(post.state) /\ post.state \in Snapshots
        BY <2>7, <3>1, <3>2, MessageFacts DEF RunPost
      <4> QED BY <2>4, <4>1, NewsLeaveWork, <2>1
    <3>3. CASE post.kind = "show"
      <4>1. UNCHANGED <<window, form>>
        BY <2>1, <2>7, <3>3 DEF RunPost, RunShow
      <4> QED BY <2>4, <4>1 DEF window, form
    <3>4. CASE post.kind \in {"toggle", "control", "automation"}
      <4>1. \/ view' = "none"
            \/ UNCHANGED <<view, form>>
        BY <2>7, <3>4 DEF RunPost, RunControl, DestroyControl, DestroyPanel, Destroyed, window
      <4> QED BY <2>4, <3>1, <3>4, <4>1 DEF form, Leaves, WindowGoes
    <3> QED BY <3>1, <3>2, <3>3, <3>4, MessageFacts
  <2>8. CASE ManagerNext
    BY <2>1, <2>3, <2>8 DEF ManagerNext, EditNew, EditSelected, Toggle, AskDelete, ConfirmDelete,
                            CloseManager, Select, Takes
  <2>9. CASE DpiChanged
    BY <2>1, <2>9 DEF DpiChanged, DestroyPanel, Destroyed, Leaves, WindowGoes, OfTheUser, still
  <2>10. CASE TakeAnswer
    <3>1. CASE saving.ok
      BY <2>1, <2>10, <3>1 DEF TakeAnswer, SavingSound, Leaves, Saved
    <3>2. CASE ~saving.ok
      BY <2>1, <2>4, <2>10, <3>2 DEF TakeAnswer, form
    <3> QED BY <3>1, <3>2
  <2>11. CASE EditorNext
    <3>1. CASE OpenPicker
      BY <2>2, <2>4, <3>1 DEF OpenPicker, inEditor
    <3>2. CASE OpenBox
      BY <2>2, <2>4, <3>2 DEF OpenBox, inEditor
    <3>3. CASE Keep
      BY <2>4, <3>3 DEF Keep, inEditor, form
    <3>4. CASE Cancel
      BY <2>1, <2>2, <3>4 DEF Cancel, Leaves, Discarded, OfTheUser, still
    <3>5. CASE SaveEditor
      BY <2>2, <2>4, <3>5 DEF SaveEditor, window
    <3>6. ASSUME NEW body \in Bodies, Type(body) PROVE Leaves
      BY <2>1, <3>6 DEF Type, inEditor, still, Leaves, Stays, OfTheUser
    <3>7. ASSUME NEW yes \in BOOLEAN, ClosePicker(yes) PROVE Leaves
      BY <2>1, <3>7 DEF ClosePicker, still, Leaves, Stays, OfTheUser
    <3> QED BY <2>11, <3>1, <3>2, <3>3, <3>4, <3>5, <3>6, <3>7 DEF EditorNext
  <2>12. CASE UNCHANGED vars
    BY <2>4, <2>12 DEF vars, window, form
  <2> QED BY <2>5, <2>6, <2>7, <2>8, <2>9, <2>10, <2>11, <2>12 DEF Next
<1>2. IInv /\ (SelectionSound /\ SavingSound) /\ [Next]_vars => [Work => Leaves]_vars
  BY <1>1
<1> QED BY <1>2, Invariance, Selections, PTL DEF Spec, WorkIsKept, Leaves
-----------------------------------------------------------------------------
(* The windows block each other as a tree *)

Names == {"control", "panel", "picker", "box"}

\* Which windows are open, who owns them and who takes input, one by one
WindowFacts ==
    /\ windows \subseteq Names /\ takesInput \subseteq Names /\ DOMAIN ownerOf = windows
    /\ "control" \in windows <=> control # 0
    /\ "panel" \in windows <=> view \in Open
    /\ "picker" \in windows <=> picker
    /\ "box" \in windows <=> box # None
    /\ "control" \in windows => ownerOf["control"] = "nobody"
    /\ "panel" \in windows => ownerOf["panel"] = IF ownerOff THEN "control" ELSE "nobody"
    /\ "picker" \in windows => ownerOf["picker"] = "panel"
    /\ "box" \in windows => ownerOf["box"] = "panel"
    /\ "control" \in takesInput <=> controlOn
    /\ "panel" \in takesInput <=> panelOn
    /\ "picker" \in takesInput <=> picker
    /\ "box" \in takesInput <=> box # None

\* The open windows now,
LEMMA WindowsAre == WindowFacts
<1>1. /\ windows \subseteq Names
      /\ "control" \in windows <=> control # 0
      /\ "panel" \in windows <=> view \in Open
      /\ "picker" \in windows <=> picker
      /\ "box" \in windows <=> box # None
  BY DEF windows, Names, Open
<1>2. DOMAIN ownerOf = windows
  BY DEF ownerOf
<1>3. /\ "control" \in windows => ownerOf["control"] = "nobody"
      /\ "panel" \in windows => ownerOf["panel"] = IF ownerOff THEN "control" ELSE "nobody"
      /\ "picker" \in windows => ownerOf["picker"] = "panel"
      /\ "box" \in windows => ownerOf["box"] = "panel"
  BY DEF ownerOf
<1>4. /\ "control" \in takesInput <=> controlOn
      /\ "panel" \in takesInput <=> panelOn
      /\ "picker" \in takesInput <=> picker
      /\ "box" \in takesInput <=> box # None
      /\ takesInput \subseteq Names
  BY <1>1 DEF takesInput, Names
<1> QED BY <1>1, <1>2, <1>3, <1>4 DEF WindowFacts

\* and after a step.
LEMMA WindowsWillBe == WindowFacts'
BY WindowsAre, PTL

\* A window that opens blocks its owner.
LEMMA OpenStep ==
  ASSUME NEW w \in Names \ windows, NEW o \in Names \cup {"nobody"},
         o = "nobody" \/ o \in takesInput,
         windows' = windows \cup {w}, ownerOf'[w] = o,
         \A v \in windows : ownerOf'[v] = ownerOf[v],
         takesInput' = (takesInput \ {o}) \cup {w}
  PROVE  Tree!Next
<1>1. DOMAIN ownerOf = windows
  BY DEF ownerOf
<1>2. ownerOf' = [v \in windows \cup {w} |-> ownerOf'[v]]
  BY DEF ownerOf
<1>3. ownerOf' = [v \in DOMAIN ownerOf \cup {w} |-> IF v = w THEN o ELSE ownerOf[v]]
  BY <1>1, <1>2
<1>4. Tree!Open(w, o)
  BY <1>1, <1>3 DEF Tree!Open
<1> QED BY <1>4 DEF Tree!Next, Names

\* Windows that close give the input back to those that stay.
LEMMA CloseStep ==
  ASSUME NEW closed \in SUBSET windows, closed # {},
         \A w \in windows : ownerOf[w] \in closed => w \in closed,
         windows' = windows \ closed,
         \A w \in windows \ closed : ownerOf'[w] = ownerOf[w],
         takesInput' = (takesInput \cup ({ownerOf[w] : w \in closed} \ {"nobody"})) \ closed
  PROVE  Tree!Next
<1>1. DOMAIN ownerOf = windows
  BY DEF ownerOf
<1>2. ownerOf' = [w \in windows \ closed |-> ownerOf'[w]]
  BY DEF ownerOf
<1>3. ownerOf' = [w \in DOMAIN ownerOf \ closed |-> ownerOf[w]]
  BY <1>1, <1>2
<1>4. Tree!Close(closed)
  BY <1>1, <1>3 DEF Tree!Close
<1>5. closed \in SUBSET Names
  BY WindowsAre DEF WindowFacts
<1> QED BY <1>4, <1>5 DEF Tree!Next, Names

Steps == Tree!Next \/ UNCHANGED <<ownerOf, takesInput>>

\* Nothing opens, closes or changes hands.
LEMMA StillStep ==
  ASSUME UNCHANGED <<control, ownerOff, controlOn, panelOn, picker, box>>,
         view' = view \/ {view, view'} \subseteq Open
  PROVE  Steps
<1>1. windows' = windows
  BY DEF windows, Open
<1>2. ownerOf' = ownerOf
  BY <1>1 DEF ownerOf
<1>3. takesInput' = takesInput
  BY <1>1 DEF takesInput
<1> QED BY <1>2, <1>3 DEF Steps

\* Whoever takes input or owns an open window is open.
LEMMA OwnersAreOpen ==
  ASSUME IInv
  PROVE  takesInput \subseteq windows /\ \A w \in windows : ownerOf[w] \in windows \cup {"nobody"}
<1>1. /\ controlOn => control # 0
      /\ panelOn => view \in Open
      /\ ownerOff => control # 0
      /\ picker \/ box # None => view \in Open
  BY DEF IInv, Blocking
<1>2. takesInput \subseteq windows
  BY <1>1, WindowsAre DEF WindowFacts, Names
<1>3. \A w \in windows : ownerOf[w] \in windows \cup {"nobody"}
  BY <1>1, WindowsAre DEF WindowFacts, Names
<1> QED BY <1>2, <1>3

\* Everything closes at once.
LEMMA AllClose ==
  ASSUME IInv, windows # {}, windows' = {}, takesInput' = {}
  PROVE  Tree!Next
<1>1. ({ownerOf[w] : w \in windows} \ {"nobody"}) \subseteq windows /\ takesInput \subseteq windows
  BY OwnersAreOpen
<1>2. (takesInput \cup ({ownerOf[w] : w \in windows} \ {"nobody"})) \ windows = {}
  BY <1>1
<1> QED BY <1>2, CloseStep

\* The panel goes, with what it has opened, and its owner takes input again.
LEMMA PanelCloses ==
  ASSUME IInv, view \in Open, Destroyed, UNCHANGED control,
         controlOn' = IF ownerOff THEN TRUE ELSE controlOn
  PROVE  Tree!Next
<1> DEFINE closed == windows \ {"control"}
<1>1. /\ view' \notin Open /\ panelOn' = FALSE /\ ownerOff' = FALSE /\ box' = None /\ picker' = FALSE
  BY DEF Destroyed, Open
<1>2. windows' = windows \ closed
  BY <1>1, WindowsAre, WindowsWillBe DEF WindowFacts, Names
<1>3. \A w \in windows \ closed : w = "control" /\ ownerOf'[w] = ownerOf[w]
  BY <1>2, WindowsAre, WindowsWillBe DEF WindowFacts
<1>4. \A w \in windows : ownerOf[w] \in closed => w \in closed
  BY WindowsAre DEF WindowFacts, Names
<1>5. "panel" \in closed
  BY WindowsAre DEF WindowFacts
<1>6. "control" \in {ownerOf[w] : w \in closed} <=> ownerOff
  BY <1>5, WindowsAre DEF WindowFacts, Names
<1>7. takesInput' = (takesInput \cup ({ownerOf[w] : w \in closed} \ {"nobody"})) \ closed
  <2>1. takesInput' = IF controlOn' THEN {"control"} ELSE {}
    BY <1>1, WindowsWillBe DEF WindowFacts, Names
  <2>2. ownerOff => control # 0
    BY DEF IInv, Blocking
  <2>3. takesInput \subseteq windows /\ \A w \in windows : ownerOf[w] \in windows \cup {"nobody"}
    BY OwnersAreOpen
  <2>4. ASSUME NEW x \in (takesInput \cup ({ownerOf[w] : w \in closed} \ {"nobody"})) \ closed
        PROVE  x = "control"
    <3>1. CASE x \in takesInput
      BY <2>3, <2>4, <3>1
    <3>2. CASE x \in {ownerOf[w] : w \in closed} \ {"nobody"}
      <4>1. PICK w \in closed : x = ownerOf[w]
        BY <3>2
      <4>2. x \in windows
        BY <2>3, <3>2, <4>1
      <4> QED BY <2>4, <4>2
    <3> QED BY <2>4, <3>1, <3>2
  <2>5. "control" \in (takesInput \cup ({ownerOf[w] : w \in closed} \ {"nobody"})) \ closed <=> controlOn'
    BY <1>6, <2>2, WindowsAre DEF WindowFacts
  <2> HIDE DEF closed
  <2> QED BY <2>1, <2>4, <2>5
<1> HIDE DEF closed
<1>8. closed \in SUBSET windows /\ closed # {}
  BY <1>5 DEF closed
<1> QED BY <1>2, <1>3, <1>4, <1>7, <1>8, CloseStep

\* A window the panel has opened goes, and the panel takes input again.
LEMMA ChildCloses ==
  ASSUME IInv, NEW w \in {"picker", "box"}, w \in windows,
         (w = "picker" /\ picker' = FALSE /\ box' = box) \/ (w = "box" /\ box' = None /\ picker' = picker),
         UNCHANGED <<control, ownerOff, controlOn>>, panelOn' = TRUE,
         view \in Open, view' \in Open
  PROVE  Tree!Next
<1>1. windows' = windows \ {w}
  BY WindowsAre, WindowsWillBe DEF WindowFacts, Names
<1>2. \A v \in windows : ownerOf[v] # w
  BY WindowsAre DEF WindowFacts, Names
<1>3. \A v \in windows \ {w} : ownerOf'[v] = ownerOf[v]
  BY <1>1, WindowsAre, WindowsWillBe DEF WindowFacts, Names
<1>4. {ownerOf[v] : v \in {w}} \ {"nobody"} = {"panel"}
  BY WindowsAre DEF WindowFacts
<1>5. takesInput' = (takesInput \cup {"panel"}) \ {w}
  BY <1>1, WindowsAre, WindowsWillBe DEF WindowFacts, Names
<1> DEFINE closed == {w}
<1>6. /\ closed \in SUBSET windows /\ closed # {}
      /\ \A v \in windows : ownerOf[v] \in closed => v \in closed
      /\ windows' = windows \ closed
      /\ \A v \in windows \ closed : ownerOf'[v] = ownerOf[v]
  BY <1>1, <1>2, <1>3
<1>7. takesInput' = (takesInput \cup ({ownerOf[v] : v \in closed} \ {"nobody"})) \ closed
  BY <1>4, <1>5
<1> HIDE DEF closed
<1> QED BY <1>6, <1>7, CloseStep

\* The panel opens a window of its own.
LEMMA ChildOpens ==
  ASSUME IInv, NEW w \in {"picker", "box"}, view \in Open, view' = view, panelOn,
         (w = "picker" /\ picker' = TRUE /\ box' = box) \/ (w = "box" /\ box' # None /\ picker' = picker),
         UNCHANGED <<control, ownerOff, controlOn>>, panelOn' = FALSE
  PROVE  Tree!Next
<1>1. box = None /\ picker = FALSE
  BY DEF IInv, PanelTypes, Blocking
<1>2. w \in Names \ windows /\ windows' = windows \cup {w}
  BY <1>1, WindowsAre, WindowsWillBe DEF WindowFacts, Names
<1>3. ownerOf'[w] = "panel" /\ \A v \in windows : ownerOf'[v] = ownerOf[v]
  BY <1>1, <1>2, WindowsAre, WindowsWillBe DEF WindowFacts, Names
<1>4. "panel" \in takesInput /\ takesInput' = (takesInput \ {"panel"}) \cup {w}
  BY <1>1, WindowsAre, WindowsWillBe DEF WindowFacts, Names
<1> QED BY <1>2, <1>3, <1>4, OpenStep DEF Names

\* The control panel goes, and takes the panel with it if it owns it.
LEMMA ControlCloses ==
  ASSUME IInv, view # "crashed", DestroyControl
  PROVE  Steps
<1>1. control' = 0 /\ controlOn' = FALSE
  BY DEF DestroyControl
<1>2. CASE view # "none" /\ ownerOff
  <2>1. view' \notin Open /\ panelOn' = FALSE /\ box' = None /\ picker' = FALSE
    BY <1>2 DEF DestroyControl, Destroyed, Open
  <2>2. windows' = {} /\ takesInput' = {}
    BY <1>1, <2>1, WindowsWillBe DEF WindowFacts, Names
  <2>3. "control" \in windows
    BY <1>2, WindowsAre DEF WindowFacts, IInv, Blocking
  <2> QED BY <2>2, <2>3, AllClose DEF Steps
<1>3. CASE ~(view # "none" /\ ownerOff)
  <2>1. UNCHANGED <<view, panelOn, ownerOff, box, picker>>
    BY <1>3 DEF DestroyControl, extras
  <2>2. ownerOff = FALSE
    BY <1>3 DEF IInv, PanelTypes, Blocking, Open
  <2>3. CASE control = 0
    <3>1. controlOn = FALSE
      BY <2>3 DEF IInv, PanelTypes, Blocking
    <3> QED BY <1>1, <2>1, <2>3, <3>1, StillStep
  <2>4. CASE control # 0
    <3>1. "control" \in windows /\ windows' = windows \ {"control"}
      BY <1>1, <2>1, <2>4, WindowsAre, WindowsWillBe DEF WindowFacts, Names
    <3>2. \A w \in windows : ownerOf[w] # "control"
      BY <2>2, WindowsAre DEF WindowFacts, Names
    <3>3. \A w \in windows \ {"control"} : ownerOf'[w] = ownerOf[w]
      BY <2>1, <3>1, WindowsAre, WindowsWillBe DEF WindowFacts, Names
    <3>4. {ownerOf[w] : w \in {"control"}} \ {"nobody"} = {}
      BY <3>1, WindowsAre DEF WindowFacts
    <3>5. takesInput' = takesInput \ {"control"}
      BY <1>1, <2>1, WindowsAre, WindowsWillBe DEF WindowFacts, Names
    <3> DEFINE closed == {"control"}
    <3>6. /\ closed \in SUBSET windows /\ closed # {}
          /\ \A w \in windows : ownerOf[w] \in closed => w \in closed
          /\ windows' = windows \ closed
          /\ \A w \in windows \ closed : ownerOf'[w] = ownerOf[w]
      BY <3>1, <3>2, <3>3
    <3>7. takesInput' = (takesInput \cup ({ownerOf[w] : w \in closed} \ {"nobody"})) \ closed
      BY <3>4, <3>5
    <3> HIDE DEF closed
    <3>8. Tree!Next
      BY <3>6, <3>7, CloseStep
    <3> QED BY <3>8 DEF Steps
  <2> QED BY <2>3, <2>4
<1> QED BY <1>2, <1>3

\* The panel goes, if it is there.
LEMMA PanelMayClose ==
  ASSUME IInv, view # "crashed", DestroyPanel, UNCHANGED control
  PROVE  Steps
<1>1. CASE view = "none"
  BY <1>1, StillStep DEF DestroyPanel, window, extras
<1>2. CASE view # "none"
  <2>1. view \in Open
    BY <1>2 DEF IInv, PanelTypes, Views, Open
  <2>2. Destroyed /\ controlOn' = IF ownerOff THEN TRUE ELSE controlOn
    BY <1>2 DEF DestroyPanel
  <2> QED BY <2>1, <2>2, PanelCloses DEF Steps
<1> QED BY <1>1, <1>2

\* A posted closure opens or closes one tree of windows, or changes what one shows.
LEMMA PostMoves ==
  ASSUME IInv, RunPost
  PROVE  Steps
<1> DEFINE post == Head(posts)
<1>1. view # "crashed" /\ post \in Closures
  BY TailFacts DEF RunPost, IInv
<1>2. CASE post.kind = "update"
  <2>1. RunUpdate(post.state)
    BY <1>2 DEF RunPost
  <2>2. UNCHANGED <<control, controlOn, panelOn, ownerOff, box, picker>>
    BY <2>1 DEF RunUpdate
  <2>3. view' = view \/ {view, view'} \subseteq Open
    <3>1. CASE view = "none"
      BY <2>1, <3>1 DEF RunUpdate
    <3>2. CASE view # "none"
      <4>1. view \in Open /\ UpdateState(post.state)
        BY <1>1, <2>1, <3>2 DEF RunUpdate, IInv, PanelTypes, Views, Open
      <4>2. view' \in {view, "manager", "editor"}
        BY <4>1 DEF UpdateState, ShowEditor, ShowManager
      <4> QED BY <4>1, <4>2 DEF Open
    <3> QED BY <3>1, <3>2
  <2> QED BY <2>2, <2>3, StillStep
<1>3. CASE post.kind = "show"
  <2> DEFINE new == post.state
  <2>1. RunShow(new)
    BY <1>3 DEF RunPost
  <2>2. CASE UNCHANGED <<control, window, data, form, list, extras, shown>>
    BY <2>2, StillStep DEF window, extras
  <2>3. CASE /\ view = "none" /\ new.owner \in {0, control} /\ panelOn' = TRUE
             /\ ownerOff' = (new.owner # 0) /\ controlOn' = (controlOn /\ new.owner = 0)
             /\ view' = "manager" /\ UNCHANGED <<control, box, picker>>
    <3> DEFINE o == IF new.owner # 0 THEN "control" ELSE "nobody"
    <3>1. /\ box = None /\ picker = FALSE /\ ownerOff = FALSE
          /\ panelOn = FALSE /\ (controlOn <=> control # 0)
      BY <2>3 DEF IInv, PanelTypes, Blocking, Open
    <3>2. "panel" \in Names \ windows /\ windows' = windows \cup {"panel"}
      BY <2>3, <3>1, WindowsAre, WindowsWillBe DEF WindowFacts, Names, Open
    <3>3. ownerOf'["panel"] = o /\ \A v \in windows : ownerOf'[v] = ownerOf[v]
      BY <2>3, <3>1, <3>2, WindowsAre, WindowsWillBe DEF WindowFacts, Names, Open
    <3>4. o = "nobody" \/ o \in takesInput
      BY <2>3, <3>1, WindowsAre DEF WindowFacts
    <3>5. takesInput' = (takesInput \ {o}) \cup {"panel"}
      <4>1. "control" \in takesInput' <=> "control" \in (takesInput \ {o}) \cup {"panel"}
        BY <2>3, WindowsAre, WindowsWillBe DEF WindowFacts
      <4>2. takesInput \subseteq Names /\ takesInput' \subseteq Names /\ "panel" \in takesInput'
        BY <2>3, WindowsAre, WindowsWillBe DEF WindowFacts
      <4>3. {"picker", "box"} \cap takesInput = {} /\ {"picker", "box"} \cap takesInput' = {}
        BY <2>3, <3>1, WindowsAre, WindowsWillBe DEF WindowFacts
      <4> QED BY <4>1, <4>2, <4>3 DEF Names
    <3>6. o \in Names \cup {"nobody"}
      BY DEF Names
    <3> HIDE DEF o
    <3>7. Tree!Next
      BY <3>2, <3>3, <3>4, <3>5, <3>6, OpenStep
    <3> QED BY <3>7 DEF Steps
  <2> QED BY <2>1, <2>2, <2>3 DEF RunShow, ShowManager
<1>4. CASE post.kind = "toggle"
  <2>1. RunControl
    BY <1>4 DEF RunPost
  <2>2. CASE control # 0
    BY <1>1, <2>1, <2>2, ControlCloses DEF RunControl
  <2>3. CASE control = 0
    <3>1. /\ \/ control' = opened + 1 /\ controlOn' = TRUE
             \/ UNCHANGED <<control, controlOn>>
          /\ UNCHANGED <<view, panelOn, ownerOff, box, picker>>
      BY <2>1, <2>3 DEF RunControl, extras
    <3>2. ownerOff = FALSE /\ controlOn = FALSE /\ opened + 1 # 0
      BY <2>3 DEF IInv, LoopTypes, PanelTypes, Blocking
    <3>3. CASE UNCHANGED <<control, controlOn>>
      BY <3>1, <3>3, StillStep
    <3>4. CASE control' = opened + 1 /\ controlOn' = TRUE
      <4>1. "control" \in Names \ windows /\ windows' = windows \cup {"control"}
        BY <2>3, <3>1, <3>2, <3>4, WindowsAre, WindowsWillBe DEF WindowFacts, Names
      <4>2. ownerOf'["control"] = "nobody" /\ \A v \in windows : ownerOf'[v] = ownerOf[v]
        BY <3>1, <4>1, WindowsAre, WindowsWillBe DEF WindowFacts, Names
      <4>3. takesInput' = (takesInput \ {"nobody"}) \cup {"control"}
        BY <3>1, <3>4, WindowsAre, WindowsWillBe DEF WindowFacts, Names
      <4>4. Tree!Next
        BY <4>1, <4>2, <4>3, OpenStep
      <4> QED BY <4>4 DEF Steps
    <3> QED BY <3>1, <3>3, <3>4
  <2> QED BY <2>2, <2>3
<1>5. CASE post.kind = "automation"
  BY <1>1, <1>5, PanelMayClose DEF RunPost
<1>6. CASE post.kind = "control"
  BY <1>1, <1>6, ControlCloses DEF RunPost
<1> QED BY <1>1, <1>2, <1>3, <1>4, <1>5, <1>6, MessageFacts

\* A deletion that is confirmed closes its question, or, if the process ends, all.
LEMMA ConfirmMoves ==
  ASSUME IInv, ConfirmDelete
  PROVE  Steps
<1>1. box.kind = "delete" /\ box' = None
  BY DEF ConfirmDelete
<1>2. view = "manager" /\ box # None /\ picker = FALSE
  BY <1>1, MessageFacts DEF IInv, PanelTypes, Blocking
<1>3. "box" \in windows
  BY <1>2, WindowsAre DEF WindowFacts
<1>4. CASE box.index \in DOMAIN state.rules
  <2>1. panelOn' = TRUE /\ UNCHANGED <<view, ownerOff, controlOn, picker, control>>
    BY <1>4 DEF ConfirmDelete, NotifySave
  <2> QED BY <1>1, <1>2, <1>3, <2>1, ChildCloses DEF Steps, Open
<1>5. CASE box.index \notin DOMAIN state.rules
  <2>1. /\ view' = "crashed" /\ control' = 0 /\ controlOn' = FALSE /\ panelOn' = FALSE /\ picker' = picker
    BY <1>5 DEF ConfirmDelete
  <2>2. windows' = {} /\ takesInput' = {}
    BY <1>1, <1>2, <2>1, WindowsWillBe DEF WindowFacts, Names, Open
  <2> QED BY <1>3, <2>2, AllClose DEF Steps
<1> QED BY <1>4, <1>5

\* Every step is one of the tree's steps or none.
LEMMA NextSteps == IInv /\ [Next]_vars => Steps
<1> SUFFICES ASSUME IInv, [Next]_vars PROVE Steps
  OBVIOUS
<1>1. CASE LoopNext \/ ClickTray \/ ClickAutomation \/ UNCHANGED vars
  <2>1. UNCHANGED ui
    BY <1>1 DEF LoopNext, Reload, SaveSetting, FinishOneTimeRule, RunnerState, HandleClick,
                RefuseSave, SaveMeetsEdit, DoSave, ClickTray, ClickAutomation, vars, ui
  <2> QED BY <2>1, StillStep DEF ui, window, extras
<1>2. CASE RunPost
  BY <1>2, PostMoves
<1>3. CASE view # "crashed" /\ (DpiChanged \/ CloseManager)
  BY <1>3, PanelMayClose DEF DpiChanged, CloseManager
<1>4. CASE TakeAnswer
  <2>1. UNCHANGED <<control, ownerOff, controlOn, panelOn, picker, box>>
    BY <1>4 DEF TakeAnswer
  <2>2. view' = view \/ (view = "editor" /\ view' = "manager")
    BY <1>4 DEF TakeAnswer, ShowManager
  <2> QED BY <2>1, <2>2, StillStep DEF Open
<1>5. CASE EditNew \/ EditSelected \/ \E i \in 1..Cardinality(Ids) : Select(i)
  <2>1. UNCHANGED <<control, ownerOff, controlOn, panelOn, picker, box>> /\ view = "manager"
    BY <1>5 DEF EditNew, EditSelected, Select, Takes, window, extras
  <2>2. view' \in Open
    BY <1>5, <2>1 DEF EditNew, EditSelected, Select, ShowEditor, Open, window
  <2> QED BY <2>1, <2>2, StillStep DEF Open
<1>6. CASE Toggle
  BY <1>6, StillStep DEF Toggle, NotifySave, window, extras
<1>7. CASE AskDelete
  <2>1. /\ view = "manager" /\ view' = view /\ panelOn /\ panelOn' = FALSE /\ picker' = picker
        /\ UNCHANGED <<control, ownerOff, controlOn>>
        /\ box' = [kind |-> "delete", index |-> row, id |-> state.rules[row].id]
    BY <1>7 DEF AskDelete, Takes
  <2>2. box' # None
    <3>1. box'.kind = "delete"
      BY <2>1
    <3> QED BY <3>1 DEF None
  <2> QED BY <2>1, <2>2, ChildOpens DEF Steps, Open
<1>8. CASE ConfirmDelete
  BY <1>8, ConfirmMoves
<1>9. CASE OpenPicker
  BY <1>9, ChildOpens DEF OpenPicker, Takes, inEditor, Steps, Open
<1>10. CASE OpenBox
  <2>1. /\ view = "editor" /\ view' = view /\ panelOn /\ panelOn' = FALSE /\ picker' = picker
        /\ UNCHANGED <<control, ownerOff, controlOn>> /\ box'.kind \in {"discard", "details"}
    BY <1>10 DEF OpenBox, Takes, inEditor
  <2>2. box' # None
    BY <2>1 DEF None
  <2> QED BY <2>1, <2>2, ChildOpens DEF Steps, Open
<1>11. CASE Keep
  <2>1. /\ box # None /\ box' = None /\ panelOn' = TRUE /\ picker' = picker
        /\ UNCHANGED <<control, ownerOff, controlOn, view>>
    BY <1>11 DEF Keep, inEditor
  <2>2. view \in Open /\ "box" \in windows
    BY <2>1, WindowsAre DEF WindowFacts, IInv, Blocking
  <2> QED BY <2>1, <2>2, ChildCloses DEF Steps
<1>12. CASE Cancel
  <2>1. /\ view = "editor" /\ view' = "manager" /\ box' = None /\ panelOn' = TRUE /\ picker' = picker
        /\ UNCHANGED <<control, ownerOff, controlOn>> /\ (panelOn \/ box.kind = "discard")
    BY <1>12 DEF Cancel, LeaveEditor, ShowManager, Takes
  <2>2. CASE box = None
    <3>1. panelOn = TRUE
      BY <2>1, <2>2, MessageFacts DEF IInv, PanelTypes
    <3> QED BY <2>1, <2>2, <3>1, StillStep DEF Open
  <2>3. CASE box # None
    <3>1. "box" \in windows
      BY <2>3, WindowsAre DEF WindowFacts
    <3> QED BY <2>1, <3>1, ChildCloses DEF Steps, Open
  <2> QED BY <2>2, <2>3
<1>13. CASE SaveEditor
  BY <1>13, StillStep DEF SaveEditor, NotifySave, window, extras
<1>14. ASSUME NEW body \in Bodies, Type(body) PROVE Steps
  BY <1>14, StillStep DEF Type, inEditor
<1>15. ASSUME NEW yes \in BOOLEAN, ClosePicker(yes) PROVE Steps
  <2>1. /\ picker /\ picker' = FALSE /\ box' = box /\ panelOn' = TRUE /\ view' = view
        /\ UNCHANGED <<control, ownerOff, controlOn>>
    BY <1>15 DEF ClosePicker
  <2>2. view \in Open /\ "picker" \in windows
    BY <2>1, WindowsAre DEF WindowFacts, IInv, Blocking
  <2> QED BY <2>1, <2>2, ChildCloses DEF Steps
<1> QED BY <1>1, <1>2, <1>3, <1>4, <1>5, <1>6, <1>7, <1>8, <1>9, <1>10, <1>11, <1>12, <1>13, <1>14,
           <1>15 DEF Next, ManagerNext, EditorNext

\* At first no window is open.
LEMMA InitTree == Init => Tree!Init
<1> SUFFICES ASSUME Init PROVE Tree!Init
  OBVIOUS
<1>1. windows = {} /\ takesInput = {}
  BY WindowsAre DEF Init, WindowFacts, Names, Open
<1>2. ownerOf = [w \in {} |-> "nobody"]
  BY <1>1 DEF ownerOf
<1> QED BY <1>1, <1>2 DEF Tree!Init

\* Every step of the panel, its owner and the windows it opens is a step of the
\* tree of modal windows, or none of its steps.
THEOREM PanelImplementsModalTree == Spec => ImplementsModalTree
<1>1. IInv /\ [Next]_vars => [Tree!Next]_<<ownerOf, takesInput>>
  BY NextSteps DEF Steps
<1> QED BY <1>1, InitTree, Invariance, PTL DEF Spec, ImplementsModalTree, Tree!Spec
=============================================================================
