------------------------- MODULE ThemeSystem_proofs -------------------------
(***************************************************************************)
(* Safety of the theme scheduler and of the lookups, for every day, every  *)
(* pair of scheduled times, all settings files and any number of events:   *)
(* the two registry values are one setting, one scheduler runs with the    *)
(* settings in force, one lookup asks, and none is begun that nobody asked *)
(* for.                                                                    *)
(***************************************************************************)
EXTENDS ThemeSystem, FiniteSetTheorems, TLAPS

Choices   == [darkOnBattery : BOOLEAN, skipFullscreen : BOOLEAN]
Schedules == [at : {"off", "check", "pause", "switch"}, settings : Choices,
              stop : BOOLEAN, until : Nat]

\* Operations, by what they hold: a mode to come, a switch, a repair
Modal     == [step : {"none", "lock"}, mode : Modes]
Writing   == [step : {"apps", "system", "verify"}, mode : Modes, prev : Pairs]
Waits     == [step |-> "lock"]
Repairing == [step : {"applied", "again"}, prev : Pairs]
Shapes(p) == IF p = "repair" THEN {NoOp, Waits} \cup Repairing
                             ELSE {NoOp} \cup Modal \cup Writing

Types ==
    /\ now \in 0..MaxTime /\ onBattery \in BOOLEAN /\ presenting \in BOOLEAN
    /\ pref \in Pairs /\ origin \in Pairs
    /\ cfg \in Settings
    /\ sched \in Slots \cup {"nil"}
    /\ loop \in [Slots -> Schedules]
    /\ \A l \in Slots : loop[l].until <= now + Day
    /\ handler \in {"ready", "stopping", "exited"} /\ exiting \in BOOLEAN
    /\ DOMAIN op = Procs /\ op = [p \in Procs |-> op[p]]
    /\ \A p \in Procs : op[p] \in Shapes(p)
    /\ damaged \in BOOLEAN
    /\ events \in 0..MaxEvents /\ fails \in 0..MaxFails

\* A scheduler thread and its operation go together
Threads ==
    \A l \in Slots :
        /\ loop[l].at = "switch" <=> op[l].step # "none"
        /\ loop[l].at = "pause" => op[l] \in Modal

Holds(p) == op[p].step \notin {"none", "lock"}

\* themeOperationMu
OneHolder == \A p, q \in Procs : Holds(p) /\ Holds(q) => p = q

Whole(pair) == \/ pair["apps"] = pair["system"]
               \/ \A v \in Values : Mode(pair[v]) = Mode(origin[v])

\* The operation under way can put back what was there, and that was whole
Restorable ==
    \A p \in Procs : Holds(p) =>
        /\ damaged \/ Whole(op[p].prev)
        /\ op[p].step = "apps" => pref = op[p].prev

\* No thread but that of s.themeSched, which runs unless it is being stopped
OneThread ==
    /\ \A l \in Slots : loop[l].at # "off" => l = sched
    /\ handler # "stopping" =>
          /\ (sched # "nil") <=> (handler = "ready" /\ cfg.enabled /\ cfg.supported)
          /\ sched # "nil" => /\ loop[sched].at # "off"
                              /\ loop[sched].settings = Options(cfg) /\ ~loop[sched].stop

ThemeInv == Types /\ Threads /\ OneHolder /\ Restorable /\ NeverTorn /\ OneThread

\* The service is asked by one lookup at a time
OneAsks ==
    /\ \A l, m \in lookups : l.step = "asking" /\ m.step = "asking" => l = m
    /\ cache.querying <=> \E l \in lookups : l.step = "asking"

\* The timer of the cycle in force belongs to settings that ask for lookups, as
\* soon as the cycle has been told of the settings
TimerIsWanted ==
    /\ generation >= 1
    /\ handler # "stopping" => due = "nothing"
    /\ due = "nothing" /\ retry.gen = generation => wanted /\ cfg.supported

LocationInv ==
    /\ Loc!TypeOK /\ OneAsks /\ TimerIsWanted
    /\ wanted \in BOOLEAN /\ place \in {"zone", "ip"}
    /\ due \in {"nothing", "start", "stop"} /\ turns \in 0..MaxTurns

IInv == ThemeInv /\ LocationInv
-----------------------------------------------------------------------------
(* The clock and the modes *)

\* The transition a choice is held until is ahead, by a day at most.
LEMMA NextIsNear == now \in Nat => NextTransition \in Nat /\ NextTransition <= now + Day
<1> SUFFICES ASSUME now \in Nat
             PROVE  NextTransition \in Nat /\ NextTransition <= now + Day
  OBVIOUS
<1>1. Day \in Nat /\ Day > 0 /\ LightAt \in 0..(Day - 1) /\ DarkAt \in 0..(Day - 1)
  BY ThemeAssumption
<1> DEFINE midnight == (now \div Day) * Day
<1>2. midnight \in Nat /\ midnight <= now /\ now < midnight + Day
  BY <1>1
<1> DEFINE Coming(minute) == IF midnight + minute > now THEN midnight + minute
                                                        ELSE midnight + minute + Day
<1>3. NextTransition = IF Coming(LightAt) < Coming(DarkAt) THEN Coming(LightAt) ELSE Coming(DarkAt)
  BY DEF NextTransition, Today
<1> HIDE DEF midnight
<1>4. \A minute \in 0..(Day - 1) : Coming(minute) \in Nat /\ Coming(minute) <= now + Day
  BY <1>1, <1>2
<1> HIDE DEF Coming
<1> QED BY <1>1, <1>3, <1>4

\* A mode read back is the mode that it is.
LEMMA ModeFacts ==
  /\ \A value \in Modes \cup {"absent"} : Mode(value) \in Modes /\ Mode(Mode(value)) = Mode(value)
  /\ \A value \in Modes \cup {"absent"} : value \in Modes => Mode(value) = value
BY DEF Mode, Modes

\* How many values are lost is a number.
LEMMA LostFacts == \A lost \in SUBSET Values : Cardinality(lost) \in Nat
<1>1. IsFiniteSet({"apps"}) /\ IsFiniteSet(Values)
  <2>1. Values = ({} \cup {"apps"}) \cup {"system"}
    BY DEF Values
  <2>2. IsFiniteSet({}) /\ IsFiniteSet({} \cup {"apps"})
    BY FS_EmptySet, FS_AddElement
  <2>3. IsFiniteSet(Values)
    BY <2>1, <2>2, FS_AddElement
  <2> QED BY <2>2, <2>3
<1>2. \A lost \in SUBSET Values : IsFiniteSet(lost)
  BY <1>1, FS_Subset
<1> QED BY <1>2, FS_CardinalityType

\* What a process does is told by the step.
LEMMA ShapeFacts ==
  ASSUME NEW p \in Procs, NEW o \in Shapes(p)
  PROVE  /\ o.step \in {"none", "lock", "apps", "system", "verify", "applied", "again"}
         /\ o.step = "lock" /\ p # "repair" => o \in Modal
         /\ o.step \in {"apps", "system", "verify"} => p # "repair" /\ o \in Writing
         /\ o.step \in {"applied", "again"} => p = "repair" /\ o \in Repairing
<1>1. NoOp.step = "none" /\ Waits.step = "lock"
  BY DEF NoOp, Waits
<1>2. \A x \in Modal : x.step \in {"none", "lock"}
  BY DEF Modal
<1>3. \A x \in Writing : x.step \in {"apps", "system", "verify"}
  BY DEF Writing
<1>4. \A x \in Repairing : x.step \in {"applied", "again"}
  BY DEF Repairing
<1> QED BY <1>1, <1>2, <1>3, <1>4 DEF Shapes
-----------------------------------------------------------------------------
(* The switch, step by step *)

\* An operation that is over lets its scheduler thread go on, and nobody else.
LEMMA DoneFacts ==
  ASSUME ThemeInv, NEW p \in Procs, op[p].step # "none", Done(p),
         UNCHANGED <<now, cfg, sched, handler>>
  PROVE  /\ loop' \in [Slots -> Schedules] /\ \A l \in Slots : loop'[l].until <= now' + Day
         /\ DOMAIN op' = Procs /\ op' = [q \in Procs |-> op'[q]]
         /\ op'[p] = NoOp /\ op'[p].step = "none"
         /\ \A q \in Procs \ {p} : op'[q] = op[q]
         /\ \A q \in Procs : op'[q] \in Shapes(q)
         /\ Threads' /\ OneThread'
<1>1. NoOp.step = "none" /\ \A q \in Procs : NoOp \in Shapes(q)
  BY DEF NoOp, Shapes
<1>2. /\ DOMAIN op' = Procs /\ op' = [q \in Procs |-> op'[q]]
      /\ op'[p] = NoOp
      /\ \A q \in Procs \ {p} : op'[q] = op[q]
  BY DEF ThemeInv, Types, Done
<1>3. \A q \in Procs : op'[q] \in Shapes(q)
  BY <1>1, <1>2 DEF ThemeInv, Types
<1>4. CASE p \notin Slots
  <2>1. loop' = loop /\ \A l \in Slots : op'[l] = op[l]
    BY <1>2, <1>4 DEF Done, Procs
  <2> QED BY <1>1, <1>2, <1>3, <2>1 DEF ThemeInv, Types, Threads, OneThread
<1>5. CASE p \in Slots
  <2>1. loop[p].at = "switch"
    BY <1>5 DEF ThemeInv, Threads
  <2>2. loop' = [loop EXCEPT ![p].at = "check"]
    BY <1>5 DEF Done
  <2>3. /\ loop' \in [Slots -> Schedules]
        /\ loop'[p].at = "check" /\ loop'[p].until = loop[p].until
        /\ loop'[p].settings = loop[p].settings /\ loop'[p].stop = loop[p].stop
        /\ \A l \in Slots \ {p} : loop'[l] = loop[l]
    BY <1>5, <2>2 DEF ThemeInv, Types, Schedules
  <2>4. \A l \in Slots : loop'[l].until <= now' + Day
    BY <2>3 DEF ThemeInv, Types
  <2>5. Threads'
    BY <1>1, <1>2, <2>3 DEF ThemeInv, Threads, Procs
  <2>6. OneThread'
    BY <1>5, <2>1, <2>3 DEF ThemeInv, OneThread, Slots
  <2> QED BY <1>1, <1>2, <1>3, <2>3, <2>4, <2>5, <2>6
<1> QED BY <1>4, <1>5

\* The mutex is free again: what was whole, or put back, or reported is left.
LEMMA OverKeeps ==
  ASSUME ThemeInv, NEW p \in Procs, op[p].step # "none", Done(p),
         Holds(p) \/ ~Busy,
         pref' \in Pairs, damaged' \in BOOLEAN, fails' \in 0..MaxFails,
         damaged' \/ Whole(pref'),
         UNCHANGED <<env, app, origin, events>>
  PROVE  ThemeInv'
<1>1. UNCHANGED <<now, onBattery, presenting, cfg, sched, handler, exiting, origin, events>>
  BY DEF env, app
<1>2. /\ loop' \in [Slots -> Schedules] /\ \A l \in Slots : loop'[l].until <= now' + Day
      /\ DOMAIN op' = Procs /\ op' = [q \in Procs |-> op'[q]]
      /\ op'[p] = NoOp /\ op'[p].step = "none"
      /\ \A q \in Procs \ {p} : op'[q] = op[q]
      /\ \A q \in Procs : op'[q] \in Shapes(q)
      /\ Threads' /\ OneThread'
  BY <1>1, DoneFacts
<1>3. \A q \in Procs : ~Holds(q)'
  BY <1>2 DEF ThemeInv, OneHolder, Holds, Busy
<1>4. Types'
  BY <1>1, <1>2 DEF ThemeInv, Types
<1>5. OneHolder' /\ Restorable'
  BY <1>3 DEF OneHolder, Restorable
<1>6. NeverTorn'
  BY <1>1 DEF NeverTorn, Whole
<1> QED BY <1>2, <1>4, <1>5, <1>6 DEF ThemeInv

\* The holder goes on to its next step, or a waiting one takes the mutex.
LEMMA GoesOnKeeps ==
  ASSUME ThemeInv, NEW p \in Procs, op[p].step # "none",
         Holds(p) \/ ~Busy,
         NEW o \in Shapes(p), op' = [op EXCEPT ![p] = o],
         o.step \notin {"none", "lock"},
         damaged \/ Whole(o.prev),
         o.step = "apps" => pref' = o.prev,
         pref' \in Pairs, fails' \in 0..MaxFails,
         UNCHANGED <<env, app, loop, damaged, origin, events>>
  PROVE  ThemeInv'
<1>1. UNCHANGED <<now, onBattery, presenting, cfg, sched, handler, exiting, origin, events, loop, damaged>>
  BY DEF env, app
<1>2. /\ DOMAIN op' = Procs /\ op' = [q \in Procs |-> op'[q]]
      /\ op'[p] = o /\ \A q \in Procs \ {p} : op'[q] = op[q]
  BY DEF ThemeInv, Types
<1>3. \A q \in Procs \ {p} : ~Holds(q)'
  BY <1>2 DEF ThemeInv, OneHolder, Holds, Busy
<1>4. Types'
  BY <1>1, <1>2 DEF ThemeInv, Types
<1>5. Threads'
  <2>1. \A l \in Slots : l = p => loop[l].at = "switch"
    BY DEF ThemeInv, Threads
  <2> QED BY <1>1, <1>2, <2>1 DEF ThemeInv, Threads, Procs
<1>6. OneHolder'
  BY <1>3 DEF OneHolder
<1>7. Restorable'
  BY <1>1, <1>2, <1>3 DEF Restorable, Whole
<1>8. NeverTorn'
  BY <1>2 DEF NeverTorn, Busy
<1>9. OneThread'
  BY <1>1 DEF ThemeInv, OneThread
<1> QED BY <1>4, <1>5, <1>6, <1>7, <1>8, <1>9 DEF ThemeInv

\* What a failing write puts back.
LEMMA UndoKeeps ==
  ASSUME ThemeInv, NEW p \in Procs, op[p].step \in {"apps", "system", "verify"},
         NEW attempted \in SUBSET Values,
         \A v \in Values \ attempted : pref[v] = op[p].prev[v],
         Undo(p, attempted), UNCHANGED <<env, app, origin, events>>
  PROVE  ThemeInv'
<1>1. op[p] \in Writing /\ op[p].prev \in Pairs /\ Holds(p)
  BY ShapeFacts DEF ThemeInv, Types, Writing, Holds
<1>2. PICK lost \in SUBSET attempted :
         /\ fails + 1 + Cardinality(lost) <= MaxFails
         /\ fails' = fails + 1 + Cardinality(lost)
         /\ PutBack(p, attempted \ lost)
         /\ damaged' = (damaged \/ lost # {})
  BY DEF Undo
<1>3. Done(p)
  BY DEF Undo
<1>4. fails' \in 0..MaxFails
  BY <1>2, LostFacts, ThemeAssumption DEF ThemeInv, Types
<1>5. pref' = [v \in Values |-> IF v \in attempted \ lost THEN op[p].prev[v] ELSE pref[v]]
  BY <1>2 DEF PutBack
<1>6. pref' \in Pairs
  BY <1>1, <1>5 DEF Pairs, ThemeInv, Types
<1>7. damaged' \in BOOLEAN
  BY <1>2
<1>8. damaged' \/ Whole(pref')
  <2>1. CASE lost = {}
    <3>1. pref' = op[p].prev
      BY <1>1, <1>5, <2>1 DEF Pairs
    <3> QED BY <1>1, <1>2, <3>1 DEF ThemeInv, Restorable
  <2> QED BY <1>2, <2>1
<1> QED BY <1>1, <1>3, <1>4, <1>6, <1>7, <1>8, OverKeeps

\* The values before the operation are whole: nobody holds the mutex.
LEMMA LockKeeps == ASSUME NEW p \in Procs PROVE ThemeInv /\ Lock(p) => ThemeInv'
<1> SUFFICES ASSUME ThemeInv, Lock(p) PROVE ThemeInv'
  OBVIOUS
<1>1. /\ op[p].step = "lock" /\ ~Busy /\ pref \in Pairs /\ op[p] \in Shapes(p)
      /\ fails \in 0..MaxFails /\ damaged \in BOOLEAN
      /\ UNCHANGED <<env, app, damaged, origin, events>>
  BY DEF Lock, Acquires, ThemeInv, Types
<1>2. damaged \/ Whole(pref)
  BY <1>1 DEF ThemeInv, NeverTorn, Whole
<1>3. ASSUME Done(p), UNCHANGED pref, fails' \in 0..MaxFails PROVE ThemeInv'
  <2>1. damaged' \/ Whole(pref')
    BY <1>1, <1>2, <1>3 DEF Whole
  <2>2. pref' \in Pairs /\ damaged' \in BOOLEAN
    BY <1>1, <1>3
  <2> QED BY <1>1, <1>3, <2>1, <2>2, OverKeeps
<1>4. CASE Fault /\ Done(p) /\ UNCHANGED pref
  <2>1. fails' \in 0..MaxFails
    BY <1>1, <1>4, ThemeAssumption DEF Fault
  <2> QED BY <1>3, <1>4, <2>1
<1>5. CASE p = "repair" /\ Done(p) /\ UNCHANGED <<pref, fails>>
  BY <1>1, <1>3, <1>5
<1>6. CASE /\ op' = [op EXCEPT ![p] = IF p = "repair" THEN [step |-> "applied", prev |-> pref]
                                      ELSE [step |-> "apps", mode |-> @.mode, prev |-> pref]]
           /\ IF p = "repair" THEN \E m, n \in Modes : pref' = [apps |-> m, system |-> n]
              ELSE UNCHANGED pref
           /\ UNCHANGED <<loop, fails>>
  <2>1. CASE p = "repair"
    <3> DEFINE o == [step |-> "applied", prev |-> pref]
    <3>1. op' = [op EXCEPT ![p] = o]
      BY <1>6, <2>1
    <3>2. o \in Shapes(p)
      BY <1>1, <2>1 DEF Shapes, Repairing
    <3>3. pref' \in Pairs
      BY <1>6, <2>1 DEF Pairs, Values, Modes
    <3>4. o.step = "applied" /\ o.prev = pref
      OBVIOUS
    <3> HIDE DEF o
    <3> QED BY <1>1, <1>2, <1>6, <3>1, <3>2, <3>3, <3>4, GoesOnKeeps
  <2>2. CASE p # "repair"
    <3> DEFINE o == [step |-> "apps", mode |-> op[p].mode, prev |-> pref]
    <3>1. op' = [op EXCEPT ![p] = o]
      BY <1>6, <2>2 DEF ThemeInv, Types
    <3>2. o \in Shapes(p)
      BY <1>1, <2>2, ShapeFacts DEF Shapes, Writing, Modal
    <3>3. pref' \in Pairs /\ pref' = pref
      BY <1>1, <1>6, <2>2
    <3>4. o.step = "apps" /\ o.prev = pref
      OBVIOUS
    <3> HIDE DEF o
    <3> QED BY <1>1, <1>2, <1>6, <3>1, <3>2, <3>3, <3>4, GoesOnKeeps
  <2> QED BY <2>1, <2>2
<1> QED BY <1>4, <1>5, <1>6 DEF Lock

\* A step of a holder that changes nothing of the operation but its place.
LEMMA SetKeeps ==
  ASSUME ThemeInv, NEW p \in Procs, Holds(p),
         NEW step \in {"system", "verify", "again"},
         step = "again" <=> op[p].step \in {"applied", "again"},
         Set(p, step), pref' \in Pairs, fails' \in 0..MaxFails,
         UNCHANGED <<env, app, loop, damaged, origin, events>>
  PROVE  ThemeInv'
<1> DEFINE o == [op[p] EXCEPT !.step = step]
<1>1. op' = [op EXCEPT ![p] = o]
  BY DEF Set, ThemeInv, Types
<1>2. op[p] \in Shapes(p)
  BY DEF ThemeInv, Types
<1>3. CASE op[p].step \in {"applied", "again"}
  <2>1. p = "repair" /\ op[p] \in Repairing
    BY <1>2, <1>3, ShapeFacts
  <2>2. o \in Repairing /\ o.step = "again" /\ o.prev = op[p].prev
    BY <1>3, <2>1 DEF Repairing
  <2>3. o \in Shapes(p) /\ (damaged \/ Whole(o.prev))
    BY <2>1, <2>2 DEF Shapes, ThemeInv, Restorable
  <2> HIDE DEF o
  <2> QED BY <1>1, <2>2, <2>3, GoesOnKeeps DEF Holds
<1>4. CASE op[p].step \notin {"applied", "again"}
  <2>1. p # "repair" /\ op[p] \in Writing
    BY <1>2, <1>4, ShapeFacts DEF Holds
  <2>2. o \in Writing /\ o.step = step /\ o.step # "apps" /\ o.prev = op[p].prev
    BY <1>4, <2>1 DEF Writing
  <2>3. o \in Shapes(p) /\ (damaged \/ Whole(o.prev))
    BY <2>1, <2>2 DEF Shapes, ThemeInv, Restorable
  <2> HIDE DEF o
  <2> QED BY <1>1, <2>2, <2>3, GoesOnKeeps DEF Holds
<1> QED BY <1>3, <1>4

\* setTheme's first write: while it may fail, the old pair can be restored.
LEMMA SetAppsKeeps == ASSUME NEW p \in Procs PROVE ThemeInv /\ SetApps(p) => ThemeInv'
<1> SUFFICES ASSUME ThemeInv, SetApps(p) PROVE ThemeInv'
  OBVIOUS
<1>1. /\ op[p].step = "apps" /\ Holds(p) /\ UNCHANGED <<env, app, origin, events>>
      /\ op[p] \in Writing /\ pref = op[p].prev /\ pref \in Pairs /\ fails \in 0..MaxFails
  BY ShapeFacts DEF SetApps, Holds, ThemeInv, Types, Restorable
<1>2. CASE Undo(p, {"apps"})
  <2>1. {"apps"} \in SUBSET Values
    BY DEF Values
  <2> QED BY <1>1, <1>2, <2>1, UndoKeeps
<1>3. CASE /\ pref' = [pref EXCEPT !["apps"] = op[p].mode] /\ Set(p, "system")
           /\ UNCHANGED <<loop, damaged, fails>>
  <2>1. pref' \in Pairs
    BY <1>1, <1>3 DEF Pairs, Writing
  <2> QED BY <1>1, <1>3, <2>1, SetKeeps
<1> QED BY <1>2, <1>3 DEF SetApps

\* setTheme's second write, after which the pair is one setting or is put back.
LEMMA SetSystemKeeps == ASSUME NEW p \in Procs PROVE ThemeInv /\ SetSystem(p) => ThemeInv'
<1> SUFFICES ASSUME ThemeInv, SetSystem(p) PROVE ThemeInv'
  OBVIOUS
<1>1. /\ op[p].step = "system" /\ Holds(p) /\ UNCHANGED <<env, app, origin, events>>
      /\ op[p] \in Writing /\ pref \in Pairs /\ fails \in 0..MaxFails
  BY ShapeFacts DEF SetSystem, Holds, ThemeInv, Types
<1>2. CASE Undo(p, {"apps", "system"})
  <2>1. {"apps", "system"} = Values
    BY DEF Values
  <2> QED BY <1>1, <1>2, <2>1, UndoKeeps
<1>3. CASE /\ pref' = [pref EXCEPT !["system"] = op[p].mode] /\ Set(p, "verify")
           /\ UNCHANGED <<loop, damaged, fails>>
  <2>1. pref' \in Pairs
    BY <1>1, <1>3 DEF Pairs, Writing
  <2> QED BY <1>1, <1>3, <2>1, SetKeeps
<1> QED BY <1>2, <1>3 DEF SetSystem

\* Both values are the mode that was asked for, or both are put back.
LEMMA VerifyKeeps == ASSUME NEW p \in Procs PROVE ThemeInv /\ Verify(p) => ThemeInv'
<1> SUFFICES ASSUME ThemeInv, Verify(p) PROVE ThemeInv'
  OBVIOUS
<1>1. /\ op[p].step = "verify" /\ Holds(p) /\ UNCHANGED <<env, app, origin, events>>
      /\ pref \in Pairs /\ fails \in 0..MaxFails /\ damaged \in BOOLEAN
  BY DEF Verify, Holds, ThemeInv, Types
<1>2. CASE Undo(p, Values)
  BY <1>1, <1>2, UndoKeeps
<1>3. CASE /\ \A v \in Values : pref[v] = op[p].mode
           /\ Done(p) /\ UNCHANGED <<pref, damaged, fails>>
  <2>1. Whole(pref')
    BY <1>3 DEF Whole, Values
  <2> QED BY <1>1, <1>3, <2>1, OverKeeps
<1> QED BY <1>2, <1>3 DEF Verify

\* The modes are put back, or the second attempt has failed and says so.
LEMMA RestoreModesKeeps == ASSUME NEW p \in Procs PROVE ThemeInv /\ RestoreModes(p) => ThemeInv'
<1> SUFFICES ASSUME ThemeInv, RestoreModes(p) PROVE ThemeInv'
  OBVIOUS
<1>1. /\ op[p].step \in {"applied", "again"} /\ Holds(p) /\ UNCHANGED <<env, app, origin, events>>
      /\ op[p] \in Repairing /\ op[p].prev \in Pairs /\ fails \in 0..MaxFails /\ damaged \in BOOLEAN
  BY ShapeFacts DEF RestoreModes, Holds, ThemeInv, Types, Repairing
<1>2. PICK lost \in SUBSET Values :
          /\ fails + Cardinality(lost) <= MaxFails
          /\ fails' = fails + Cardinality(lost)
          /\ \E other \in [lost -> Modes] :
                pref' = [v \in Values |-> IF v \in lost THEN other[v] ELSE Mode(op[p].prev[v])]
          /\ IF lost = {} \/ op[p].step = "again"
             THEN /\ Done(p)
                  /\ damaged' = (damaged \/ lost # {})
             ELSE Set(p, "again") /\ UNCHANGED <<loop, damaged>>
  BY DEF RestoreModes
<1>3. fails' \in 0..MaxFails
  BY <1>1, <1>2, LostFacts, ThemeAssumption
<1>4. PICK other \in [lost -> Modes] :
         pref' = [v \in Values |-> IF v \in lost THEN other[v] ELSE Mode(op[p].prev[v])]
  BY <1>2
<1>5. pref' \in Pairs
  BY <1>1, <1>4, ModeFacts DEF Pairs
<1>6. CASE lost = {} \/ op[p].step = "again"
  <2>1. Done(p) /\ damaged' = (damaged \/ lost # {}) /\ damaged' \in BOOLEAN
    BY <1>2, <1>6
  <2>2. damaged' \/ Whole(pref')
    <3>1. CASE lost = {} /\ ~damaged
      <4>1. \A v \in Values : pref'[v] = Mode(op[p].prev[v]) /\ op[p].prev[v] \in Modes \cup {"absent"}
        BY <1>1, <1>4, <3>1 DEF Pairs
      <4>2. Whole(op[p].prev)
        BY <1>1, <3>1 DEF ThemeInv, Restorable
      <4>3. CASE op[p].prev["apps"] = op[p].prev["system"]
        BY <4>1, <4>3 DEF Whole, Values
      <4>4. CASE \A v \in Values : Mode(op[p].prev[v]) = Mode(origin[v])
        BY <4>1, <4>4, ModeFacts DEF Whole
      <4> QED BY <4>2, <4>3, <4>4 DEF Whole
    <3> QED BY <2>1, <3>1
  <2> QED BY <1>1, <1>3, <1>5, <2>1, <2>2, OverKeeps
<1>7. CASE ~(lost = {} \/ op[p].step = "again")
  BY <1>1, <1>2, <1>3, <1>5, <1>7, SetKeeps
<1> QED BY <1>6, <1>7
-----------------------------------------------------------------------------
(* The environment and the scheduler's thread *)

\* Time passes, power and foreground change, the user picks a mode in Windows.
LEMMA EnvironmentKeeps == ThemeInv /\ Environment => ThemeInv'
<1> SUFFICES ASSUME ThemeInv, Environment PROVE ThemeInv'
  OBVIOUS
<1>1. CASE Tick
  <2>1. /\ now < MaxTime /\ now' = now + 1
        /\ UNCHANGED <<onBattery, presenting, pref, cfg, sched, handler, exiting, loop, op,
                       damaged, origin, events, fails>>
    BY <1>1 DEF Tick, app
  <2>2. now' \in 0..MaxTime /\ now' >= now /\ now \in Nat /\ now' \in Nat /\ Day \in Nat
    BY <2>1, ThemeAssumption DEF ThemeInv, Types
  <2>3. \A l \in Slots : loop'[l].until <= now' + Day
    BY <2>1, <2>2 DEF ThemeInv, Types, Schedules
  <2>4. Types'
    BY <2>1, <2>2, <2>3 DEF ThemeInv, Types
  <2> QED BY <2>1, <2>4 DEF ThemeInv, Threads, OneHolder, Holds, Restorable, Whole, NeverTorn,
                            Busy, OneThread
<1>2. CASE Surroundings
  <2>1. /\ UNCHANGED <<now, pref, cfg, sched, handler, exiting, loop, op, damaged, origin, fails>>
        /\ onBattery' \in BOOLEAN /\ presenting' \in BOOLEAN
    BY <1>2 DEF Surroundings, app, ThemeInv, Types
  <2>2. events' \in 0..MaxEvents
    BY <1>2, ThemeAssumption DEF Surroundings, Event, ThemeInv, Types
  <2>3. Types'
    BY <2>1, <2>2 DEF ThemeInv, Types
  <2> QED BY <2>1, <2>3 DEF ThemeInv, Threads, OneHolder, Holds, Restorable, Whole, NeverTorn,
                            Busy, OneThread
<1>3. CASE WindowsSettings
  <2>1. /\ UNCHANGED <<now, onBattery, presenting, cfg, sched, handler, exiting, loop, op, fails>>
        /\ origin' = pref' /\ damaged' = FALSE /\ ~Busy
    BY <1>3 DEF WindowsSettings, env, app
  <2>2. pref' \in Pairs
    BY <1>3 DEF WindowsSettings, Pairs, Values, Modes
  <2>3. events' \in 0..MaxEvents
    BY <1>3, ThemeAssumption DEF WindowsSettings, Event, ThemeInv, Types
  <2>4. Types'
    BY <2>1, <2>2, <2>3 DEF ThemeInv, Types
  <2>5. \A p \in Procs : ~Holds(p) /\ ~Holds(p)'
    BY <2>1 DEF Busy, Holds
  <2>6. (Threads /\ OneHolder /\ Restorable /\ NeverTorn /\ OneThread)'
    BY <2>1, <2>5 DEF ThemeInv, Threads, OneHolder, Restorable, NeverTorn, OneThread
  <2> QED BY <2>4, <2>6 DEF ThemeInv
<1> QED BY <1>1, <1>2, <1>3 DEF Environment

\* A thread moves on with its operation: it neither holds nor takes the mutex.
LEMMA ThreadMoves ==
  ASSUME ThemeInv, NEW l \in Slots, ~Holds(l), NEW at \in {"off", "check", "pause", "switch"},
         NEW o \in {NoOp} \cup Modal,
         loop[l].at # "off", at = "off" => loop[l].stop,
         at = "switch" <=> o.step # "none", at = "pause" => o \in Modal,
         loop' = [loop EXCEPT ![l].at = at], op' = [op EXCEPT ![l] = o],
         fails' \in 0..MaxFails, UNCHANGED <<env, pref, app, damaged, origin, events>>
  PROVE  ThemeInv'
<1>1. UNCHANGED <<now, onBattery, presenting, pref, cfg, sched, handler, exiting, damaged, origin,
                  events>>
  BY DEF env, app
<1>2. /\ DOMAIN op' = Procs /\ op' = [q \in Procs |-> op'[q]]
      /\ op'[l] = o /\ \A q \in Procs \ {l} : op'[q] = op[q]
  BY DEF ThemeInv, Types, Procs
<1>3. o \in Shapes(l) /\ l \in Procs /\ o.step \in {"none", "lock"}
  BY DEF Shapes, Slots, Procs, Modal, NoOp
<1>4. /\ loop' \in [Slots -> Schedules]
      /\ loop'[l].at = at /\ loop'[l].until = loop[l].until
      /\ loop'[l].settings = loop[l].settings /\ loop'[l].stop = loop[l].stop
      /\ \A m \in Slots \ {l} : loop'[m] = loop[m]
  BY DEF ThemeInv, Types, Schedules
<1>5. \A m \in Slots : loop'[m].until <= now' + Day
  BY <1>1, <1>4 DEF ThemeInv, Types
<1>6. Types'
  BY <1>1, <1>2, <1>3, <1>4, <1>5 DEF ThemeInv, Types
<1>7. Threads'
  BY <1>2, <1>3, <1>4 DEF ThemeInv, Threads, Procs
<1>8. \A q \in Procs : Holds(q)' => Holds(q) /\ op'[q] = op[q]
  BY <1>2, <1>3 DEF Holds
<1>9. \A q \in Procs : Holds(q) => Holds(q)'
  BY <1>2, <1>3 DEF Holds
<1>10. OneHolder' /\ Restorable'
  BY <1>1, <1>8 DEF ThemeInv, OneHolder, Restorable, Whole
<1>11. NeverTorn'
  BY <1>1, <1>9 DEF ThemeInv, NeverTorn, Busy, Holds
<1>12. OneThread'
  BY <1>1, <1>4 DEF ThemeInv, OneThread, Slots
<1> QED BY <1>6, <1>7, <1>10, <1>11, <1>12 DEF ThemeInv

\* A check that finds another theme than the wanted one, a pause, the end.
LEMMA ThreadKeeps == ASSUME NEW l \in Slots PROVE ThemeInv /\ Thread(l) => ThemeInv'
<1> SUFFICES ASSUME ThemeInv, Thread(l) PROVE ThemeInv'
  OBVIOUS
<1>1. /\ loop \in [Slots -> Schedules] /\ DOMAIN op = Procs /\ l \in Procs
      /\ op = [p \in Procs |-> op[p]] /\ op[l] \in Shapes(l)
      /\ Shapes(l) = {NoOp} \cup Modal \cup Writing
      /\ NoOp.step = "none"
      /\ fails \in 0..MaxFails
  BY DEF ThemeInv, Types, Procs, Shapes, Slots, NoOp
<1>2. loop[l].at # "switch" => op[l].step = "none" /\ ~Holds(l)
  BY DEF ThemeInv, Threads, Holds
<1>3. \A mode \in Modes : [step |-> "lock", mode |-> mode] \in Modal
                          /\ [step |-> "none", mode |-> mode] \in Modal
  BY DEF Modal
<1>4. CASE Check(l)
  <2>1. loop[l].at = "check" /\ Wanted(l) \in Modes
    BY <1>4 DEF Check, Wanted, Target, Modes
  <2>2. fails' \in 0..MaxFails /\ UNCHANGED <<env, pref, app, damaged, origin, events>>
    BY <1>1, <1>4 DEF Check
  <2>3. CASE loop[l].settings.skipFullscreen
    <3> DEFINE o == [step |-> "none", mode |-> Wanted(l)]
    <3>1. loop' = [loop EXCEPT ![l].at = "pause"] /\ op' = [op EXCEPT ![l] = o]
      BY <1>4, <2>3 DEF Check
    <3>2. o \in Modal /\ o.step = "none"
      BY <1>3, <2>1
    <3> HIDE DEF o
    <3> QED BY <1>2, <2>1, <2>2, <3>1, <3>2, ThreadMoves
  <2>4. CASE ~loop[l].settings.skipFullscreen
    <3> DEFINE o == [step |-> "lock", mode |-> Wanted(l)]
    <3>1. loop' = [loop EXCEPT ![l].at = "switch"] /\ op' = [op EXCEPT ![l] = o]
      BY <1>4, <2>4 DEF Check, Begin
    <3>2. o \in Modal /\ o.step = "lock"
      BY <1>3, <2>1
    <3> HIDE DEF o
    <3> QED BY <1>2, <2>1, <2>2, <3>1, <3>2, ThreadMoves
  <2> QED BY <2>3, <2>4
<1>5. CASE Pause(l)
  <2>1. /\ loop[l].at = "pause" /\ op[l] \in Modal
        /\ UNCHANGED <<env, pref, app, damaged, origin, events>>
        /\ fails' = fails \/ Fault
    BY <1>5 DEF Pause, ThemeInv, Threads
  <2>2. fails' \in 0..MaxFails
    BY <1>1, <2>1, ThemeAssumption DEF Fault
  <2>3. CASE loop' = [loop EXCEPT ![l].at = "check"] /\ op' = [op EXCEPT ![l] = NoOp]
    BY <1>1, <1>2, <2>1, <2>2, <2>3, ThreadMoves
  <2>4. CASE Begin(l, op[l].mode)
    <3> DEFINE o == [step |-> "lock", mode |-> op[l].mode]
    <3>1. loop' = [loop EXCEPT ![l].at = "switch"] /\ op' = [op EXCEPT ![l] = o]
      BY <2>4 DEF Begin
    <3>2. o \in Modal /\ o.step = "lock"
      BY <1>3, <2>1 DEF Modal
    <3> HIDE DEF o
    <3> QED BY <1>2, <2>1, <2>2, <3>1, <3>2, ThreadMoves
  <2> QED BY <1>5, <2>3, <2>4 DEF Pause
<1>6. CASE Leave(l)
  <2>1. /\ loop[l].at = "check" /\ loop[l].stop /\ loop' = [loop EXCEPT ![l].at = "off"]
        /\ fails' \in 0..MaxFails /\ UNCHANGED <<env, pref, app, op, damaged, origin, events>>
    BY <1>1, <1>6 DEF Leave
  <2>2. op[l] \in {NoOp} \cup Modal /\ op[l].step = "none"
    BY <1>1, <1>2, <2>1 DEF Writing
  <2>3. op' = [op EXCEPT ![l] = op[l]]
    BY <1>1, <2>1
  <2> QED BY <1>2, <2>1, <2>2, <2>3, ThreadMoves
<1> QED BY <1>4, <1>5, <1>6 DEF Thread
-----------------------------------------------------------------------------
(* The request loop *)

\* The channel of the scheduler in force is closed, whatever the settings become.
LEMMA StoppingKeeps ==
  ASSUME ThemeInv, NEW c \in Settings, NEW quit \in BOOLEAN, Stopping(c, quit), handler = "ready",
         events' \in 0..MaxEvents
  PROVE  ThemeInv'
<1>1. /\ UNCHANGED <<now, onBattery, presenting, pref, sched, op, damaged, origin, fails>>
      /\ cfg' = c /\ exiting' = quit /\ handler' = "stopping"
      /\ loop' = [l \in Slots |-> IF l = sched THEN [loop[l] EXCEPT !.stop = TRUE] ELSE loop[l]]
  BY DEF Stopping, env
<1>2. /\ loop' \in [Slots -> Schedules]
      /\ \A l \in Slots : loop'[l].at = loop[l].at /\ loop'[l].until = loop[l].until
  <2>1. \A l \in Slots : loop[l] \in Schedules
    BY DEF ThemeInv, Types
  <2>2. \A x \in Schedules : /\ [x EXCEPT !.stop = TRUE] \in Schedules
                             /\ [x EXCEPT !.stop = TRUE].at = x.at
                             /\ [x EXCEPT !.stop = TRUE].until = x.until
    BY DEF Schedules
  <2> QED BY <1>1, <2>1, <2>2
<1>3. Types'
  BY <1>1, <1>2 DEF ThemeInv, Types
<1>4. (Threads /\ OneHolder /\ Restorable /\ NeverTorn)'
  BY <1>1, <1>2 DEF ThemeInv, Threads, OneHolder, Holds, Restorable, Whole, NeverTorn, Busy
<1>5. OneThread'
  BY <1>1, <1>2 DEF ThemeInv, OneThread
<1> QED BY <1>3, <1>4, <1>5 DEF ThemeInv

\* Without a scheduler an option changes nothing else.
LEMMA RestartKeeps ==
  ASSUME ThemeInv, NEW c \in Settings, c.enabled <=> cfg.enabled, c.supported <=> cfg.supported,
         Restart(c), handler = "ready", events' \in 0..MaxEvents
  PROVE  ThemeInv'
<1>1. CASE c.enabled
  <2>1. Stopping(c, FALSE)
    BY <1>1 DEF Restart
  <2> QED BY <2>1, StoppingKeeps
<1>2. CASE ~c.enabled
  <2>1. cfg' = c /\ UNCHANGED <<now, onBattery, presenting, pref, sched, loop, handler, exiting,
                                op, damaged, origin, fails>>
    BY <1>2 DEF Restart, env
  <2>2. Types'
    BY <2>1 DEF ThemeInv, Types
  <2>3. (Threads /\ OneHolder /\ Restorable /\ NeverTorn)'
    BY <2>1 DEF ThemeInv, Threads, OneHolder, Holds, Restorable, Whole, NeverTorn, Busy
  <2>4. OneThread'
    BY <1>2, <2>1 DEF ThemeInv, OneThread
  <2> QED BY <2>2, <2>3, <2>4 DEF ThemeInv
<1> QED BY <1>1, <1>2

\* A toggled option is a setting again, and the schedule stays on.
LEMMA OptionFacts ==
  ASSUME cfg \in Settings
  PROVE  /\ [cfg EXCEPT !.enabled = ~@] \in Settings
         /\ [cfg EXCEPT !.darkOnBattery = ~@] \in Settings
         /\ [cfg EXCEPT !.darkOnBattery = ~@].enabled = cfg.enabled
         /\ [cfg EXCEPT !.darkOnBattery = ~@].supported = cfg.supported
         /\ [cfg EXCEPT !.skipFullscreen = ~@] \in Settings
         /\ [cfg EXCEPT !.skipFullscreen = ~@].enabled = cfg.enabled
         /\ [cfg EXCEPT !.skipFullscreen = ~@].supported = cfg.supported
         /\ [cfg EXCEPT !.enabled = ~@].supported = cfg.supported
BY DEF Settings

\* A switch or a repair by hand begins to wait for the mutex.
LEMMA WaiterKeeps ==
  ASSUME ThemeInv, NEW p \in Users, op[p].step = "none",
         NEW o \in Shapes(p), o.step = "lock", op' = [op EXCEPT ![p] = o],
         loop' \in [Slots -> Schedules], \A l \in Slots : loop'[l].until <= now + Day,
         \A l \in Slots : /\ loop'[l].at = loop[l].at /\ loop'[l].stop = loop[l].stop
                          /\ loop'[l].settings = loop[l].settings,
         events' \in 0..MaxEvents,
         UNCHANGED <<env, pref, app, damaged, origin, fails>>
  PROVE  ThemeInv'
<1>1. UNCHANGED <<now, onBattery, presenting, pref, cfg, sched, handler, exiting, damaged, origin, fails>>
  BY DEF env, app
<1>2. /\ DOMAIN op' = Procs /\ op' = [q \in Procs |-> op'[q]]
      /\ op'[p] = o /\ \A q \in Procs \ {p} : op'[q] = op[q]
      /\ \A q \in Slots : op'[q] = op[q]
  BY DEF ThemeInv, Types, Procs, Users, Slots
<1>3. Types'
  BY <1>1, <1>2 DEF ThemeInv, Types
<1>4. Threads'
  BY <1>2 DEF ThemeInv, Threads
<1>5. \A q \in Procs : Holds(q)' <=> Holds(q)
  BY <1>2 DEF Holds
<1>6. \A q \in Procs : Holds(q) => op'[q] = op[q]
  BY <1>2 DEF Holds
<1>7. OneHolder' /\ Restorable'
  BY <1>1, <1>5, <1>6 DEF ThemeInv, OneHolder, Restorable, Whole
<1>8. NeverTorn'
  BY <1>1, <1>5 DEF ThemeInv, NeverTorn, Busy, Holds
<1>9. OneThread'
  BY <1>1 DEF ThemeInv, Types, OneThread
<1> QED BY <1>3, <1>4, <1>7, <1>8, <1>9 DEF ThemeInv

\* The handlers that concern nothing but the theme.
LEMMA HandlersKeep == ThemeInv /\ Handlers => ThemeInv'
<1> SUFFICES ASSUME ThemeInv, Handlers PROVE ThemeInv'
  OBVIOUS
<1>1. cfg \in Settings /\ now \in Nat /\ loop \in [Slots -> Schedules]
  BY ThemeAssumption DEF ThemeInv, Types
<1>2. Ready /\ handler = "ready" /\ events' \in 0..MaxEvents
  <2>1. Ready
    BY DEF Handlers, ThemeToggle, BatteryToggle, FullscreenToggle, SwitchTheme, Repair
  <2> QED BY <2>1, ThemeAssumption DEF Ready, Event, ThemeInv, Types
<1>3. CASE ThemeToggle
  BY <1>1, <1>2, <1>3, OptionFacts, StoppingKeeps DEF ThemeToggle
<1>4. CASE BatteryToggle
  BY <1>1, <1>2, <1>4, OptionFacts, RestartKeeps DEF BatteryToggle
<1>5. CASE FullscreenToggle
  BY <1>1, <1>2, <1>5, OptionFacts, RestartKeeps DEF FullscreenToggle
<1>6. CASE SwitchTheme
  <2>1. FreeSwitch # {} /\ UNCHANGED <<env, pref, app, damaged, origin, fails>>
    BY <1>6 DEF SwitchTheme
  <2> DEFINE p == CHOOSE q \in FreeSwitch : TRUE
             o == [step |-> "lock", mode |-> Other(Current)]
  <2>2. p \in FreeSwitch
    BY <2>1
  <2>3. p \in Users /\ op[p].step = "none" /\ p # "repair"
    BY <2>2 DEF FreeSwitch, Users
  <2>4. o \in Modal /\ o.step = "lock"
    BY DEF Modal, Other, Modes
  <2>5. o \in Shapes(p)
    BY <2>3, <2>4 DEF Shapes
  <2>6. op' = [op EXCEPT ![p] = o]
    BY <1>6 DEF SwitchTheme
  <2>7. /\ loop' \in [Slots -> Schedules] /\ \A l \in Slots : loop'[l].until <= now + Day
        /\ \A l \in Slots : /\ loop'[l].at = loop[l].at /\ loop'[l].stop = loop[l].stop
                            /\ loop'[l].settings = loop[l].settings
    <3>1. CASE sched # "nil"
      <4>1. loop' = [loop EXCEPT ![sched].until = NextTransition] /\ sched \in Slots
        BY <1>6, <3>1 DEF SwitchTheme, ThemeInv, Types
      <4>2. NextTransition \in Nat /\ NextTransition <= now + Day
        BY <1>1, NextIsNear
      <4>3. \A x \in Schedules : \A n \in Nat :
               LET y == [x EXCEPT !.until = n]
               IN  /\ y \in Schedules /\ y.until = n
                   /\ y.at = x.at /\ y.stop = x.stop /\ y.settings = x.settings
        BY DEF Schedules
      <4>4. loop'[sched] = [loop[sched] EXCEPT !.until = NextTransition]
            /\ \A l \in Slots \ {sched} : loop'[l] = loop[l]
        BY <1>1, <4>1
      <4>5. loop' \in [Slots -> Schedules]
        BY <1>1, <4>1, <4>2, <4>3
      <4> QED BY <1>1, <4>1, <4>2, <4>3, <4>4, <4>5 DEF ThemeInv, Types
    <3>2. CASE sched = "nil"
      BY <1>1, <1>6, <3>2 DEF SwitchTheme, ThemeInv, Types
    <3> QED BY <3>1, <3>2
  <2> HIDE DEF p, o
  <2> QED BY <1>2, <2>1, <2>3, <2>4, <2>5, <2>6, <2>7, WaiterKeeps
<1>7. CASE Repair
  <2>1. /\ op["repair"].step = "none" /\ op' = [op EXCEPT !["repair"] = Waits]
        /\ UNCHANGED <<env, pref, app, loop, damaged, origin, fails>>
    BY <1>7 DEF Repair, Waits
  <2>2. "repair" \in Users /\ Waits \in Shapes("repair") /\ Waits.step = "lock"
    BY DEF Users, Shapes, Waits
  <2>3. \A l \in Slots : loop'[l].until <= now + Day
    BY <2>1 DEF ThemeInv, Types
  <2> QED BY <1>1, <1>2, <2>1, <2>2, <2>3, WaiterKeeps
<1> QED BY <1>3, <1>4, <1>5, <1>6, <1>7 DEF Handlers

\* Stop has returned: no thread is left, and one begins if the settings ask for it.
LEMMA ReplaceKeeps == ThemeInv /\ Replace => ThemeInv'
<1> SUFFICES ASSUME ThemeInv, Replace PROVE ThemeInv'
  OBVIOUS
<1>1. /\ UNCHANGED <<now, onBattery, presenting, pref, cfg, exiting, op, damaged, origin, events, fails>>
      /\ handler = "stopping" /\ handler' = IF exiting THEN "exited" ELSE "ready"
  BY DEF Replace, env
<1>2. \A l \in Slots : loop[l].at = "off"
  BY DEF Replace, Stopped, ThemeInv, OneThread
<1>3. \A l \in Slots : op[l].step = "none"
  BY <1>2 DEF ThemeInv, Threads
<1>4. /\ Unused \in Schedules /\ Unused.at = "off" /\ Unused.until = 0
      /\ NewScheduler \in Schedules /\ NewScheduler.at = "check" /\ NewScheduler.until = 0
      /\ NewScheduler.settings = Options(cfg) /\ ~NewScheduler.stop
  <2>1. Unused.settings \in Choices /\ Unused \in Schedules
    BY DEF Unused, Schedules, Choices
  <2>2. Options(cfg) \in Choices
    BY DEF Options, Choices, ThemeInv, Types, Settings
  <2>3. \A u \in Schedules, c \in Choices :
           LET s == [u EXCEPT !.at = "check", !.settings = c]
           IN  /\ s \in Schedules /\ s.at = "check" /\ s.settings = c
               /\ s.stop = u.stop /\ s.until = u.until
    BY DEF Schedules
  <2>4. Unused.at = "off" /\ Unused.until = 0 /\ Unused.stop = FALSE
    BY DEF Unused
  <2> QED BY <2>1, <2>2, <2>3, <2>4 DEF NewScheduler
<1>5. Forgotten = [l \in Slots |-> Unused]
  BY <1>2 DEF Forgotten
<1>6. now + Day \in Nat
  BY ThemeAssumption DEF ThemeInv, Types
<1>7. (OneHolder /\ Restorable /\ NeverTorn)'
  BY <1>1 DEF ThemeInv, OneHolder, Holds, Restorable, Whole, NeverTorn, Busy
<1>8. CASE ~exiting /\ cfg.enabled /\ cfg.supported
  <2>1. sched' = (CHOOSE l \in Slots : loop[l].at = "off")
        /\ loop' = [Forgotten EXCEPT ![sched'] = NewScheduler]
    BY <1>8 DEF Replace
  <2>2. sched' \in Slots
    BY <1>2, <2>1 DEF Slots
  <2>3. /\ loop' \in [Slots -> Schedules] /\ loop'[sched'] = NewScheduler
        /\ \A l \in Slots \ {sched'} : loop'[l] = Unused
    BY <1>4, <1>5, <2>1, <2>2
  <2>4. \A l \in Slots : loop'[l].until = 0 /\ loop'[l].at \in {"off", "check"}
    BY <1>4, <2>3
  <2>5. Types'
    BY <1>1, <1>6, <2>2, <2>3, <2>4 DEF ThemeInv, Types
  <2>6. Threads'
    BY <1>1, <1>3, <2>4 DEF Threads
  <2>7. OneThread'
    BY <1>1, <1>4, <1>8, <2>2, <2>3 DEF OneThread, Slots
  <2> QED BY <1>7, <2>5, <2>6, <2>7 DEF ThemeInv
<1>9. CASE ~(~exiting /\ cfg.enabled /\ cfg.supported)
  <2>1. sched' = "nil" /\ loop' = [l \in Slots |-> Unused]
    BY <1>5, <1>9 DEF Replace
  <2>2. /\ loop' \in [Slots -> Schedules]
        /\ \A l \in Slots : loop'[l].until = 0 /\ loop'[l].at = "off"
    BY <1>4, <2>1
  <2>3. Types'
    BY <1>1, <1>6, <2>1, <2>2 DEF ThemeInv, Types
  <2>4. Threads'
    BY <1>1, <1>3, <2>2 DEF Threads
  <2>5. OneThread'
    BY <1>1, <1>9, <2>1, <2>2 DEF OneThread
  <2> QED BY <1>7, <2>3, <2>4, <2>5 DEF ThemeInv
<1> QED BY <1>8, <1>9
-----------------------------------------------------------------------------
(* The lookups *)

CycleOK == Loc!TypeOK /\ OneAsks /\ generation >= 1

\* A new generation has no timer, and its lookup has not asked yet.
LEMMA CycleKeeps ==
  ASSUME CycleOK, NEW eligible \in BOOLEAN, Loc!StopCycle \/ Loc!StartCycle(eligible)
  PROVE  CycleOK' /\ retry'.gen # generation'
<1>1. /\ generation' = generation + 1 /\ generation \in Nat /\ generation' \in Nat
      /\ retry' = Loc!NoTimer /\ retried' = FALSE /\ posted' = posted
      /\ lookups' = lookups \/ lookups' = lookups \cup {[gen |-> generation', step |-> "begin"]}
      /\ cache' = cache \/ cache' = [cache EXCEPT !.cool = FALSE]
  BY DEF Loc!StopCycle, Loc!StartCycle, Loc!FreshCycle, Loc!Launch, CycleOK, Loc!TypeOK
<1>2. \A g \in 1..generation : g \in 1..generation'
  BY <1>1
<1>3. cache' \in [info : {"none", "fresh", "old"}, cool : BOOLEAN, querying : BOOLEAN]
      /\ cache'.querying = cache.querying
  BY <1>1 DEF CycleOK, Loc!TypeOK
<1>4. /\ lookups' \subseteq [gen : 1..generation', step : {"begin", "asking"}]
      /\ posted' \subseteq [gen : 1..generation', what : {"found", "failed", "again"}]
  <2>1. /\ lookups \subseteq [gen : 1..generation', step : {"begin", "asking"}]
        /\ posted \subseteq [gen : 1..generation', what : {"found", "failed", "again"}]
    BY <1>2 DEF CycleOK, Loc!TypeOK
  <2>2. [gen |-> generation', step |-> "begin"] \in [gen : 1..generation', step : {"begin", "asking"}]
    BY <1>1
  <2> QED BY <1>1, <2>1, <2>2
<1>5. Loc!TypeOK'
  BY <1>1, <1>3, <1>4 DEF Loc!TypeOK
<1>6. OneAsks'
  <2>1. \A l : l.step = "asking" => (l \in lookups' <=> l \in lookups)
    BY <1>1
  <2> QED BY <1>3, <2>1 DEF CycleOK, OneAsks
<1>7. retry'.gen # generation' /\ generation' >= 1
  BY <1>1 DEF Loc!NoTimer, CycleOK
<1> QED BY <1>5, <1>6, <1>7 DEF CycleOK

\* A lookup that ends posts what it has found.
LEMMA PostFacts ==
  ASSUME CycleOK, NEW l \in lookups, NEW what \in {"found", "failed"}, Loc!Post(l, what)
  PROVE  /\ lookups' = lookups \ {l}
         /\ lookups' \subseteq [gen : 1..generation, step : {"begin", "asking"}]
         /\ posted' \subseteq [gen : 1..generation, what : {"found", "failed", "again"}]
BY DEF CycleOK, Loc!TypeOK, Loc!Post

\* A timer noted as running or asked for is the same timer.
LEMMA NotedFacts ==
  ASSUME CycleOK, Loc!Noted
  PROVE  /\ retry' = Loc!NoTimer \/ retry' \in [gen : 1..generation, running : BOOLEAN, asked : BOOLEAN]
         /\ retry'.gen = retry.gen
<1>1. CASE retry = Loc!NoTimer
  BY <1>1 DEF Loc!Noted
<1>2. CASE retry # Loc!NoTimer
  <2>1. retry \in [gen : 1..generation, running : BOOLEAN, asked : BOOLEAN]
    BY <1>2 DEF CycleOK, Loc!TypeOK
  <2> QED BY <1>2, <2>1 DEF Loc!Noted
<1> QED BY <1>1, <1>2

\* The service is asked only by a lookup that finds nobody asking.
LEMMA BackgroundKeeps ==
  CycleOK /\ Loc!Background => /\ CycleOK' /\ UNCHANGED generation /\ retry'.gen = retry.gen
                               /\ \A l \in lookups' \ lookups : l.step # "begin"
<1> SUFFICES ASSUME CycleOK, NEW l \in lookups, Loc!Begin(l) \/ Loc!Answer(l)
             PROVE  /\ CycleOK' /\ UNCHANGED generation /\ retry'.gen = retry.gen
                    /\ \A k \in lookups' \ lookups : k.step # "begin"
  BY DEF Loc!Background
<1>1. /\ UNCHANGED <<generation, retried>> /\ generation \in Nat /\ retried \in BOOLEAN
      /\ l \in [gen : 1..generation, step : {"begin", "asking"}]
      /\ lookups \subseteq [gen : 1..generation, step : {"begin", "asking"}]
      /\ cache \in [info : {"none", "fresh", "old"}, cool : BOOLEAN, querying : BOOLEAN]
      /\ posted \subseteq [gen : 1..generation, what : {"found", "failed", "again"}]
  BY DEF Loc!Begin, Loc!Answer, CycleOK, Loc!TypeOK
<1>2. ASSUME NEW what \in {"found", "failed"}, Loc!Post(l, what), UNCHANGED <<cache, retry>>,
             l.step = "begin"
      PROVE  CycleOK' /\ retry'.gen = retry.gen /\ \A k \in lookups' \ lookups : k.step # "begin"
  <2>1. Loc!TypeOK'
    BY <1>1, <1>2, PostFacts DEF CycleOK, Loc!TypeOK
  <2>2. OneAsks'
    BY <1>2, PostFacts DEF CycleOK, OneAsks
  <2> QED BY <1>1, <1>2, <2>1, <2>2, PostFacts DEF CycleOK
<1>3. CASE /\ l.step = "begin" /\ cache.info # "fresh" /\ ~Loc!Refused
           /\ lookups' = (lookups \ {l}) \cup {[l EXCEPT !.step = "asking"]}
           /\ cache' = [info |-> IF cache.info = "old" THEN "fresh" ELSE "none",
                        cool |-> TRUE, querying |-> TRUE]
           /\ Loc!Noted /\ UNCHANGED posted
  <2> DEFINE k == [l EXCEPT !.step = "asking"]
  <2>1. k \in [gen : 1..generation, step : {"begin", "asking"}] /\ k.step = "asking"
    BY <1>1
  <2>2. lookups' = (lookups \ {l}) \cup {k}
    BY <1>3
  <2> HIDE DEF k
  <2>3. cache' \in [info : {"none", "fresh", "old"}, cool : BOOLEAN, querying : BOOLEAN]
    BY <1>3
  <2>4. Loc!TypeOK'
    BY <1>1, <1>3, <2>1, <2>2, <2>3, NotedFacts DEF Loc!TypeOK
  <2>5. \A m \in lookups : m.step # "asking"
    BY <1>3 DEF Loc!Refused, CycleOK, OneAsks
  <2>6. OneAsks'
    BY <1>3, <2>1, <2>2, <2>5 DEF OneAsks
  <2> QED BY <1>1, <1>3, <2>1, <2>2, <2>4, <2>6, NotedFacts DEF CycleOK
<1>4. CASE Loc!Begin(l)
  <2>1. CASE cache.info = "fresh" /\ Loc!Post(l, "found") /\ UNCHANGED <<cache, retry>>
    BY <1>1, <1>2, <1>4, <2>1 DEF Loc!Begin
  <2>2. CASE cache.info # "fresh" /\ Loc!Refused /\ Loc!Post(l, "failed") /\ UNCHANGED <<cache, retry>>
    BY <1>1, <1>2, <1>4, <2>2 DEF Loc!Begin
  <2> QED BY <1>1, <1>3, <1>4, <2>1, <2>2 DEF Loc!Begin
<1>5. CASE Loc!Answer(l)
  <2>1. PICK ok \in BOOLEAN :
          /\ cache' = [info |-> IF ok THEN "fresh" ELSE "none", cool |-> TRUE, querying |-> FALSE]
          /\ Loc!Post(l, IF ok THEN "found" ELSE "failed")
    BY <1>5 DEF Loc!Answer
  <2>2. l.step = "asking" /\ Loc!Noted
    BY <1>5 DEF Loc!Answer
  <2>3. /\ lookups' = lookups \ {l}
        /\ lookups' \subseteq [gen : 1..generation, step : {"begin", "asking"}]
        /\ posted' \subseteq [gen : 1..generation, what : {"found", "failed", "again"}]
    BY <2>1, PostFacts
  <2>4. cache' \in [info : {"none", "fresh", "old"}, cool : BOOLEAN, querying : BOOLEAN]
        /\ ~cache'.querying
    BY <2>1
  <2>5. Loc!TypeOK'
    BY <1>1, <2>2, <2>3, <2>4, NotedFacts DEF Loc!TypeOK
  <2>6. OneAsks'
    BY <2>2, <2>3, <2>4 DEF CycleOK, OneAsks
  <2> QED BY <1>1, <2>2, <2>3, <2>5, <2>6, NotedFacts DEF CycleOK
<1> QED BY <1>1, <1>4, <1>5

\* Time ages what the cache holds and lets the timer fire, no more.
LEMMA TimeKeeps ==
  CycleOK /\ Loc!Time => /\ CycleOK' /\ UNCHANGED <<generation, lookups>> /\ retry'.gen = retry.gen
<1> SUFFICES ASSUME CycleOK, Loc!Time
             PROVE  CycleOK' /\ UNCHANGED <<generation, lookups>> /\ retry'.gen = retry.gen
  OBVIOUS
<1>1. CASE Loc!HalfHour
  <2>1. /\ UNCHANGED <<generation, retried, retry, lookups, posted>>
        /\ cache' = [cache EXCEPT !.cool = FALSE]
    BY <1>1 DEF Loc!HalfHour, Loc!cycle
  <2>2. /\ cache' \in [info : {"none", "fresh", "old"}, cool : BOOLEAN, querying : BOOLEAN]
        /\ cache'.querying = cache.querying
    BY <2>1 DEF CycleOK, Loc!TypeOK
  <2> QED BY <2>1, <2>2 DEF CycleOK, Loc!TypeOK, OneAsks
<1>2. CASE Loc!DayLater
  <2>1. /\ UNCHANGED <<generation, retried, retry, lookups, posted>>
        /\ cache' = [cache EXCEPT !.info = "old"]
    BY <1>2 DEF Loc!DayLater, Loc!cycle
  <2>2. /\ cache' \in [info : {"none", "fresh", "old"}, cool : BOOLEAN, querying : BOOLEAN]
        /\ cache'.querying = cache.querying
    BY <2>1 DEF CycleOK, Loc!TypeOK
  <2> QED BY <2>1, <2>2 DEF CycleOK, Loc!TypeOK, OneAsks
<1>3. CASE Loc!TimerFires
  <2>1. /\ UNCHANGED <<generation, retried, lookups, cache>>
        /\ retry' = [retry EXCEPT !.running = FALSE]
        /\ posted' = posted \cup {[gen |-> retry.gen, what |-> "again"]}
        /\ retry # Loc!NoTimer
    BY <1>3 DEF Loc!TimerFires, Loc!Running
  <2>2. retry \in [gen : 1..generation, running : BOOLEAN, asked : BOOLEAN]
    BY <2>1 DEF CycleOK, Loc!TypeOK
  <2>3. /\ retry' \in [gen : 1..generation, running : BOOLEAN, asked : BOOLEAN]
        /\ retry'.gen = retry.gen
        /\ [gen |-> retry.gen, what |-> "again"] \in [gen : 1..generation, what : {"found", "failed", "again"}]
    BY <2>1, <2>2
  <2>4. Loc!TypeOK'
    BY <2>1, <2>3 DEF CycleOK, Loc!TypeOK
  <2> QED BY <2>1, <2>3, <2>4 DEF CycleOK, OneAsks
<1> QED BY <1>1, <1>2, <1>3 DEF Loc!Time

\* The retry is made for the timer of the cycle in force, or not at all.
LEMMA TakeRetryKeeps ==
  ASSUME CycleOK, NEW m \in posted, Loc!TakeRetry(m)
  PROVE  /\ CycleOK' /\ UNCHANGED generation
         /\ retry'.gen = generation => retry.gen = generation
         /\ \A l \in lookups' \ lookups : l.gen = generation /\ retry.gen = generation
<1>1. /\ UNCHANGED <<generation, cache>> /\ posted' = posted \ {m}
      /\ m \in [gen : 1..generation, what : {"found", "failed", "again"}]
      /\ generation \in Nat
  BY DEF Loc!TakeRetry, CycleOK, Loc!TypeOK
<1>2. CASE Loc!RetryIsMine(m)
  <2>1. /\ retry' = Loc!NoTimer /\ retried' = TRUE
        /\ lookups' = lookups \cup {[gen |-> m.gen, step |-> "begin"]}
        /\ retry.gen = generation /\ m.gen = generation
    BY <1>2 DEF Loc!TakeRetry, Loc!Launch, Loc!RetryIsMine
  <2> DEFINE k == [gen |-> m.gen, step |-> "begin"]
  <2>2. k \in [gen : 1..generation, step : {"begin", "asking"}] /\ k.step = "begin" /\ k.gen = generation
    BY <1>1, <2>1
  <2>3. lookups' = lookups \cup {k}
    BY <2>1
  <2> HIDE DEF k
  <2>4. Loc!TypeOK'
    BY <1>1, <2>1, <2>2, <2>3 DEF CycleOK, Loc!TypeOK
  <2>5. OneAsks'
    BY <1>1, <2>2, <2>3 DEF CycleOK, OneAsks
  <2> QED BY <1>1, <2>1, <2>2, <2>3, <2>4, <2>5 DEF CycleOK
<1>3. CASE ~Loc!RetryIsMine(m)
  BY <1>1, <1>3 DEF Loc!TakeRetry, CycleOK, Loc!TypeOK, OneAsks
<1> QED BY <1>2, <1>3

\* A timer is set only for settings that ask for the lookup.
LEMMA TakeResultKeeps ==
  ASSUME CycleOK, NEW m \in posted, NEW eligible \in BOOLEAN, Loc!TakeResult(m, eligible)
  PROVE  /\ CycleOK' /\ UNCHANGED <<generation, lookups>>
         /\ retry'.gen = generation => retry.gen = generation \/ eligible
<1>1. /\ UNCHANGED <<generation, retried, lookups, cache>> /\ posted' = posted \ {m}
      /\ m \in [gen : 1..generation, what : {"found", "failed", "again"}]
      /\ generation \in Nat /\ m.what \in {"found", "failed"}
  BY DEF Loc!TakeResult, CycleOK, Loc!TypeOK
<1>2. /\ Loc!Timer(m.gen) \in [gen : 1..generation, running : BOOLEAN, asked : BOOLEAN]
      /\ Loc!NoTimer.gen = 0
  BY <1>1 DEF Loc!Timer, Loc!NoTimer
<1>3. \/ retry' = retry
      \/ retry' = Loc!NoTimer
      \/ retry' = Loc!Timer(m.gen) /\ eligible
  BY DEF Loc!TakeResult, Loc!IsAnswer
<1>4. Loc!TypeOK'
  BY <1>1, <1>2, <1>3 DEF CycleOK, Loc!TypeOK
<1>5. OneAsks'
  BY <1>1 DEF CycleOK, OneAsks
<1>6. retry'.gen = generation => retry.gen = generation \/ eligible
  BY <1>1, <1>2, <1>3 DEF CycleOK
<1> QED BY <1>1, <1>4, <1>5, <1>6 DEF CycleOK
-----------------------------------------------------------------------------
(* The scheduler and the lookups together *)

\* What a cycle leaves is a location's invariant again, once it is told whether
\* the timer it keeps is still wanted.
LEMMA LocationKeeps ==
  ASSUME LocationInv, CycleOK', wanted' \in BOOLEAN, place' \in {"zone", "ip"},
         due' \in {"nothing", "start", "stop"}, turns' \in 0..MaxTurns,
         handler' # "stopping" => due' = "nothing",
         due' = "nothing" /\ retry'.gen = generation' => wanted' /\ cfg'.supported
  PROVE  LocationInv'
BY DEF LocationInv, CycleOK, TimerIsWanted

\* The part of the invariant that the cycle keeps by itself.
LEMMA CycleIsOK == LocationInv => CycleOK
BY DEF LocationInv, CycleOK, TimerIsWanted

\* A step of the theme that leaves the request loop where it is.
LEMMA ThemeStepKeeps ==
  ASSUME LocationInv, UNCHANGED <<locVars, setting>>,
         cfg'.supported <=> cfg.supported,
         handler' # "stopping" => due = "nothing"
  PROVE  LocationInv'
<1>1. UNCHANGED <<generation, retried, retry, lookups, cache, posted, wanted, place, due, turns>>
  BY DEF locVars, setting
<1>2. Loc!TypeOK' /\ OneAsks'
  BY <1>1 DEF LocationInv, Loc!TypeOK, OneAsks
<1>3. TimerIsWanted'
  BY <1>1 DEF LocationInv, TimerIsWanted
<1> QED BY <1>1, <1>2, <1>3 DEF LocationInv

\* The theme's own steps.
LEMMA OwnStepsKeep ==
  ASSUME IInv
  PROVE  /\ Theme(Environment \/ Handlers) => IInv'
         /\ \A p \in Procs : Theme(Operation(p)) => IInv'
         /\ \A l \in Slots : Theme(Thread(l)) => IInv'
<1>1. ThemeInv /\ LocationInv
  BY DEF IInv
<1>2. (handler # "stopping" => due = "nothing") /\ cfg \in Settings
  BY <1>1 DEF LocationInv, TimerIsWanted, ThemeInv, Types
<1>3. ASSUME UNCHANGED <<locVars, setting>>, UNCHANGED <<cfg, handler>> PROVE LocationInv'
  BY <1>1, <1>2, <1>3, ThemeStepKeeps
<1>4. ASSUME Environment, UNCHANGED <<locVars, setting>> PROVE IInv'
  <2>1. UNCHANGED <<cfg, handler>>
    BY <1>4 DEF Environment, Tick, Surroundings, WindowsSettings, app
  <2> QED BY <1>1, <1>3, <1>4, <2>1, EnvironmentKeeps DEF IInv
<1>5. ASSUME Handlers, UNCHANGED <<locVars, setting>> PROVE IInv'
  <2>1. handler = "ready"
    BY <1>5 DEF Handlers, ThemeToggle, BatteryToggle, FullscreenToggle, SwitchTheme, Repair, Ready
  <2>2. cfg'.supported <=> cfg.supported
    BY <1>2, <1>5, OptionFacts
       DEF Handlers, ThemeToggle, BatteryToggle, FullscreenToggle, SwitchTheme, Repair,
           Stopping, Restart, app
  <2> QED BY <1>1, <1>2, <1>5, <2>1, <2>2, HandlersKeep, ThemeStepKeeps DEF IInv
<1>6. ASSUME NEW p \in Procs, Operation(p), UNCHANGED <<locVars, setting>> PROVE IInv'
  <2>1. UNCHANGED <<cfg, handler>>
    BY <1>6 DEF Operation, Lock, SetApps, SetSystem, Verify, RestoreModes, app
  <2>2. ThemeInv'
    BY <1>1, <1>6, LockKeeps, SetAppsKeeps, SetSystemKeeps, VerifyKeeps, RestoreModesKeeps DEF Operation
  <2> QED BY <1>3, <1>6, <2>1, <2>2 DEF IInv
<1>7. ASSUME NEW l \in Slots, Thread(l), UNCHANGED <<locVars, setting>> PROVE IInv'
  <2>1. UNCHANGED <<cfg, handler>>
    BY <1>7 DEF Thread, Check, Pause, Leave, app
  <2> QED BY <1>1, <1>3, <1>7, <2>1, ThreadKeeps DEF IInv
<1> QED BY <1>4, <1>5, <1>6, <1>7 DEF Theme

\* Nothing of the theme changes.
LEMMA ThemeStutters == ThemeInv /\ UNCHANGED vars => ThemeInv'
BY DEF vars, ThemeInv, Types, Threads, OneHolder, Holds, Restorable, Whole, NeverTorn, Busy, OneThread

\* Lookups and time pass while the scheduler and the settings are as they were.
LEMMA SearchKeeps == IInv /\ (Search(Loc!Background) \/ Search(Loc!Time)) => IInv'
<1> SUFFICES ASSUME IInv, Search(Loc!Background) \/ Search(Loc!Time) PROVE IInv'
  OBVIOUS
<1>1. UNCHANGED vars /\ UNCHANGED setting /\ ThemeInv /\ LocationInv /\ CycleOK
  BY CycleIsOK DEF Search, IInv
<1>2. UNCHANGED <<handler, cfg, wanted, place, due, turns>>
  BY <1>1 DEF vars, setting
<1>3. CycleOK' /\ UNCHANGED generation /\ retry'.gen = retry.gen
  BY <1>1, BackgroundKeeps, TimeKeeps DEF Search
<1>4. LocationInv'
  BY <1>1, <1>2, <1>3, LocationKeeps DEF LocationInv, TimerIsWanted
<1> QED BY <1>1, <1>4, ThemeStutters DEF IInv

\* The retry timer of the cycle in force begins the lookup it is for.
LEMMA RetryKeeps == ASSUME NEW m \in posted PROVE IInv /\ Retry(m) => IInv'
<1> SUFFICES ASSUME IInv, Retry(m) PROVE IInv'
  OBVIOUS
<1>1. UNCHANGED vars /\ UNCHANGED setting /\ ThemeInv /\ LocationInv /\ CycleOK /\ Loc!TakeRetry(m)
  BY CycleIsOK DEF Retry, IInv
<1>2. UNCHANGED <<handler, cfg, wanted, place, due, turns>>
  BY <1>1 DEF vars, setting
<1>3. CycleOK' /\ UNCHANGED generation /\ (retry'.gen = generation => retry.gen = generation)
  BY <1>1, TakeRetryKeeps
<1>4. LocationInv'
  BY <1>1, <1>2, <1>3, LocationKeeps DEF LocationInv, TimerIsWanted
<1> QED BY <1>1, <1>4, ThemeStutters DEF IInv

\* A location that is found restarts the scheduler with the settings it has.
LEMMA RestartFacts ==
  ASSUME ThemeInv, Restart(cfg), handler = "ready", UNCHANGED events
  PROVE  ThemeInv' /\ cfg' = cfg /\ handler' \in {"ready", "stopping"}
<1>1. cfg \in Settings /\ events' \in 0..MaxEvents
  BY DEF ThemeInv, Types
<1>2. ThemeInv'
  BY <1>1, RestartKeeps
<1> QED BY <1>2 DEF Restart, Stopping

\* A lookup answers: its place is saved and the scheduler replaced, or a retry waits.
LEMMA ResultKeeps == ASSUME NEW m \in posted PROVE IInv /\ Result(m) => IInv'
<1> SUFFICES ASSUME IInv, Result(m) PROVE IInv'
  OBVIOUS
<1>1. /\ UNCHANGED <<wanted, place, due, turns>> /\ ThemeInv /\ LocationInv /\ CycleOK
      /\ Loc!TakeResult(m, Eligible) /\ handler = "ready"
  BY CycleIsOK DEF Result, IInv, setting
<1>2. ThemeInv' /\ cfg' = cfg
  BY <1>1, RestartFacts, ThemeStutters DEF Result, vars
<1>3. Eligible \in BOOLEAN
  BY <1>1 DEF Eligible, LocationInv, ThemeInv, Types, Settings
<1>4. /\ CycleOK' /\ UNCHANGED generation
      /\ retry'.gen = generation => retry.gen = generation \/ Eligible
  BY <1>1, <1>3, TakeResultKeeps
<1>5. LocationInv'
  BY <1>1, <1>2, <1>4, LocationKeeps DEF LocationInv, TimerIsWanted, Eligible
<1> QED BY <1>2, <1>5 DEF IInv

\* The switch in the panel: the scheduler first, then the cycle.
LEMMA ToggleKeeps == IInv /\ IPLocationToggle => IInv'
<1> SUFFICES ASSUME IInv, IPLocationToggle PROVE IInv'
  OBVIOUS
<1>1. /\ handler = "ready" /\ cfg.supported /\ UNCHANGED <<events, place>>
      /\ wanted' = ~wanted /\ Restart(cfg) /\ due = "nothing"
      /\ ThemeInv /\ LocationInv /\ CycleOK
  BY CycleIsOK DEF IPLocationToggle, IInv, LocationInv, TimerIsWanted
<1>2. ThemeInv' /\ cfg' = cfg
  BY <1>1, RestartFacts
<1>3. turns' \in 0..MaxTurns
  BY <1>1, BudgetsAssumption DEF IPLocationToggle, Turn, LocationInv
<1>4. place' \in {"zone", "ip"} /\ wanted' \in BOOLEAN
  BY <1>1 DEF LocationInv
<1> DEFINE next == IF wanted THEN "stop" ELSE "start"
<1>5. CASE handler' = "stopping"
  <2>1. due' = next /\ UNCHANGED locVars
    BY <1>5 DEF IPLocationToggle
  <2>2. due' \in {"start", "stop"}
    BY <2>1
  <2>3. CycleOK'
    BY <1>1, <2>1 DEF CycleOK, locVars, Loc!TypeOK, OneAsks
  <2>4. LocationInv'
    BY <1>1, <1>3, <1>4, <1>5, <2>2, <2>3, LocationKeeps
  <2> QED BY <1>2, <2>4 DEF IInv
<1>6. CASE handler' # "stopping"
  <2>1. UNCHANGED due /\ ChangeCycle(next)
    BY <1>6 DEF IPLocationToggle
  <2>2. \E e \in BOOLEAN : Loc!StopCycle \/ Loc!StartCycle(e)
    <3>1. CASE wanted
      BY <2>1, <3>1 DEF ChangeCycle
    <3>2. CASE ~wanted
      <4>1. Loc!StartCycle(wanted' /\ cfg.supported)
        BY <2>1, <3>2 DEF ChangeCycle
      <4> QED BY <4>1
    <3> QED BY <3>1, <3>2
  <2>4. CycleOK' /\ retry'.gen # generation'
    BY <1>1, <2>2, CycleKeeps
  <2>5. LocationInv'
    BY <1>1, <1>3, <1>4, <2>1, <2>4, LocationKeeps
  <2> QED BY <1>2, <2>5 DEF IInv
<1> QED BY <1>5, <1>6

\* A reload compares what was asked for before and is asked for now.
LEMMA ReloadFileKeeps == IInv /\ ReloadFile => IInv'
<1> SUFFICES ASSUME IInv, ReloadFile PROVE IInv'
  OBVIOUS
<1>1. /\ UNCHANGED locVars /\ UNCHANGED place
      /\ due' = Sync(Eligible, wanted' /\ cfg'.supported)
      /\ ThemeInv /\ LocationInv /\ CycleOK
      /\ wanted' = wanted \/ wanted' = ~wanted
  BY CycleIsOK DEF ReloadFile, IInv
<1>2. PICK c \in Files : Stopping(c, FALSE)
  BY DEF ReloadFile, Reload
<1>3. handler = "ready" /\ events' \in 0..MaxEvents
  <2>1. Ready
    BY DEF ReloadFile, Reload
  <2> QED BY <1>1, <2>1, ThemeAssumption DEF Ready, Event, ThemeInv, Types
<1>4. ThemeInv' /\ handler' = "stopping"
  <2>1. c \in Settings
    BY ThemeAssumption
  <2> QED BY <1>1, <1>2, <1>3, <2>1, StoppingKeeps DEF Stopping
<1>5. turns' \in 0..MaxTurns
  <2>1. turns' = turns \/ Turn
    BY DEF ReloadFile
  <2> QED BY <1>1, <2>1, BudgetsAssumption DEF Turn, LocationInv
<1>6. CycleOK' /\ UNCHANGED <<generation, retry>>
  BY <1>1 DEF CycleOK, locVars, Loc!TypeOK, OneAsks
<1>7. due' \in {"nothing", "start", "stop"} /\ (due' = "nothing" => wanted' /\ cfg'.supported)
  <2>1. CASE ~(wanted' /\ cfg'.supported)
    BY <1>1, <2>1 DEF Sync
  <2>2. CASE wanted' /\ cfg'.supported /\ ~Eligible
    BY <1>1, <2>2 DEF Sync
  <2>3. CASE wanted' /\ cfg'.supported /\ Eligible
    BY <1>1, <2>3 DEF Sync
  <2> QED BY <2>1, <2>2, <2>3
<1>8. place' \in {"zone", "ip"} /\ wanted' \in BOOLEAN
  BY <1>1 DEF LocationInv
<1>9. LocationInv'
  BY <1>1, <1>4, <1>5, <1>6, <1>7, <1>8, LocationKeeps
<1> QED BY <1>4, <1>9 DEF IInv

\* The exit stops the cycle before the handlers.
LEMMA ExitKeeps == IInv /\ ExitProgram => IInv'
<1> SUFFICES ASSUME IInv, ExitProgram PROVE IInv'
  OBVIOUS
<1>1. /\ Loc!StopCycle /\ UNCHANGED <<wanted, place, due, turns>>
      /\ handler = "ready" /\ UNCHANGED events /\ Stopping(cfg, TRUE)
      /\ ThemeInv /\ LocationInv /\ CycleOK
  BY CycleIsOK DEF ExitProgram, Exit, setting, IInv
<1>2. ThemeInv' /\ handler' = "stopping"
  <2>1. cfg \in Settings /\ events' \in 0..MaxEvents
    BY <1>1 DEF ThemeInv, Types
  <2> QED BY <1>1, <2>1, StoppingKeeps DEF Stopping
<1>3. CycleOK' /\ retry'.gen # generation'
  BY <1>1, CycleKeeps
<1>4. LocationInv'
  BY <1>1, <1>2, <1>3, LocationKeeps DEF LocationInv
<1> QED BY <1>2, <1>4 DEF IInv

\* A new scheduler, then the cycle's turn: whatever is due has been done.
LEMMA ReplaceSchedulerKeeps == IInv /\ ReplaceScheduler => IInv'
<1> SUFFICES ASSUME IInv, ReplaceScheduler PROVE IInv'
  OBVIOUS
<1>1. /\ Replace /\ due' = "nothing" /\ UNCHANGED <<wanted, turns>> /\ ChangeCycle(due)
      /\ place' \in {"zone", "ip"} /\ ThemeInv /\ LocationInv /\ CycleOK
  BY CycleIsOK DEF ReplaceScheduler, IInv
<1>2. ThemeInv' /\ cfg' = cfg
  BY <1>1, ReplaceKeeps DEF Replace
<1>3. CASE due = "nothing"
  <2>1. UNCHANGED locVars
    BY <1>1, <1>3 DEF ChangeCycle
  <2>2. CycleOK' /\ UNCHANGED <<generation, retry>>
    BY <1>1, <2>1 DEF CycleOK, locVars, Loc!TypeOK, OneAsks
  <2>3. LocationInv'
    BY <1>1, <1>2, <1>3, <2>2, LocationKeeps DEF LocationInv, TimerIsWanted
  <2> QED BY <1>2, <2>3 DEF IInv
<1>4. CASE due # "nothing"
  <2>1. \E e \in BOOLEAN : Loc!StopCycle \/ Loc!StartCycle(e)
    <3>1. CASE due = "stop"
      BY <1>1, <3>1 DEF ChangeCycle
    <3>2. CASE due = "start"
      <4>1. Loc!StartCycle(wanted' /\ cfg.supported)
        BY <1>1, <3>2 DEF ChangeCycle
      <4> QED BY <4>1
    <3> QED BY <1>1, <1>4, <3>1, <3>2 DEF LocationInv
  <2>2. CycleOK' /\ retry'.gen # generation'
    BY <1>1, <2>1, CycleKeeps
  <2>3. LocationInv'
    BY <1>1, <1>2, <2>2, LocationKeeps DEF LocationInv
  <2> QED BY <1>2, <2>3 DEF IInv
<1> QED BY <1>3, <1>4
-----------------------------------------------------------------------------
(* The invariant *)

\* At the start one thread looks at the clock, and one lookup if it is wanted.
THEOREM InitIInv == Init => IInv
<1> SUFFICES ASSUME Init PROVE IInv
  OBVIOUS
<1>1. Start /\ place = "zone" /\ due = "nothing" /\ generation = 1 /\ retried = FALSE
      /\ retry = Loc!NoTimer
      /\ lookups = (IF wanted THEN {[gen |-> 1, step |-> "begin"]} ELSE {})
      /\ cache = [info |-> "none", cool |-> FALSE, querying |-> FALSE] /\ posted = {}
  BY DEF Init
<1>2. PICK b \in Budgets :
          /\ now = MaxTime - b.time /\ events = MaxEvents - b.events
          /\ fails = MaxFails - b.fails /\ turns = MaxTurns - b.turns
          /\ wanted = (b.turns > 0)
  BY DEF Init
<1>3. /\ now \in 0..MaxTime /\ events \in 0..MaxEvents /\ fails \in 0..MaxFails
      /\ turns \in 0..MaxTurns /\ wanted \in BOOLEAN
  <2>1. b \in [time : 0..MaxTime, events : 0..MaxEvents, fails : 0..MaxFails, turns : 0..MaxTurns]
    BY BudgetsAssumption
  <2>2. /\ b.time \in 0..MaxTime /\ b.events \in 0..MaxEvents
        /\ b.fails \in 0..MaxFails /\ b.turns \in 0..MaxTurns
    BY <2>1
  <2>3. wanted \in BOOLEAN
    BY <1>2
  <2> QED BY <1>2, <2>2, <2>3, ThemeAssumption, BudgetsAssumption
<1>4. ThemeInv
  <2>1. /\ Unused \in Schedules /\ Unused.at = "off" /\ Unused.until = 0 /\ ~Unused.stop
        /\ NoOp.step = "none" /\ \A p \in Procs : NoOp \in Shapes(p)
    BY DEF Unused, Schedules, Choices, NoOp, Shapes
  <2>2. Options(cfg) \in Choices /\ cfg \in Settings /\ cfg.supported /\ cfg.enabled
    BY <1>1, ThemeAssumption DEF Start, Options, Choices, Settings
  <2> DEFINE first == [Unused EXCEPT !.at = "check", !.settings = Options(cfg)]
  <2>3. /\ first \in Schedules /\ first.at = "check" /\ first.until = 0
        /\ first.settings = Options(cfg) /\ ~first.stop
    <3>1. \A u \in Schedules, c \in Choices :
             LET s == [u EXCEPT !.at = "check", !.settings = c]
             IN  /\ s \in Schedules /\ s.at = "check" /\ s.settings = c
                 /\ s.stop = u.stop /\ s.until = u.until
      BY DEF Schedules
    <3> QED BY <2>1, <2>2, <3>1
  <2>4. loop = [l \in Slots |-> IF l = sched THEN first ELSE Unused] /\ sched = "slot1"
    BY <1>1 DEF Start
  <2> HIDE DEF first
  <2>5. /\ loop \in [Slots -> Schedules] /\ loop["slot1"] = first /\ loop["slot2"] = Unused
        /\ \A l \in Slots : loop[l].until = 0 /\ loop[l].at \in {"off", "check"}
    BY <2>1, <2>3, <2>4 DEF Slots
  <2>6. /\ DOMAIN op = Procs /\ op = [p \in Procs |-> op[p]]
        /\ \A p \in Procs : op[p] = NoOp /\ op[p].step = "none"
    BY <1>1, <2>1 DEF Start
  <2>7. pref \in Pairs /\ origin = pref /\ onBattery \in BOOLEAN /\ presenting = FALSE
        /\ handler = "ready" /\ exiting = FALSE /\ damaged = FALSE
    BY <1>1, ThemeAssumption DEF Start
  <2>8. now + Day \in Nat
    BY <1>3, ThemeAssumption
  <2>9. Types
    <3>1. \A l \in Slots : loop[l].until <= now + Day
      BY <2>5, <2>8
    <3>2. sched \in Slots \cup {"nil"} /\ origin \in Pairs
      BY <2>4, <2>7 DEF Slots
    <3>3. \A p \in Procs : op[p] \in Shapes(p)
      BY <2>1, <2>6
    <3>4. handler \in {"ready", "stopping", "exited"} /\ exiting \in BOOLEAN /\ damaged \in BOOLEAN
      BY <2>7
    <3>5. now \in 0..MaxTime /\ events \in 0..MaxEvents /\ fails \in 0..MaxFails
      BY <1>3
    <3>6. onBattery \in BOOLEAN /\ presenting \in BOOLEAN /\ pref \in Pairs /\ cfg \in Settings
      BY <2>2, <2>7
    <3>7. loop \in [Slots -> Schedules] /\ DOMAIN op = Procs /\ op = [p \in Procs |-> op[p]]
      BY <2>5, <2>6
    <3> QED BY <3>1, <3>2, <3>3, <3>4, <3>5, <3>6, <3>7 DEF Types
  <2>10. Threads /\ OneHolder /\ Restorable
    BY <2>5, <2>6 DEF Threads, OneHolder, Restorable, Holds, Procs
  <2>11. NeverTorn
    BY <2>7 DEF NeverTorn
  <2>12. OneThread
    BY <2>1, <2>2, <2>3, <2>4, <2>5, <2>7 DEF OneThread, Slots
  <2> QED BY <2>9, <2>10, <2>11, <2>12 DEF ThemeInv
<1>5. LocationInv
  <2>1. [gen |-> 1, step |-> "begin"] \in [gen : 1..1, step : {"begin", "asking"}]
    OBVIOUS
  <2>2. Loc!TypeOK
    BY <1>1, <2>1 DEF Loc!TypeOK
  <2>3. OneAsks
    BY <1>1 DEF OneAsks
  <2>4. TimerIsWanted
    BY <1>1 DEF TimerIsWanted, Loc!NoTimer
  <2> QED BY <1>1, <1>3, <2>2, <2>3, <2>4 DEF LocationInv
<1> QED BY <1>4, <1>5 DEF IInv

\* Every step of anybody keeps the invariant.
THEOREM NextIInv == IInv /\ [Next]_allVars => IInv'
<1> SUFFICES ASSUME IInv, [Next]_allVars PROVE IInv'
  OBVIOUS
<1>1. CASE \/ Theme(Environment \/ Handlers)
           \/ \E p \in Procs : Theme(Operation(p))
           \/ \E l \in Slots : Theme(Thread(l))
  BY <1>1, OwnStepsKeep
<1>2. CASE Search(Loc!Background) \/ Search(Loc!Time)
  BY <1>2, SearchKeeps
<1>3. CASE IPLocationToggle
  BY <1>3, ToggleKeeps
<1>4. CASE ReloadFile
  BY <1>4, ReloadFileKeeps
<1>5. CASE ExitProgram
  BY <1>5, ExitKeeps
<1>6. CASE ReplaceScheduler
  BY <1>6, ReplaceSchedulerKeeps
<1>7. CASE \E m \in posted : Result(m) \/ Retry(m)
  BY <1>7, ResultKeeps, RetryKeeps
<1>8. CASE UNCHANGED allVars
  <2>1. UNCHANGED vars /\ UNCHANGED <<locVars, setting>> /\ UNCHANGED <<cfg, handler>>
    BY <1>8 DEF allVars, vars
  <2>2. ThemeInv /\ LocationInv /\ (handler # "stopping" => due = "nothing")
    BY DEF IInv, LocationInv, TimerIsWanted
  <2> QED BY <2>1, <2>2, ThemeStutters, ThemeStepKeeps DEF IInv
<1> QED BY <1>1, <1>2, <1>3, <1>4, <1>5, <1>6, <1>7, <1>8 DEF Next

\* The invariant holds in every reachable state.
THEOREM Invariance == Spec => []IInv
BY InitIInv, NextIInv, PTL DEF Spec

\* Between operations the two registry values are one setting, whatever failed.
THEOREM ValuesAreOneSetting == Spec => []NeverTorn
<1>1. IInv => NeverTorn
  BY DEF IInv, ThemeInv
<1> QED BY <1>1, Invariance, PTL

\* One scheduler runs, with the settings in force, and one lookup asks.
THEOREM OneOfEachKind == Spec => []OneOfEach
<1>1. IInv => OneOfEach
  <2> SUFFICES ASSUME IInv PROVE OneOfEach
    OBVIOUS
  <2>1. TypeOK
    <3>1. \A p \in Procs : op[p].step \in {"none", "lock", "apps", "system", "verify", "applied", "again"}
      BY ShapeFacts DEF IInv, ThemeInv, Types
    <3>2. \A l \in Slots : /\ loop[l].at \in {"off", "check", "pause", "switch"}
                           /\ loop[l].stop \in BOOLEAN
                           /\ loop[l].until <= now + Day
      BY DEF IInv, ThemeInv, Types, Schedules
    <3> QED BY <3>1, <3>2 DEF IInv, ThemeInv, Types, TypeOK
  <2>2. LocationTypeOK
    BY <2>1 DEF IInv, LocationInv, LocationTypeOK
  <2>3. SettingsInForce
    <3> SUFFICES ASSUME handler # "stopping"
                 PROVE  /\ {l \in Slots : loop[l].at # "off"} = {sched} \cap Slots
                        /\ (sched # "nil") <=> (handler = "ready" /\ cfg.enabled /\ cfg.supported)
                        /\ sched # "nil" => loop[sched].settings = Options(cfg) /\ ~loop[sched].stop
      BY DEF SettingsInForce
    <3>1. OneThread /\ sched \in Slots \cup {"nil"} /\ "nil" \notin Slots
      BY DEF IInv, ThemeInv, Types, Slots
    <3>2. \A l \in Slots : loop[l].at # "off" <=> l = sched
      BY <3>1 DEF OneThread
    <3>3. {l \in Slots : loop[l].at # "off"} = {sched} \cap Slots
      BY <3>2
    <3>4. (sched # "nil") <=> (handler = "ready" /\ cfg.enabled /\ cfg.supported)
      BY <3>1 DEF OneThread
    <3>5. sched # "nil" => loop[sched].settings = Options(cfg) /\ ~loop[sched].stop
      BY <3>1 DEF OneThread
    <3> QED BY <3>3, <3>4, <3>5
  <2>4. OneRequest
    <3> DEFINE asking == {l \in lookups : l.step = "asking"}
    <3>1. (cache.querying <=> asking # {}) /\ \A l, m \in asking : l = m
      BY DEF IInv, LocationInv, OneAsks
    <3>2. Cardinality(asking) <= 1
      <4> HIDE DEF asking
      <4>1. CASE asking = {}
        <5>1. Cardinality({}) = 0
          BY FS_EmptySet
        <5> QED BY <4>1, <5>1
      <4>2. CASE asking # {}
        <5>1. PICK l \in asking : asking = {l}
          BY <3>1, <4>2
        <5>2. Cardinality({l}) = 1
          BY FS_Singleton
        <5> QED BY <5>1, <5>2
      <4> QED BY <4>1, <4>2
    <3> QED BY <3>1, <3>2 DEF OneRequest
  <2> QED BY <2>2, <2>3, <2>4 DEF OneOfEach
<1> QED BY <1>1, Invariance, PTL

\* A lookup is begun for the cycle in force and for settings that ask for it.
THEOREM NoUnwantedLookup == Spec => SilentAfterStop
<1> DEFINE Silent ==
       \A l \in lookups' \ lookups :
          l.step = "begin" => l.gen = generation' /\ wanted' /\ cfg'.supported
<1>1. IInv /\ [Next]_allVars => Silent
  <2> SUFFICES ASSUME IInv, [Next]_allVars, NEW l \in lookups' \ lookups, l.step = "begin"
               PROVE  l.gen = generation' /\ wanted' /\ cfg'.supported
    OBVIOUS
  <2>1. CycleOK /\ ThemeInv /\ LocationInv
    BY CycleIsOK DEF IInv
  <2>2. ASSUME NEW e \in BOOLEAN, Loc!StartCycle(e) PROVE e /\ l.gen = generation'
    BY <2>2 DEF Loc!StartCycle, Loc!StopCycle, Loc!Launch
  <2>3. ASSUME NEW what, ChangeCycle(what), what \in {"start", "stop", "nothing"}
        PROVE  wanted' /\ cfg.supported /\ l.gen = generation'
    <3>1. CASE what = "start"
      <4>1. Loc!StartCycle(wanted' /\ cfg.supported)
        BY <2>3, <3>1 DEF ChangeCycle
      <4> QED BY <2>2, <4>1
    <3>2. CASE what = "stop"
      BY <2>3, <3>2 DEF ChangeCycle, Loc!StopCycle
    <3>3. CASE what = "nothing"
      BY <2>3, <3>3 DEF ChangeCycle, locVars
    <3> QED BY <2>3, <3>1, <3>2, <3>3
  <2>4. CASE Search(Loc!Background) \/ Search(Loc!Time)
    BY <2>1, <2>4, BackgroundKeeps, TimeKeeps DEF Search
  <2>5. CASE IPLocationToggle
    <3>1. Restart(cfg) /\ ThemeInv
      BY <2>1, <2>5 DEF IPLocationToggle
    <3>2. cfg' = cfg
      BY <3>1 DEF Restart, Stopping
    <3>3. UNCHANGED locVars \/ ChangeCycle(IF wanted THEN "stop" ELSE "start")
      BY <2>5 DEF IPLocationToggle
    <3> QED BY <2>3, <3>2, <3>3 DEF locVars
  <2>6. CASE ReplaceScheduler
    <3>1. ChangeCycle(due) /\ cfg' = cfg /\ due \in {"start", "stop", "nothing"}
      BY <2>1, <2>6 DEF ReplaceScheduler, Replace, LocationInv
    <3> QED BY <2>3, <3>1
  <2>7. CASE ExitProgram
    BY <2>7 DEF ExitProgram, Loc!StopCycle
  <2>8. CASE ReloadFile
    BY <2>8 DEF ReloadFile, locVars
  <2>9. CASE \E m \in posted : Result(m)
    BY <2>9 DEF Result, Loc!TakeResult
  <2>10. CASE \E m \in posted : Retry(m)
    <3>1. PICK m \in posted : Retry(m)
      BY <2>10
    <3>2. /\ Loc!TakeRetry(m) /\ UNCHANGED <<cfg, wanted>> /\ handler = "ready"
      BY <3>1 DEF Retry, vars, setting
    <3>3. l.gen = generation /\ retry.gen = generation /\ generation' = generation
      BY <2>1, <3>2, TakeRetryKeeps
    <3> QED BY <2>1, <3>2, <3>3 DEF LocationInv, TimerIsWanted
  <2>11. CASE \/ Theme(Environment \/ Handlers)
              \/ \E p \in Procs : Theme(Operation(p))
              \/ \E s \in Slots : Theme(Thread(s))
              \/ UNCHANGED allVars
    BY <2>11 DEF Theme, locVars, allVars
  <2> QED BY <2>4, <2>5, <2>6, <2>7, <2>8, <2>9, <2>10, <2>11 DEF Next
<1>2. IInv /\ [Next]_allVars => [Silent]_allVars
  BY <1>1
<1> QED BY <1>2, Invariance, PTL DEF Spec, SilentAfterStop
=============================================================================
