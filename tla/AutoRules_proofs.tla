--------------------------- MODULE AutoRules_proofs ---------------------------
(***************************************************************************)
(* Safety of the automation runner, for every calendar, all rules and      *)
(* processes and any number of restarts: a scheduled occurrence is handed  *)
(* over at most once, the announced time is the next one, a window is in   *)
(* force as a whole, and a process event means a change.                   *)
(***************************************************************************)
EXTENDS AutoRules, WellFoundedInduction, TLAPS

\* What a step reports goes through a loop that is under way
Phases ==
    /\ firing # NoEvent => pc \in {"pending", "rules"}
    /\ pc = "pending" => todo \subseteq {r \in ScheduledRules : pendingFor[r] # NoDate}
    /\ pc = "rules" => todo \subseteq setup.rules
    /\ firing # NoEvent /\ firing.rule \in ScheduledRules => firing.occurrence \in 1..Days

\* The state file, while the runner is down, and its copy while it is up
Book == IF pc = "off" THEN disk ELSE lastOcc

\* The last occurrence in the book is the last that was consumed, a waiting one
\* comes after it and none is of a day to come
BookIsKept ==
    /\ pc = "off" => ~unsaved
    /\ pc # "off" /\ ~unsaved /\ ~lost => disk = lastOcc
    /\ ~lost /\ ~rewound =>
          /\ HandedOnce
          /\ \A r \in ScheduledRules : Book[r] <= DateOf(wall)
          /\ \A r \in ScheduledRules, d \in 1..Days :
                delivered[<<r, d>>] > 0 \/ <<r, d>> \in dropped => d <= Book[r]
          /\ \A r \in ScheduledRules : pendingFor[r] # NoDate =>
                Book[r] < pendingFor[r] /\ pendingFor[r] <= DateOf(wall)
          /\ firing # NoEvent /\ firing.rule \in ScheduledRules =>
                /\ firing.occurrence <= Book[firing.rule]
                /\ delivered[<<firing.rule, firing.occurrence>>] = 0
                /\ <<firing.rule, firing.occurrence>> \notin dropped

\* The rule has been looked at in the step that is under way or just over
Visited(r) == pc = "wait" \/ (pc = "rules" /\ r \notin todo)

\* The state that was handed out is that of the wall clock, and what is due has
\* been consumed or waits
CalendarIsRead ==
    pc \in {"pending", "rules", "wait"} =>
        /\ effective = {r \in StateRules \cap setup.rules : Active(r, wall, counts)}
        /\ next = NextScheduled(wall)
        /\ \A r \in ScheduledRules \cap setup.rules : Visited(r) /\ Due(r, wall) =>
              lastOcc[r] = DateOf(wall) \/ pendingFor[r] # NoDate

\* A process is given up when it has been gone for the grace period
GoneIsAbsent ==
    \A p \in Watched : gone[p] = IF p \in counts THEN absentAge[p] ELSE ExitGrace

Sight(r) == IF AnyRunning(r, counts) THEN "running" ELSE "absent"

\* What a process rule remembers is what the scans before saw
MemoryIsSight ==
    /\ pc \in {"off", "start"} =>
          /\ ~known
          /\ \A r \in ProcessRules : previous[r] = "unset" /\ observed[r].now = "unset"
    /\ pc \notin {"off", "start"} => \A r \in ProcessRules \cap setup.rules :
          /\ observed[r].now = IF known THEN Sight(r) ELSE "unknown"
          /\ pc = "tick" \/ Visited(r) => previous[r] = Sight(r)
          /\ known /\ previous[r] = "absent" /\ AnyRunning(r, counts) =>
                observed[r].before \in {"absent", "unknown"}

IInv ==
    /\ StateOK /\ Phases /\ BookIsKept /\ CalendarIsRead
    /\ GoneIsAbsent /\ MemoryIsSight /\ EventsAreChanges
-----------------------------------------------------------------------------
(* Numbers and dates *)

\* The constants, one by one.
LEMMA Constants ==
  /\ ScanInterval \in Nat \ {0} /\ ExitGrace \in Nat \ {0} /\ DueGrace \in Nat \ {0}
  /\ MaxWait \in Nat \ {0} /\ Days \in Nat \ {0} /\ DayLength \in Nat \ {0}
  /\ MaxHalts \in Nat /\ MaxFaults \in Nat
  /\ At \in [Rules -> 0..DayLength - 1] /\ Until \in [Rules -> 0..DayLength - 1]
BY TimesAssumption, RulesAssumption, BoundsAssumption

\* A set of times has a first one.
LEMMA MinIsFirst ==
  ASSUME NEW S, S \subseteq Nat, S # {}
  PROVE  Min(S) \in S /\ \A y \in S : Min(S) <= y
<1>1. PICK R : IsWellFoundedOn(R, Nat) /\ \A x, y \in Nat : <<x, y>> \in R <=> x < y
  <2>1. \A x, y \in Nat : <<x, y>> \in OpToRel(<, Nat) <=> x < y
    BY DEF OpToRel
  <2> QED BY <2>1, NatLessThanWellFounded
<1>2. PICK x \in S : \A y \in S : ~(<<y, x>> \in R)
  <2>1. IsWellFoundedOn(R, Nat)
    BY <1>1
  <2> QED BY <2>1, WFMin, Zenon
<1>3. \A y \in S : x <= y
  <2>1. ASSUME NEW y \in S PROVE x <= y
    <3>1. x \in Nat /\ y \in Nat /\ ~(<<y, x>> \in R)
      BY <1>2
    <3>2. ~(y < x)
      BY <1>1, <3>1
    <3> QED BY <3>1, <3>2
  <2> QED BY <2>1
<1> QED BY <1>3 DEF Min

\* A time has one day and one time of day.
LEMMA DayIsUnique ==
  ASSUME NEW n \in Nat \ {0}, NEW d \in Int, NEW q \in Int,
         NEW m \in 0..(n - 1), NEW k \in 0..(n - 1), n * d + m = n * q + k
  PROVE  d = q /\ m = k
<1>1. CASE d < q
  <2>1. n * (q - d) >= n
    BY <1>1
  <2>2. n * (q - d) = n * q - n * d
    OBVIOUS
  <2> QED BY <2>1, <2>2
<1>2. CASE q < d
  <2>1. n * (d - q) >= n
    BY <1>2
  <2>2. n * (d - q) = n * d - n * q
    OBVIOUS
  <2> QED BY <2>1, <2>2
<1> QED BY <1>1, <1>2

\* A time of the calendar is a time of day on one of its dates.
LEMMA DateFacts ==
  ASSUME NEW t \in 0..LastTime
  PROVE  /\ DateOf(t) \in 1..Days /\ t % DayLength \in 0..(DayLength - 1)
         /\ t = (DateOf(t) - 1) * DayLength + (t % DayLength)
<1> DEFINE q == t \div DayLength
           m == t % DayLength
<1>1. DayLength \in Nat \ {0} /\ Days \in Nat \ {0} /\ t \in Nat /\ t <= Days * DayLength - 1
  BY Constants DEF LastTime
<1>2. q \in Nat /\ m \in 0..(DayLength - 1) /\ t = DayLength * q + m
  BY <1>1
<1>3. DateOf(t) = q + 1
  BY DEF DateOf
<1> HIDE DEF q
<1>4. q < Days
  <2> SUFFICES ASSUME q >= Days PROVE FALSE
    BY <1>1, <1>2
  <2>1. DayLength * (q - Days) >= 0
    BY <1>1, <1>2
  <2>2. DayLength * (q - Days) = DayLength * q - DayLength * Days
    BY <1>1, <1>2
  <2> QED BY <1>1, <1>2, <2>1, <2>2
<1> QED BY <1>1, <1>2, <1>3, <1>4

\* A time of day on a date belongs to that date.
LEMMA DateOfTime ==
  ASSUME NEW t \in 0..LastTime, NEW d \in Int, NEW m \in 0..(DayLength - 1),
         t = (d - 1) * DayLength + m
  PROVE  DateOf(t) = d /\ t % DayLength = m
<1>1. /\ DateOf(t) \in 1..Days /\ t % DayLength \in 0..(DayLength - 1)
      /\ t = (DateOf(t) - 1) * DayLength + (t % DayLength) /\ DayLength \in Nat \ {0}
      /\ Days \in Nat
  BY DateFacts, Constants
<1> DEFINE e == DateOf(t) - 1
           k == t % DayLength
<1>2. /\ e \in Int /\ k \in 0..(DayLength - 1) /\ d - 1 \in Int
      /\ DayLength * e + k = DayLength * (d - 1) + m
  BY <1>1
<1> HIDE DEF e, k
<1>3. e = d - 1 /\ k = m
  BY <1>1, <1>2, DayIsUnique
<1>4. DateOf(t) - 1 = d - 1
  BY <1>3 DEF e
<1>5. t % DayLength = m
  BY <1>3 DEF k
<1>6. DateOf(t) \in Int
  BY <1>1
<1> QED BY <1>4, <1>5, <1>6

\* Two times between one and the next midnight have one date.
LEMMA SameDate ==
  ASSUME NEW t \in 0..LastTime, NEW u \in 0..LastTime, NEW d \in Int,
         (d - 1) * DayLength <= u, u <= t, DateOf(t) = d
  PROVE  DateOf(u) = d
<1>1. /\ t = (d - 1) * DayLength + (t % DayLength) /\ t % DayLength \in 0..(DayLength - 1)
      /\ DayLength \in Nat \ {0} /\ t \in Nat /\ u \in Nat
  BY DateFacts, Constants
<1> DEFINE m == u - (d - 1) * DayLength
<1>2. m \in 0..(DayLength - 1) /\ u = (d - 1) * DayLength + m
  BY <1>1
<1> HIDE DEF m
<1> QED BY <1>2, DateOfTime
-----------------------------------------------------------------------------
(* Steps *)

\* The clock stays within the calendar, and a date that is not an earlier one
\* has not been set back.
LEMMA ElapseFacts ==
  ASSUME StateOK, NEW w \in Int, Elapse(w)
  PROVE  /\ wall' \in 0..LastTime /\ rewound' \in BOOLEAN
         /\ ~rewound' => ~rewound /\ DateOf(wall) <= DateOf(wall')
<1>1. wall \in 0..LastTime /\ LastTime \in Nat
  <2>1. Days * DayLength >= 1
    BY Constants
  <2> QED BY <2>1, Constants DEF StateOK, LastTime
<1>2. wall' \in 0..LastTime
  BY <1>1 DEF Elapse
<1>3. DateOf(wall) \in 1..Days /\ DateOf(wall') \in 1..Days /\ Days \in Nat
  BY <1>1, <1>2, DateFacts, Constants
<1>4. ~rewound' => ~rewound /\ DateOf(wall) <= DateOf(wall')
  <2>1. ~rewound' => ~rewound /\ ~(DateOf(wall') < DateOf(wall))
    BY Zenon DEF Elapse
  <2>2. ~(DateOf(wall') < DateOf(wall)) => DateOf(wall) <= DateOf(wall')
    BY <1>3
  <2> QED BY <2>1, <2>2
<1>5. rewound' \in BOOLEAN
  BY DEF Elapse
<1> QED BY <1>2, <1>4, <1>5

\* A failure is one of the bounded ones.
LEMMA FaultFacts ==
  ASSUME StateOK, Fault
  PROVE  faults' \in 0..MaxFaults
BY Constants DEF StateOK, Fault

\* The sets the rules fall into.
LEMMA RuleFacts ==
  /\ ScheduledRules \subseteq EventRules /\ ProcessRules \subseteq EventRules
  /\ \A r \in EventRules : r \in ProcessRules <=> r \notin ScheduledRules
  /\ \A r \in ScheduledRules : Trigger[r] = "schedule"
  /\ Instant \in Occurrences /\ NoDate \in Occurrences /\ 1..Days \subseteq Occurrences
  /\ Instant # NoDate /\ NoDate = 0
  /\ EventRules \subseteq Rules /\ StateRules \subseteq Rules
  /\ \A o \in Occurrences : o \in Nat
  /\ \A r \in Rules : Trigger[r] = "exited" => Targets[r] \subseteq Watched
<1>1. Days \in Nat \ {0}
  BY Constants
<1>2. /\ Instant \in Occurrences /\ NoDate \in Occurrences /\ 1..Days \subseteq Occurrences
      /\ Instant # NoDate /\ NoDate = 0 /\ \A o \in Occurrences : o \in Nat
  BY <1>1 DEF Instant, Occurrences, NoDate
<1>3. /\ ScheduledRules \subseteq EventRules /\ ProcessRules \subseteq EventRules
      /\ \A r \in EventRules : r \in ProcessRules <=> r \notin ScheduledRules
      /\ \A r \in ScheduledRules : Trigger[r] = "schedule"
      /\ EventRules \subseteq Rules /\ StateRules \subseteq Rules
  BY DEF ScheduledRules, EventRules, ProcessRules, StateRules
<1>4. \A r \in Rules : Trigger[r] = "exited" => Targets[r] \subseteq Watched
  BY DEF Watched
<1> QED BY <1>2, <1>3, <1>4

\* A checkpoint enters the occurrence, and a written one leaves the file equal
\* to its copy.
LEMMA CheckpointFacts ==
  ASSUME StateOK, NEW r \in EventRules, NEW o \in Occurrences, NEW saved \in BOOLEAN,
         MarkOccurrence(r, o, saved)
  PROVE  /\ lastOcc' \in [EventRules -> Occurrences] /\ disk' \in [EventRules -> Occurrences]
         /\ lastOcc'[r] = o /\ \A x \in EventRules : x # r => lastOcc'[x] = lastOcc[x]
         /\ faults' \in 0..MaxFaults /\ unsaved' \in BOOLEAN
         /\ ~unsaved' => disk' = lastOcc'
<1>1. /\ lastOcc \in [EventRules -> Occurrences] /\ disk \in [EventRules -> Occurrences]
      /\ lastOcc' = [lastOcc EXCEPT ![r] = o] /\ faults \in 0..MaxFaults
  BY DEF StateOK, MarkOccurrence
<1>2. CASE saved
  BY <1>1, <1>2 DEF MarkOccurrence
<1>3. CASE ~saved
  <2>1. faults' \in 0..MaxFaults
    BY <1>3, FaultFacts DEF MarkOccurrence
  <2> QED BY <1>1, <1>3, <2>1 DEF MarkOccurrence
<1> QED BY <1>2, <1>3

\* Entries of the book and waiting occurrences are numbers of dates.
LEMMA EntryFacts ==
  ASSUME StateOK, NEW r \in ScheduledRules
  PROVE  /\ disk[r] \in Nat /\ lastOcc[r] \in Nat /\ Book[r] \in Nat
         /\ pendingFor[r] \in 0..Days /\ pendingFor[r] \in Nat
<1>1. disk[r] \in Occurrences /\ lastOcc[r] \in Occurrences
  BY RuleFacts DEF StateOK
<1>2. disk[r] \in Nat /\ lastOcc[r] \in Nat
  BY <1>1, RuleFacts
<1>3. pendingFor[r] \in 0..Days
  BY DEF StateOK, NoDate
<1> QED BY <1>2, <1>3, Constants DEF Book

\* The runner starts with the file, or without a history.
LEMMA StartKeeps ==
  ASSUME NEW w \in Int, NEW readable \in BOOLEAN
  PROVE  IInv /\ Start(w, readable) => IInv'
<1> SUFFICES ASSUME IInv, Start(w, readable) PROVE IInv'
  OBVIOUS
<1>1. /\ pc = "off" /\ pc' = "start" /\ Elapse(w) /\ StateOK
      /\ UNCHANGED <<setup, todo, firing, disk, present, halts, delivered, dropped, unsaved>>
      /\ UNCHANGED <<counts, absentAge, known, previous, pendingFor>>
      /\ UNCHANGED <<pendingAge, scanAge, effective, next, observed, gone>>
  BY DEF Start, loopState, IInv
<1>2. /\ wall' \in 0..LastTime /\ rewound' \in BOOLEAN
      /\ ~rewound' => ~rewound /\ DateOf(wall) <= DateOf(wall')
  BY <1>1, ElapseFacts
<1>3. /\ lastOcc' \in [EventRules -> Occurrences] /\ faults' \in 0..MaxFaults
      /\ lost' \in BOOLEAN /\ (~lost' => ~lost /\ lastOcc' = disk)
  <2>1. CASE readable
    BY <1>1, <2>1 DEF Start, StateOK
  <2>2. CASE ~readable
    <3>1. Fault /\ lastOcc' = [r \in EventRules |-> NoDate] /\ lost' = TRUE
      BY <2>2 DEF Start
    <3>2. faults' \in 0..MaxFaults
      BY <1>1, <3>1, FaultFacts
    <3> QED BY <3>1, <3>2, RuleFacts
  <2> QED BY <2>1, <2>2
<1>4. StateOK'
  BY <1>1, <1>2, <1>3 DEF StateOK
<1>5. Phases' /\ firing = NoEvent
  BY <1>1 DEF IInv, Phases
<1>6. BookIsKept'
  <2> USE DEF BookIsKept
  <2>1. ~unsaved' /\ ~unsaved /\ (~lost' => disk' = lastOcc')
    BY <1>1, <1>3 DEF IInv
  <2> SUFFICES ASSUME ~lost', ~rewound'
               PROVE  /\ HandedOnce'
                      /\ \A r \in ScheduledRules : Book'[r] <= DateOf(wall')
                      /\ \A r \in ScheduledRules, d \in 1..Days :
                           delivered'[<<r, d>>] > 0 \/ <<r, d>> \in dropped' => d <= Book'[r]
                      /\ \A r \in ScheduledRules : pendingFor'[r] # NoDate =>
                           Book'[r] < pendingFor'[r] /\ pendingFor'[r] <= DateOf(wall')
    BY <1>1, <1>5, <2>1
  <2>2. ~lost /\ ~rewound /\ Book' = Book /\ UNCHANGED <<delivered, dropped, pendingFor>>
    BY <1>1, <1>2, <1>3 DEF Book
  <2>3. HandedOnce'
    BY <2>2 DEF IInv, HandedOnce
  <2>4. /\ DateOf(wall) <= DateOf(wall') /\ DateOf(wall) \in 1..Days /\ DateOf(wall') \in 1..Days
        /\ \A r \in ScheduledRules : Book[r] \in Nat /\ pendingFor[r] \in Nat
    <3>1. DateOf(wall) \in 1..Days /\ DateOf(wall') \in 1..Days
      BY <1>1, <1>2, DateFacts DEF StateOK
    <3>2. DateOf(wall) <= DateOf(wall')
      BY <1>2, <2>2
    <3>3. Book = disk
      BY <1>1 DEF Book
    <3>4. \A r \in ScheduledRules : disk[r] \in Nat /\ pendingFor[r] \in Nat
      BY <1>1, EntryFacts
    <3> QED BY <3>1, <3>2, <3>3, <3>4
  <2>5. \A r \in ScheduledRules : Book'[r] <= DateOf(wall')
    BY <2>2, <2>4 DEF IInv
  <2>6. \A r \in ScheduledRules, d \in 1..Days :
           delivered'[<<r, d>>] > 0 \/ <<r, d>> \in dropped' => d <= Book'[r]
    BY <2>2 DEF IInv
  <2>7. \A r \in ScheduledRules : pendingFor'[r] # NoDate =>
           Book'[r] < pendingFor'[r] /\ pendingFor'[r] <= DateOf(wall')
    BY <2>2, <2>4 DEF IInv
  <2> QED BY <2>3, <2>5, <2>6, <2>7
<1>7. CalendarIsRead'
  BY <1>1 DEF CalendarIsRead
<1>8. GoneIsAbsent' /\ MemoryIsSight' /\ EventsAreChanges'
  BY <1>1, <1>5 DEF IInv, GoneIsAbsent, MemoryIsSight, EventsAreChanges
<1> QED BY <1>4, <1>5, <1>6, <1>7, <1>8 DEF IInv

\* A stop or a crash leaves the file, which is the book if it was written.
LEMMA HaltKeeps == IInv /\ Halt => IInv'
<1> SUFFICES ASSUME IInv, Halt PROVE IInv'
  OBVIOUS
<1>1. /\ pc # "off" /\ pc' = "off" /\ firing' = NoEvent /\ todo' = {} /\ StateOK
      /\ halts < MaxHalts /\ halts' = halts + 1
      /\ counts' = {} /\ absentAge' = [p \in Procs |-> -1] /\ known' = FALSE
      /\ previous' = [r \in ProcessRules |-> "unset"]
      /\ pendingFor' = [r \in ScheduledRules |-> NoDate]
      /\ pendingAge' = [r \in ScheduledRules |-> 0] /\ scanAge' = ScanInterval
      /\ effective' = {} /\ next' = Never
      /\ observed' = [r \in ProcessRules |-> [before |-> "unset", now |-> "unset"]]
      /\ gone' = [p \in Watched |-> ExitGrace] /\ lastOcc' = [r \in EventRules |-> NoDate]
      /\ lost' = (lost \/ unsaved) /\ unsaved' = FALSE
      /\ UNCHANGED <<setup, disk, present, wall, rewound, faults, delivered, dropped>>
  BY DEF Halt, IInv, clock
<1>2. StateOK'
  <2>1. halts' \in 0..MaxHalts /\ scanAge' \in 0..ScanInterval /\ next' \in 0..Never
    <3>1. Days * DayLength >= 1
      BY Constants
    <3> QED BY <1>1, <3>1, Constants DEF StateOK, Never, LastTime
  <2>2. /\ absentAge' \in [Procs -> -1..ExitGrace] /\ gone' \in [Watched -> -1..ExitGrace]
        /\ pendingFor' \in [ScheduledRules -> NoDate..Days]
        /\ pendingAge' \in [ScheduledRules -> 0..MaxWait]
    BY <1>1, Constants DEF NoDate
  <2>3. /\ previous' \in [ProcessRules -> Seen]
        /\ observed' \in [ProcessRules -> [before: Seen \cup {"unknown"},
                                           now: Seen \cup {"unknown"}]]
    BY <1>1 DEF Seen
  <2>4. lastOcc' \in [EventRules -> Occurrences]
    BY <1>1, RuleFacts
  <2>5. lost' \in BOOLEAN /\ unsaved' \in BOOLEAN /\ known' \in BOOLEAN
    BY <1>1
  <2> QED BY <1>1, <2>1, <2>2, <2>3, <2>4, <2>5 DEF StateOK
<1>3. Phases' /\ CalendarIsRead' /\ EventsAreChanges'
  BY <1>1 DEF Phases, CalendarIsRead, EventsAreChanges
<1>4. GoneIsAbsent' /\ MemoryIsSight'
  BY <1>1 DEF GoneIsAbsent, MemoryIsSight
<1>5. BookIsKept'
  <2>1. CASE lost' \/ rewound'
    BY <1>1, <2>1 DEF BookIsKept
  <2>2. CASE ~lost' /\ ~rewound'
    <3>1. ~lost /\ ~unsaved /\ ~rewound /\ Book' = Book
      BY <1>1, <2>2 DEF IInv, BookIsKept, Book
    <3>2. HandedOnce'
      <4>1. HandedOnce /\ UNCHANGED <<delivered, dropped>> /\ ~lost /\ ~rewound
        BY <1>1, <3>1 DEF IInv, BookIsKept
      <4> QED BY <4>1 DEF HandedOnce
    <3>3. \A r \in ScheduledRules : Book'[r] <= DateOf(wall') /\ pendingFor'[r] = NoDate
      BY <1>1, <3>1 DEF IInv, BookIsKept
    <3>4. \A r \in ScheduledRules, d \in 1..Days :
             delivered'[<<r, d>>] > 0 \/ <<r, d>> \in dropped' => d <= Book'[r]
      BY <1>1, <3>1 DEF IInv, BookIsKept
    <3> QED BY <1>1, <3>2, <3>3, <3>4 DEF BookIsKept
  <2> QED BY <2>1, <2>2
<1> QED BY <1>2, <1>3, <1>4, <1>5 DEF IInv

\* While the runner waits, time passes.
LEMMA TickKeeps ==
  ASSUME NEW d \in Nat \ {0}, NEW w \in Int
  PROVE  IInv /\ Tick(d, w) => IInv'
<1> SUFFICES ASSUME IInv, Tick(d, w) PROVE IInv'
  OBVIOUS
<1>1. /\ pc = "wait" /\ pc' = "tick" /\ Elapse(w) /\ StateOK
      /\ scanAge' = Min2(scanAge + d, ScanInterval)
      /\ absentAge' = [p \in Procs |->
             IF absentAge[p] = -1 THEN -1 ELSE Min2(absentAge[p] + d, ExitGrace)]
      /\ pendingAge' = [r \in ScheduledRules |->
             IF pendingFor[r] = NoDate THEN 0 ELSE Min2(pendingAge[r] + d, MaxWait)]
      /\ gone' = [p \in Watched |->
             IF gone[p] = -1 THEN -1 ELSE Min2(gone[p] + d, ExitGrace)]
      /\ UNCHANGED <<setup, todo, firing, counts, known, previous, pendingFor>>
      /\ UNCHANGED <<effective, next, observed, lastOcc, disk, present>>
      /\ UNCHANGED <<halts, faults, delivered, dropped, unsaved, lost>>
  BY DEF Tick, IInv
<1>2. /\ wall' \in 0..LastTime /\ rewound' \in BOOLEAN
      /\ ~rewound' => ~rewound /\ DateOf(wall) <= DateOf(wall')
  BY <1>1, ElapseFacts
<1>3. \A n \in -1..ExitGrace :
         /\ (IF n = -1 THEN -1 ELSE Min2(n + d, ExitGrace)) \in -1..ExitGrace
         /\ n = ExitGrace => Min2(n + d, ExitGrace) = ExitGrace
  BY Constants DEF Min2
<1>4. StateOK'
  <2>1. scanAge' \in 0..ScanInterval
    BY <1>1, Constants DEF StateOK, Min2
  <2>2. absentAge' \in [Procs -> -1..ExitGrace] /\ gone' \in [Watched -> -1..ExitGrace]
    BY <1>1, <1>3 DEF StateOK
  <2>3. pendingAge' \in [ScheduledRules -> 0..MaxWait]
    <3>1. 0 \in 0..MaxWait /\ \A n \in 0..MaxWait : Min2(n + d, MaxWait) \in 0..MaxWait
      BY Constants DEF Min2
    <3>2. \A r \in ScheduledRules : pendingAge[r] \in 0..MaxWait
      BY <1>1 DEF StateOK
    <3> HIDE DEF Min2
    <3>3. \A r \in ScheduledRules :
             (IF pendingFor[r] = NoDate THEN 0 ELSE Min2(pendingAge[r] + d, MaxWait))
               \in 0..MaxWait
      BY <3>1, <3>2
    <3> QED BY <1>1, <3>3
  <2> QED BY <1>1, <1>2, <2>1, <2>2, <2>3 DEF StateOK
<1>5. Phases' /\ firing = NoEvent /\ CalendarIsRead'
  BY <1>1 DEF IInv, Phases, CalendarIsRead
<1>6. BookIsKept'
  <2>1. (~unsaved' /\ ~lost' => disk' = lastOcc') /\ Book' = Book
    BY <1>1 DEF IInv, BookIsKept, Book
  <2>2. CASE lost' \/ rewound'
    BY <1>1, <2>1, <2>2 DEF BookIsKept
  <2>3. CASE ~lost' /\ ~rewound'
    <3>1. ~lost /\ ~rewound /\ DateOf(wall) <= DateOf(wall')
      BY <1>1, <1>2, <2>3
    <3>2. UNCHANGED <<delivered, dropped, pendingFor, firing>> /\ HandedOnce
      BY <1>1, <3>1 DEF IInv, BookIsKept
    <3>3. HandedOnce'
      BY <3>1, <3>2 DEF HandedOnce
    <3>4. DateOf(wall) \in 1..Days /\ DateOf(wall') \in 1..Days /\ Days \in Nat
      BY <1>1, <1>2, DateFacts, Constants DEF StateOK
    <3>5. ASSUME NEW r \in ScheduledRules
          PROVE  /\ Book'[r] <= DateOf(wall')
                 /\ pendingFor'[r] # NoDate =>
                      Book'[r] < pendingFor'[r] /\ pendingFor'[r] <= DateOf(wall')
      <4>1. Book[r] \in Nat /\ pendingFor[r] \in Nat
        BY <1>1, EntryFacts
      <4>2. /\ Book[r] <= DateOf(wall)
            /\ pendingFor[r] # NoDate =>
                 Book[r] < pendingFor[r] /\ pendingFor[r] <= DateOf(wall)
        BY <3>1 DEF IInv, BookIsKept
      <4> QED BY <2>1, <3>1, <3>2, <3>4, <4>1, <4>2
    <3>6. \A r \in ScheduledRules, e \in 1..Days :
             delivered'[<<r, e>>] > 0 \/ <<r, e>> \in dropped' => e <= Book'[r]
      BY <2>1, <3>1, <3>2 DEF IInv, BookIsKept
    <3>7. firing' = NoEvent
      BY <1>1, <1>5
    <3> QED BY <1>1, <2>1, <3>3, <3>5, <3>6, <3>7 DEF BookIsKept
  <2> QED BY <2>2, <2>3
<1>7. GoneIsAbsent'
  <2> SUFFICES ASSUME NEW p \in Watched
               PROVE  gone'[p] = IF p \in counts' THEN absentAge'[p] ELSE ExitGrace
    BY DEF GoneIsAbsent
  <2>1. /\ gone[p] = IF p \in counts THEN absentAge[p] ELSE ExitGrace
        /\ gone[p] \in -1..ExitGrace /\ counts \subseteq Procs
    BY <1>1 DEF IInv, GoneIsAbsent, StateOK
  <2>2. gone'[p] = IF gone[p] = -1 THEN -1 ELSE Min2(gone[p] + d, ExitGrace)
    BY <1>1
  <2>3. CASE p \in counts
    BY <1>1, <2>1, <2>2, <2>3
  <2>4. CASE p \notin counts
    BY <1>1, <1>3, <2>1, <2>2, <2>4, Constants
  <2> QED BY <2>3, <2>4
<1>8. MemoryIsSight'
  BY <1>1 DEF IInv, MemoryIsSight, Visited, Sight
<1>9. EventsAreChanges'
  BY <1>1, <1>5 DEF EventsAreChanges
<1> QED BY <1>4, <1>5, <1>6, <1>7, <1>8, <1>9 DEF IInv

\* The first occurrence to come is a time, or none.
LEMMA NextFacts ==
  ASSUME setup.rules \subseteq Rules, NEW t \in Nat
  PROVE  LET candidates ==
               {(x[2] - 1) * DayLength + At[x[1]] :
                  x \in {x \in (ScheduledRules \cap setup.rules) \X (1..Days) :
                            x[2] \in Dates[x[1]]}}
         IN  /\ NextScheduled(t) \in 0..Never
             /\ \A c \in candidates : c > t => NextScheduled(t) <= c
<1> DEFINE dates == {x \in (ScheduledRules \cap setup.rules) \X (1..Days) :
                         x[2] \in Dates[x[1]]}
           candidates == {(x[2] - 1) * DayLength + At[x[1]] : x \in dates}
           coming == {c \in candidates : c > t} \cup {Never}
<1>1. candidates \subseteq Nat /\ Never \in Nat
  <2>1. Never = Days * DayLength /\ Never \in Nat
    BY Constants DEF Never, LastTime
  <2>2. ASSUME NEW x \in dates PROVE (x[2] - 1) * DayLength + At[x[1]] \in Nat
    <3>1. x[2] - 1 \in Nat /\ At[x[1]] \in Nat /\ DayLength \in Nat
      BY <2>2, Constants DEF ScheduledRules, EventRules
    <3>2. \A a, b, c \in Nat : a * b + c \in Nat
      OBVIOUS
    <3> QED BY <3>1, <3>2
  <2> QED BY <2>1, <2>2
<1> HIDE DEF candidates
<1>2. coming \subseteq Nat /\ coming # {} /\ Never \in coming
  BY <1>1
<1> HIDE DEF coming
<1>3. Min(coming) \in coming /\ \A y \in coming : Min(coming) <= y
  BY <1>2, MinIsFirst
<1>4. NextScheduled(t) = Min(coming)
  BY DEF NextScheduled, coming, candidates
<1>5. NextScheduled(t) \in 0..Never
  <2>1. Min(coming) \in Nat /\ Min(coming) <= Never
    BY <1>2, <1>3
  <2> QED BY <1>1, <1>4, <2>1
<1>6. \A c \in candidates : c > t => NextScheduled(t) <= c
  BY <1>3, <1>4 DEF coming
<1> QED BY <1>5, <1>6 DEF candidates

\* A scan: a process is forgotten when it has been gone for the grace period,
\* and what the rules saw is noted.
LEMMA ScanKeeps ==
  ASSUME StateOK, GoneIsAbsent, MemoryIsSight, pc \in {"start", "tick"},
         NEW succeeds \in BOOLEAN, Scan(succeeds), UNCHANGED <<setup, previous, present>>
  PROVE  /\ counts' \subseteq Procs /\ absentAge' \in [Procs -> -1..ExitGrace]
         /\ known' \in BOOLEAN /\ faults' \in 0..MaxFaults
         /\ observed' \in [ProcessRules -> [before: Seen \cup {"unknown"},
                                            now: Seen \cup {"unknown"}]]
         /\ gone' \in [Watched -> -1..ExitGrace]
         /\ GoneIsAbsent'
         /\ \A r \in ProcessRules \cap setup.rules :
              /\ observed'[r].now = IF known' THEN Sight(r)' ELSE "unknown"
              /\ known' /\ previous[r] = "absent" /\ AnyRunning(r, counts') =>
                   observed'[r].before \in {"absent", "unknown"}
<1>1. /\ counts \subseteq Procs /\ present \subseteq Procs
      /\ absentAge \in [Procs -> -1..ExitGrace] /\ gone \in [Watched -> -1..ExitGrace]
      /\ Watched \subseteq Procs
      /\ observed \in [ProcessRules -> [before: Seen \cup {"unknown"},
                                        now: Seen \cup {"unknown"}]]
      /\ ExitGrace \in Nat \ {0}
  BY RulesAssumption, Constants DEF StateOK, Watched
<1>2. CASE succeeds
  <2>1. /\ counts' = Stable(present)
        /\ absentAge' = [p \in Procs |->
              IF p \in present \/ p \notin Stable(present) THEN -1
              ELSE IF absentAge[p] = -1 THEN 0 ELSE absentAge[p]]
        /\ known' = TRUE /\ faults' = faults
        /\ observed' = [r \in ProcessRules |->
              IF r \notin setup.rules THEN observed[r]
              ELSE [before |-> observed[r].now,
                    now |-> IF AnyRunning(r, counts') THEN "running" ELSE "absent"]]
        /\ gone' = [p \in Watched |->
              IF p \in present THEN -1 ELSE IF gone[p] = -1 THEN 0 ELSE gone[p]]
    BY <1>2 DEF Scan
  <2>2. /\ counts' \subseteq Procs
        /\ \A p \in Procs : p \in counts' <=>
              p \in present \/ (p \in counts /\ ~(absentAge[p] >= ExitGrace))
    BY <1>1, <2>1 DEF Stable, GivenUp
  <2>3. absentAge' \in [Procs -> -1..ExitGrace] /\ gone' \in [Watched -> -1..ExitGrace]
    BY <1>1, <2>1
  <2>4. observed' \in [ProcessRules -> [before: Seen \cup {"unknown"},
                                        now: Seen \cup {"unknown"}]]
    BY <1>1, <2>1 DEF Seen
  <2>5. GoneIsAbsent'
    <3> SUFFICES ASSUME NEW p \in Watched
                 PROVE  gone'[p] = IF p \in counts' THEN absentAge'[p] ELSE ExitGrace
      BY DEF GoneIsAbsent
    <3>1. /\ gone[p] = IF p \in counts THEN absentAge[p] ELSE ExitGrace
          /\ p \in Procs /\ absentAge[p] \in -1..ExitGrace
      BY <1>1 DEF GoneIsAbsent
    <3>2. gone'[p] = IF p \in present THEN -1 ELSE IF gone[p] = -1 THEN 0 ELSE gone[p]
      BY <2>1
    <3>3. absentAge'[p] = IF p \in present \/ p \notin counts' THEN -1
                          ELSE IF absentAge[p] = -1 THEN 0 ELSE absentAge[p]
      BY <2>1, <3>1
    <3>4. CASE p \in present
      BY <2>2, <3>1, <3>2, <3>3, <3>4
    <3>5. CASE p \notin present /\ p \in counts
      BY <1>1, <2>2, <3>1, <3>2, <3>3, <3>5
    <3>6. CASE p \notin present /\ p \notin counts
      BY <1>1, <2>2, <3>1, <3>2, <3>3, <3>6
    <3> QED BY <3>4, <3>5, <3>6
  <2>6. ASSUME NEW r \in ProcessRules \cap setup.rules
        PROVE  /\ observed'[r].now = Sight(r)'
               /\ previous[r] = "absent" => observed'[r].before \in {"absent", "unknown"}
    <3>1. /\ observed'[r].now = IF AnyRunning(r, counts') THEN "running" ELSE "absent"
          /\ observed'[r].before = observed[r].now
      BY <2>1
    <3>2. previous[r] = "absent" => observed[r].now \in {"absent", "unknown"}
      <4>1. CASE pc = "start"
        BY <4>1 DEF MemoryIsSight
      <4>2. CASE pc = "tick"
        BY <4>2 DEF MemoryIsSight
      <4> QED BY <4>1, <4>2
    <3> QED BY <3>1, <3>2 DEF Sight
  <2>7. known' \in BOOLEAN /\ faults' \in 0..MaxFaults
    BY <2>1 DEF StateOK
  <2> QED BY <2>1, <2>2, <2>3, <2>4, <2>5, <2>6, <2>7
<1>3. CASE ~succeeds
  <2>1. /\ Fault /\ UNCHANGED <<counts, absentAge, known, gone>>
        /\ observed' = [r \in ProcessRules |->
              IF observed[r].now = "unset"
              THEN [observed[r] EXCEPT !.now = "unknown"] ELSE observed[r]]
    BY <1>3 DEF Scan
  <2>2. faults' \in 0..MaxFaults
    BY <2>1, FaultFacts
  <2>3. observed' \in [ProcessRules -> [before: Seen \cup {"unknown"},
                                        now: Seen \cup {"unknown"}]]
    BY <1>1, <2>1
  <2>4. GoneIsAbsent' /\ known' \in BOOLEAN
    BY <2>1 DEF GoneIsAbsent, StateOK
  <2>5. ASSUME NEW r \in ProcessRules \cap setup.rules
        PROVE  /\ observed'[r].now = IF known' THEN Sight(r)' ELSE "unknown"
               /\ ~(known' /\ previous[r] = "absent" /\ AnyRunning(r, counts'))
    <3>1. CASE pc = "start"
      <4>1. ~known /\ observed[r].now = "unset" /\ observed[r] \in [before: Seen \cup {"unknown"}, now: Seen \cup {"unknown"}]
        BY <1>1, <3>1 DEF MemoryIsSight
      <4>2. observed'[r].now = "unknown"
        BY <2>1, <4>1
      <4> QED BY <2>1, <4>1, <4>2
    <3>2. CASE pc = "tick"
      <4>1. /\ observed[r].now = IF known THEN Sight(r) ELSE "unknown"
            /\ previous[r] = Sight(r)
        BY <3>2 DEF MemoryIsSight
      <4>2. observed'[r] = observed[r]
        BY <2>1, <4>1 DEF Sight
      <4> QED BY <2>1, <4>1, <4>2 DEF Sight
    <3> QED BY <3>1, <3>2
  <2> QED BY <1>1, <2>1, <2>2, <2>3, <2>4, <2>5
<1> QED BY <1>2, <1>3

\* The head of a step: what is seen and what the clock shows are handed out.
LEMMA BeginStepKeeps ==
  ASSUME NEW succeeds \in BOOLEAN
  PROVE  IInv /\ BeginStep(succeeds) => IInv'
<1> SUFFICES ASSUME IInv, BeginStep(succeeds) PROVE IInv'
  OBVIOUS
<1>1. /\ pc \in {"start", "tick"} /\ pc' = "pending" /\ StateOK
      /\ effective' = {r \in StateRules \cap setup.rules : Active(r, wall, counts')}
      /\ next' = NextScheduled(wall)
      /\ todo' = {r \in ScheduledRules : pendingFor[r] # NoDate}
      /\ UNCHANGED <<setup, firing, previous, pendingFor, pendingAge, lastOcc, disk>>
      /\ UNCHANGED <<present, wall, rewound, halts, delivered, dropped, unsaved, lost>>
  BY DEF BeginStep, IInv, clock
<1>2. /\ counts' \subseteq Procs /\ absentAge' \in [Procs -> -1..ExitGrace]
      /\ known' \in BOOLEAN /\ faults' \in 0..MaxFaults
      /\ observed' \in [ProcessRules -> [before: Seen \cup {"unknown"},
                                         now: Seen \cup {"unknown"}]]
      /\ gone' \in [Watched -> -1..ExitGrace] /\ scanAge' \in 0..ScanInterval
      /\ GoneIsAbsent'
      /\ \A r \in ProcessRules \cap setup.rules :
           /\ observed'[r].now = IF known' THEN Sight(r)' ELSE "unknown"
           /\ known' /\ previous[r] = "absent" /\ AnyRunning(r, counts') =>
                observed'[r].before \in {"absent", "unknown"}
  <2>1. CASE ScanDue
    <3>1. Scan(succeeds) /\ scanAge' = 0
      BY <2>1 DEF BeginStep
    <3>2. scanAge' \in 0..ScanInterval
      BY <3>1, Constants
    <3>3. GoneIsAbsent /\ MemoryIsSight
      BY DEF IInv
    <3> QED BY <1>1, <3>1, <3>2, <3>3, ScanKeeps
  <2>2. CASE ~ScanDue
    <3>1. UNCHANGED <<counts, absentAge, known, observed, gone, faults, scanAge>> /\ pc = "tick"
      BY <1>1, <2>2 DEF BeginStep, ScanDue
    <3>2. GoneIsAbsent'
      BY <3>1 DEF IInv, GoneIsAbsent
    <3>3. ASSUME NEW r \in ProcessRules \cap setup.rules
          PROVE  /\ observed'[r].now = IF known' THEN Sight(r)' ELSE "unknown"
                 /\ ~(previous[r] = "absent" /\ AnyRunning(r, counts'))
      BY <3>1 DEF IInv, MemoryIsSight, Sight
    <3> QED BY <1>1, <3>1, <3>2, <3>3 DEF StateOK
  <2> QED BY <2>1, <2>2
<1>3. firing = NoEvent /\ todo' \subseteq EventRules
  BY <1>1, RuleFacts DEF IInv, Phases
<1>4. StateOK'
  <2>1. wall \in Nat /\ setup.rules \subseteq Rules
    BY <1>1, TimesAssumption DEF StateOK
  <2>2. next' \in 0..Never
    BY <1>1, <2>1, NextFacts
  <2>3. effective' \subseteq StateRules
    BY <1>1
  <2> QED BY <1>1, <1>2, <1>3, <2>2, <2>3 DEF StateOK
<1>5. Phases'
  BY <1>1, <1>3 DEF Phases
<1>6. BookIsKept'
  <2>1. Book' = Book /\ HandedOnce' = HandedOnce
    BY <1>1 DEF Book, HandedOnce
  <2> QED BY <1>1, <1>3, <2>1 DEF IInv, BookIsKept
<1>7. CalendarIsRead'
  <2>1. NextScheduled(wall)' = NextScheduled(wall)
    BY <1>1 DEF NextScheduled
  <2> QED BY <1>1, <2>1 DEF CalendarIsRead, Visited
<1>8. MemoryIsSight'
  BY <1>1, <1>2 DEF MemoryIsSight, Visited
<1>9. EventsAreChanges'
  BY <1>1, <1>3 DEF EventsAreChanges
<1> QED BY <1>2, <1>4, <1>5, <1>6, <1>7, <1>8, <1>9 DEF IInv

\* A scheduled occurrence after the one in the book is consumed: it is entered,
\* and handed over or given up but not both.
LEMMA ConsumptionIsKept ==
  ASSUME StateOK, BookIsKept, pc # "off", pc' = pc, firing = NoEvent,
         NEW r \in ScheduledRules, NEW o \in 1..Days, NEW saved \in BOOLEAN,
         ~lost /\ ~rewound => lastOcc[r] < o /\ o <= DateOf(wall),
         Fire(r, o, saved) \/ GiveUp(r, o, saved),
         pendingFor'[r] = NoDate,
         \A x \in ScheduledRules : x # r => pendingFor'[x] = pendingFor[x],
         UNCHANGED <<wall, rewound, delivered, lost>>
  PROVE  BookIsKept'
<1>1. MarkOccurrence(r, o, saved) /\ r \in EventRules /\ o \in Occurrences
  BY RuleFacts DEF Fire, GiveUp
<1>2. /\ lastOcc' \in [EventRules -> Occurrences]
      /\ lastOcc'[r] = o /\ \A x \in EventRules : x # r => lastOcc'[x] = lastOcc[x]
      /\ ~unsaved' => disk' = lastOcc'
  BY <1>1, CheckpointFacts
<1>3. Book = lastOcc /\ Book' = lastOcc'
  BY DEF Book
<1>4. CASE lost' \/ rewound'
  BY <1>2, <1>4 DEF BookIsKept
<1>5. CASE ~lost' /\ ~rewound'
  <2>1. ~lost /\ ~rewound /\ lastOcc[r] < o /\ o <= DateOf(wall) /\ lastOcc[r] \in Nat /\ o \in Nat
    BY <1>5, EntryFacts
  <2>2. \A x \in ScheduledRules : lastOcc'[x] = IF x = r THEN o ELSE lastOcc[x]
    BY <1>2, RuleFacts
  <2>3. ASSUME NEW x \in ScheduledRules
        PROVE  /\ lastOcc'[x] <= DateOf(wall')
               /\ pendingFor'[x] # NoDate =>
                    lastOcc'[x] < pendingFor'[x] /\ pendingFor'[x] <= DateOf(wall')
    BY <1>3, <2>1, <2>2 DEF BookIsKept
  <2>4. \A x \in ScheduledRules, d \in 1..Days :
           delivered[<<x, d>>] > 0 \/ <<x, d>> \in dropped => d <= lastOcc[x]
    BY <1>3, <2>1 DEF BookIsKept
  <2>5. delivered \in [ScheduledRules \X (1..Days) -> 0..2] /\ \A d \in 1..Days : d \in Nat
    BY Constants DEF StateOK
  <2>6. delivered[<<r, o>>] = 0 /\ <<r, o>> \notin dropped
    <3>1. ~(o <= lastOcc[r]) /\ delivered[<<r, o>>] \in 0..2
      BY <2>1, <2>5
    <3> QED BY <2>4, <3>1
  <2>7. ASSUME NEW x \in ScheduledRules, NEW d \in 1..Days,
               delivered'[<<x, d>>] > 0 \/ <<x, d>> \in dropped'
        PROVE  d <= lastOcc'[x]
    <3>1. CASE x = r /\ d = o
      BY <2>2, <2>5, <3>1
    <3>2. CASE ~(x = r /\ d = o)
      <4>1. delivered[<<x, d>>] > 0 \/ <<x, d>> \in dropped
        BY <2>7, <3>2 DEF Fire, GiveUp
      <4>2. d <= lastOcc[x] /\ d \in Nat /\ lastOcc[x] \in Nat
        BY <2>4, <2>5, <4>1, EntryFacts
      <4> QED BY <2>1, <2>2, <4>2
    <3> QED BY <3>1, <3>2
  <2>8. HandedOnce'
    <3> SUFFICES ASSUME NEW x \in ScheduledRules \X (1..Days)
                 PROVE  delivered'[x] <= IF x \in dropped' THEN 0 ELSE 1
      BY DEF HandedOnce
    <3>1. /\ delivered[x] <= IF x \in dropped THEN 0 ELSE 1
          /\ delivered' = delivered /\ delivered[x] \in Nat
      BY <2>1, <2>5 DEF BookIsKept, HandedOnce
    <3>2. x \in dropped' => x \in dropped \/ x = <<r, o>>
      BY DEF Fire, GiveUp
    <3>3. x \in dropped => x \in dropped'
      BY DEF Fire, GiveUp
    <3> QED BY <2>6, <3>1, <3>2, <3>3
  <2>9. ASSUME firing' # NoEvent
        PROVE  /\ firing'.rule = r /\ firing'.occurrence = o
               /\ <<r, o>> \notin dropped'
    BY <2>6, <2>9 DEF Fire, GiveUp
  <2>10. firing' # NoEvent /\ firing'.rule \in ScheduledRules =>
           /\ firing'.occurrence <= lastOcc'[firing'.rule]
           /\ delivered'[<<firing'.rule, firing'.occurrence>>] = 0
           /\ <<firing'.rule, firing'.occurrence>> \notin dropped'
    BY <2>1, <2>2, <2>6, <2>9
  <2>11. pc' # "off" /\ (~unsaved' /\ ~lost' => disk' = lastOcc')
    BY <1>2
  <2> QED BY <1>3, <2>3, <2>7, <2>8, <2>10, <2>11 DEF BookIsKept
<1> QED BY <1>4, <1>5

\* An event of a process leaves the book of the schedules as it is.
LEMMA ChangeIsKept ==
  ASSUME StateOK, BookIsKept, pc # "off", pc' = pc,
         NEW r \in ProcessRules, NEW saved \in BOOLEAN, Fire(r, Instant, saved),
         UNCHANGED <<wall, rewound, delivered, lost, pendingFor>>
  PROVE  BookIsKept'
<1>1. /\ MarkOccurrence(r, Instant, saved) /\ r \in EventRules /\ dropped' = dropped
      /\ firing' = [rule |-> r, occurrence |-> Instant]
  BY RuleFacts DEF Fire
<1>2. /\ \A x \in EventRules : x # r => lastOcc'[x] = lastOcc[x]
      /\ ~unsaved' => disk' = lastOcc'
  BY <1>1, CheckpointFacts, RuleFacts
<1>3. Book = lastOcc /\ Book' = lastOcc' /\ r \notin ScheduledRules /\ firing'.rule = r
  BY <1>1, RuleFacts DEF Book
<1>4. \A x \in ScheduledRules : lastOcc'[x] = lastOcc[x]
  BY <1>2, <1>3, RuleFacts
<1>5. HandedOnce' = HandedOnce
  BY <1>1 DEF HandedOnce
<1> QED BY <1>1, <1>2, <1>3, <1>4, <1>5 DEF BookIsKept

\* A rule that is passed over leaves the book, and may have an occurrence of
\* today wait that is not in it.
LEMMA WaitingIsKept ==
  ASSUME StateOK, BookIsKept, pc # "off", pc' = pc, firing = NoEvent,
         NEW saved \in BOOLEAN, Pass(saved),
         \A x \in ScheduledRules :
            \/ pendingFor'[x] = pendingFor[x]
            \/ lastOcc[x] # DateOf(wall) /\ pendingFor'[x] = DateOf(wall),
         UNCHANGED <<wall, rewound, delivered, lost>>
  PROVE  BookIsKept'
<1>1. UNCHANGED <<lastOcc, disk, unsaved, firing, dropped>> /\ Book = lastOcc /\ Book' = lastOcc
  BY DEF Pass, Book
<1>2. HandedOnce' = HandedOnce
  BY <1>1 DEF HandedOnce
<1>3. ASSUME ~lost, ~rewound, NEW x \in ScheduledRules, pendingFor'[x] # NoDate
      PROVE  lastOcc[x] < pendingFor'[x] /\ pendingFor'[x] <= DateOf(wall)
  <2>1. lastOcc[x] \in Nat /\ DateOf(wall) \in 1..Days /\ lastOcc[x] <= DateOf(wall) /\ Days \in Nat
    BY <1>1, <1>3, EntryFacts, DateFacts, Constants DEF StateOK, BookIsKept
  <2>2. CASE pendingFor'[x] = pendingFor[x]
    BY <1>1, <1>3, <2>2 DEF BookIsKept
  <2>3. CASE lastOcc[x] # DateOf(wall) /\ pendingFor'[x] = DateOf(wall)
    BY <2>1, <2>3
  <2> QED BY <2>2, <2>3
<1> QED BY <1>1, <1>2, <1>3 DEF BookIsKept

\* What was seen and handed out stays while the waiting occurrences are visited.
LEMMA OthersKept ==
  ASSUME IInv, pc = "pending", pc' = pc,
         UNCHANGED <<setup, counts, absentAge, known, previous, effective, next>>,
         UNCHANGED <<observed, gone, wall>>,
         StateOK', Phases', BookIsKept', EventsAreChanges'
  PROVE  IInv'
<1>1. CalendarIsRead'
  <2>1. NextScheduled(wall)' = NextScheduled(wall)
    BY DEF NextScheduled
  <2> QED BY <2>1 DEF IInv, CalendarIsRead, Visited
<1>2. GoneIsAbsent' /\ MemoryIsSight'
  BY DEF IInv, GoneIsAbsent, MemoryIsSight, Visited, Sight
<1> QED BY <1>1, <1>2 DEF IInv

\* A waiting occurrence is fired, given up or looked at in vain.
LEMMA VisitPendingKeeps ==
  ASSUME NEW r \in ScheduledRules, NEW saved \in BOOLEAN
  PROVE  IInv /\ VisitPending(r, saved) => IInv'
<1> SUFFICES ASSUME IInv, VisitPending(r, saved) PROVE IInv'
  OBVIOUS
<1>1. /\ pc = "pending" /\ pc' = pc /\ firing = NoEvent /\ r \in todo /\ todo' = todo \ {r}
      /\ StateOK /\ BookIsKept /\ r \in EventRules
      /\ UNCHANGED <<setup, counts, absentAge, known, previous, pendingAge, scanAge>>
      /\ UNCHANGED <<effective, next, observed, gone, present, wall, rewound, halts>>
      /\ UNCHANGED <<delivered, lost>>
  BY RuleFacts DEF VisitPending, IInv, clock
<1> DEFINE o == pendingFor[r]
<1>2. /\ o \in 1..Days /\ o \in Occurrences \ {NoDate}
      /\ ~lost /\ ~rewound => lastOcc[r] < o /\ o <= DateOf(wall)
  <2>1. o # NoDate /\ o \in 0..Days
    BY <1>1, EntryFacts DEF IInv, Phases
  <2>2. Book = lastOcc
    BY <1>1 DEF Book
  <2> QED BY <1>1, <2>1, <2>2, RuleFacts, Constants DEF BookIsKept
<1> HIDE DEF o
<1>3. CASE /\ Fire(r, o, saved) \/ GiveUp(r, o, saved)
           /\ pendingFor' = [pendingFor EXCEPT ![r] = NoDate]
  <2>1. /\ pendingFor'[r] = NoDate
        /\ \A x \in ScheduledRules : x # r => pendingFor'[x] = pendingFor[x]
        /\ pendingFor' \in [ScheduledRules -> NoDate..Days]
    BY <1>1, <1>3, Constants DEF StateOK, NoDate
  <2>2. BookIsKept'
    BY <1>1, <1>2, <1>3, <2>1, ConsumptionIsKept
  <2>3. MarkOccurrence(r, o, saved)
    BY <1>3 DEF Fire, GiveUp
  <2>4. /\ lastOcc' \in [EventRules -> Occurrences] /\ disk' \in [EventRules -> Occurrences]
        /\ faults' \in 0..MaxFaults /\ unsaved' \in BOOLEAN
    BY <1>1, <1>2, <2>3, CheckpointFacts
  <2>5. /\ firing' = NoEvent \/ firing' = [rule |-> r, occurrence |-> o]
        /\ dropped' \subseteq ScheduledRules \X (1..Days)
    BY <1>1, <1>2, <1>3 DEF Fire, GiveUp, StateOK
  <2>6. firing' \in [rule: EventRules, occurrence: Occurrences \ {NoDate}] \cup {NoEvent}
    BY <1>1, <1>2, <2>5
  <2>7. StateOK'
    BY <1>1, <2>1, <2>4, <2>5, <2>6 DEF StateOK
  <2>8. Phases'
    BY <1>1, <1>2, <2>1, <2>5 DEF IInv, Phases
  <2>9. EventsAreChanges'
    <3>1. Trigger[r] = "schedule"
      BY RuleFacts
    <3> QED BY <2>5, <3>1 DEF EventsAreChanges
  <2> QED BY <1>1, <2>2, <2>7, <2>8, <2>9, OthersKept
<1>4. CASE Pass(saved) /\ UNCHANGED pendingFor
  <2>1. UNCHANGED <<lastOcc, disk, faults, unsaved, firing, dropped, pendingFor>>
    BY <1>4 DEF Pass
  <2>2. StateOK' /\ Phases' /\ EventsAreChanges'
    BY <1>1, <2>1 DEF IInv, StateOK, Phases, EventsAreChanges
  <2>3. BookIsKept'
    BY <1>1, <1>4, WaitingIsKept
  <2> QED BY <1>1, <2>2, <2>3, OthersKept
<1> QED BY <1>3, <1>4 DEF VisitPending, o

\* The part of the invariant that no visit of a rule touches.
LEMMA HandedOutStays ==
  ASSUME IInv, UNCHANGED <<setup, counts, wall, effective, next, gone, absentAge>>,
         pc = "rules", pc' = pc
  PROVE  /\ GoneIsAbsent'
         /\ effective' = {r \in StateRules \cap setup'.rules : Active(r, wall', counts')}
         /\ next' = NextScheduled(wall)'
<1>1. NextScheduled(wall)' = NextScheduled(wall)
  BY DEF NextScheduled
<1> QED BY <1>1 DEF IInv, CalendarIsRead, GoneIsAbsent

\* A process rule compares what it remembers with what was seen.
LEMMA ProcessRuleKeeps ==
  ASSUME NEW r \in todo, NEW saved \in BOOLEAN, IInv,
         pc = "rules", pc' = pc, firing = NoEvent, todo' = todo \ {r},
         VisitProcessRule(r, saved),
         UNCHANGED <<setup, counts, absentAge, known, scanAge, effective, next>>,
         UNCHANGED <<observed, gone, present, wall, rewound, halts, delivered, lost>>
  PROVE  IInv'
<1>1. /\ r \in ProcessRules /\ r \in EventRules /\ r \notin ScheduledRules /\ r \in setup.rules
      /\ previous' = [previous EXCEPT ![r] = Sight(r)]
      /\ UNCHANGED <<pendingFor, pendingAge>> /\ StateOK /\ BookIsKept
  BY RuleFacts DEF VisitProcessRule, IInv, Phases, Sight
<1>2. previous' \in [ProcessRules -> Seen] /\ previous \in [ProcessRules -> Seen]
  BY <1>1 DEF StateOK, Seen, Sight
<1>3. /\ GoneIsAbsent'
      /\ effective' = {x \in StateRules \cap setup'.rules : Active(x, wall', counts')}
      /\ next' = NextScheduled(wall)'
  BY HandedOutStays
<1>4. MemoryIsSight'
  <2> SUFFICES ASSUME NEW x \in ProcessRules \cap setup'.rules
               PROVE  /\ observed'[x].now = IF known' THEN Sight(x)' ELSE "unknown"
                      /\ pc' = "tick" \/ Visited(x)' => previous'[x] = Sight(x)'
                      /\ known' /\ previous'[x] = "absent" /\ AnyRunning(x, counts') =>
                           observed'[x].before \in {"absent", "unknown"}
    BY DEF MemoryIsSight
  <2>1. /\ observed[x].now = IF known THEN Sight(x) ELSE "unknown"
        /\ Visited(x) => previous[x] = Sight(x)
        /\ known /\ previous[x] = "absent" /\ AnyRunning(x, counts) =>
             observed[x].before \in {"absent", "unknown"}
        /\ Sight(x)' = Sight(x)
    BY DEF IInv, MemoryIsSight, Sight
  <2>2. CASE x = r
    <3>1. previous'[x] = Sight(x)
      BY <1>1, <1>2, <2>2
    <3> QED BY <2>1, <3>1 DEF Sight
  <2>3. CASE x # r
    <3>1. previous'[x] = previous[x] /\ (Visited(x)' => Visited(x))
      BY <1>1, <1>2, <2>3 DEF Visited
    <3> QED BY <2>1, <3>1
  <2> QED BY <2>2, <2>3
<1>5. CASE Changed(r) /\ Fire(r, Instant, saved)
  <2>1. /\ MarkOccurrence(r, Instant, saved) /\ dropped' = dropped
        /\ firing' = [rule |-> r, occurrence |-> Instant]
    BY <1>5 DEF Fire
  <2>2. /\ lastOcc' \in [EventRules -> Occurrences] /\ disk' \in [EventRules -> Occurrences]
        /\ \A x \in EventRules : x # r => lastOcc'[x] = lastOcc[x]
        /\ faults' \in 0..MaxFaults /\ unsaved' \in BOOLEAN
    BY <1>1, <2>1, CheckpointFacts, RuleFacts
  <2>3. firing' \in [rule: EventRules, occurrence: Occurrences \ {NoDate}] \cup {NoEvent}
    BY <1>1, <2>1, RuleFacts
  <2>4. StateOK'
    BY <1>1, <1>2, <2>1, <2>2, <2>3 DEF StateOK
  <2>5. Phases'
    BY <1>1, <2>1 DEF IInv, Phases
  <2>6. BookIsKept'
    BY <1>1, <1>5, ChangeIsKept
  <2>7. CalendarIsRead'
    <3>1. ASSUME NEW x \in ScheduledRules \cap setup.rules, Visited(x)', Due(x, wall)
          PROVE  lastOcc'[x] = DateOf(wall) \/ pendingFor'[x] # NoDate
      <4>1. x # r /\ lastOcc'[x] = lastOcc[x]
        BY <1>1, <2>2, RuleFacts
      <4>2. Visited(x)
        BY <3>1, <4>1 DEF Visited
      <4> QED BY <1>1, <3>1, <4>1, <4>2 DEF IInv, CalendarIsRead
    <3> QED BY <1>3, <3>1 DEF CalendarIsRead
  <2>8. EventsAreChanges'
    <3>1. /\ known /\ previous[r] # "unset"
          /\ \/ Trigger[r] = "started" /\ AnyRunning(r, counts) /\ previous[r] = "absent"
             \/ Trigger[r] = "exited" /\ ~AnyRunning(r, counts) /\ previous[r] = "running"
      BY <1>5 DEF Changed
    <3>2. CASE Trigger[r] = "exited"
      <4>1. \A p \in Targets[r] : p \in Watched /\ p \notin counts
        BY <1>1, <3>1, <3>2, RuleFacts DEF AnyRunning
      <4>2. \A p \in Targets[r] : gone'[p] = ExitGrace
        BY <4>1 DEF IInv, GoneIsAbsent
      <4>3. ExitGrace >= ExitGrace
        BY Constants
      <4> QED BY <2>1, <3>2, <4>2, <4>3 DEF EventsAreChanges
    <3>3. CASE Trigger[r] = "started"
      <4>1. observed[r].before \in {"absent", "unknown"} /\ observed[r].now = "running"
        BY <1>1, <3>1, <3>3 DEF IInv, MemoryIsSight, Sight
      <4>2. observed[r] \in [before: Seen \cup {"unknown"}, now: Seen \cup {"unknown"}]
        BY <1>1 DEF StateOK
      <4>3. observed[r].before # "unknown" =>
              observed[r] = [before |-> "absent", now |-> "running"]
        BY <4>1, <4>2
      <4> QED BY <2>1, <3>3, <4>3 DEF EventsAreChanges
    <3> QED BY <3>1, <3>2, <3>3
  <2> QED BY <1>3, <1>4, <2>4, <2>5, <2>6, <2>7, <2>8 DEF IInv
<1>6. CASE Pass(saved)
  <2>1. UNCHANGED <<lastOcc, disk, faults, unsaved, firing, dropped, pendingFor>>
    BY <1>1, <1>6 DEF Pass
  <2>2. StateOK' /\ Phases' /\ EventsAreChanges'
    BY <1>1, <1>2, <2>1 DEF IInv, StateOK, Phases, EventsAreChanges
  <2>3. BookIsKept'
    BY <1>1, <1>6, WaitingIsKept
  <2>4. CalendarIsRead'
    <3>1. ASSUME NEW x \in ScheduledRules \cap setup.rules, Visited(x)'
          PROVE  Visited(x)
      BY <1>1, <3>1 DEF Visited
    <3> QED BY <1>3, <2>1, <3>1 DEF IInv, CalendarIsRead
  <2> QED BY <1>3, <1>4, <2>2, <2>3, <2>4 DEF IInv
<1> QED BY <1>5, <1>6 DEF VisitProcessRule

\* A scheduled rule: what is due is fired, given up or made to wait.
LEMMA ScheduledRuleKeeps ==
  ASSUME NEW r \in todo, NEW saved \in BOOLEAN, IInv,
         pc = "rules", pc' = pc, firing = NoEvent, todo' = todo \ {r},
         VisitScheduledRule(r, saved),
         UNCHANGED <<setup, counts, absentAge, known, scanAge, effective, next>>,
         UNCHANGED <<observed, gone, present, wall, rewound, halts, delivered, lost>>
  PROVE  IInv'
<1> DEFINE o == DateOf(wall)
           open == pendingFor[r] = NoDate /\ Due(r, wall) /\ lastOcc[r] # o
<1>1. /\ r \in ScheduledRules /\ r \in EventRules /\ r \notin ProcessRules /\ r \in setup.rules
      /\ previous' = previous /\ StateOK /\ BookIsKept /\ Trigger[r] = "schedule"
  BY RuleFacts DEF VisitScheduledRule, IInv, Phases
<1>2. /\ o \in 1..Days /\ o \in Occurrences \ {NoDate} /\ o # NoDate /\ o \in Nat
      /\ wall' = wall /\ DateOf(wall') = o
  BY <1>1, DateFacts, RuleFacts, Constants DEF StateOK, NoDate
<1>3. /\ GoneIsAbsent'
      /\ effective' = {x \in StateRules \cap setup'.rules : Active(x, wall', counts')}
      /\ next' = NextScheduled(wall)'
  BY HandedOutStays
<1>4. MemoryIsSight'
  <2>1. \A x \in ProcessRules : Sight(x)' = Sight(x) /\ (Visited(x)' => Visited(x))
    BY <1>1 DEF Sight, Visited
  <2> QED BY <1>1, <2>1 DEF IInv, MemoryIsSight
<1>5. /\ \/ /\ open /\ UNCHANGED <<pendingFor, pendingAge>>
            /\ Fire(r, o, saved) \/ GiveUp(r, o, saved)
         \/ /\ open /\ Pass(saved)
            /\ pendingFor' = [pendingFor EXCEPT ![r] = o]
            /\ pendingAge' = [pendingAge EXCEPT ![r] = 0]
         \/ ~open /\ Pass(saved) /\ UNCHANGED <<pendingFor, pendingAge>>
  BY DEF VisitScheduledRule
<1> HIDE DEF o
<1>6. ASSUME lastOcc'[r] = o \/ pendingFor'[r] # NoDate \/ ~Due(r, wall),
             \A x \in ScheduledRules : x # r =>
                lastOcc'[x] = lastOcc[x] /\ pendingFor'[x] = pendingFor[x]
      PROVE  CalendarIsRead'
  <2>1. ASSUME NEW x \in ScheduledRules \cap setup.rules, Visited(x)', Due(x, wall)
        PROVE  lastOcc'[x] = o \/ pendingFor'[x] # NoDate
    <3>1. CASE x = r
      BY <1>6, <2>1, <3>1
    <3>2. CASE x # r
      <4>1. Visited(x)
        BY <2>1, <3>2 DEF Visited
      <4> QED BY <1>6, <2>1, <3>2, <4>1 DEF IInv, CalendarIsRead, o
    <3> QED BY <3>1, <3>2
  <2> QED BY <1>2, <1>3, <2>1 DEF CalendarIsRead
<1>7. CASE open /\ UNCHANGED <<pendingFor, pendingAge>> /\ (Fire(r, o, saved) \/ GiveUp(r, o, saved))
  <2>1. MarkOccurrence(r, o, saved)
    BY <1>7 DEF Fire, GiveUp
  <2>2. /\ lastOcc' \in [EventRules -> Occurrences] /\ disk' \in [EventRules -> Occurrences]
        /\ lastOcc'[r] = o /\ \A x \in EventRules : x # r => lastOcc'[x] = lastOcc[x]
        /\ faults' \in 0..MaxFaults /\ unsaved' \in BOOLEAN
    BY <1>1, <1>2, <2>1, CheckpointFacts
  <2>3. /\ firing' = NoEvent \/ firing' = [rule |-> r, occurrence |-> o]
        /\ dropped' \subseteq ScheduledRules \X (1..Days)
    BY <1>1, <1>2, <1>7 DEF Fire, GiveUp, StateOK
  <2>4. firing' \in [rule: EventRules, occurrence: Occurrences \ {NoDate}] \cup {NoEvent}
    BY <1>1, <1>2, <2>3
  <2>5. StateOK'
    BY <1>1, <1>7, <2>2, <2>3, <2>4 DEF StateOK
  <2>6. Phases'
    BY <1>1, <1>2, <2>3 DEF IInv, Phases
  <2>7. BookIsKept'
    <3>1. ~lost /\ ~rewound => lastOcc[r] < o /\ o <= DateOf(wall)
      <4>1. lastOcc[r] \in Nat /\ lastOcc[r] # o /\ Book = lastOcc
        BY <1>1, <1>7, EntryFacts DEF Book
      <4>2. ~lost /\ ~rewound => lastOcc[r] <= o
        BY <1>1, <4>1 DEF BookIsKept, o
      <4> QED BY <1>2, <4>1, <4>2
    <3>2. pendingFor'[r] = NoDate /\ \A x \in ScheduledRules : x # r => pendingFor'[x] = pendingFor[x]
      BY <1>7
    <3> QED BY <1>1, <1>2, <1>7, <3>1, <3>2, ConsumptionIsKept
  <2>8. CalendarIsRead'
    <3>1. \A x \in ScheduledRules : x # r =>
             lastOcc'[x] = lastOcc[x] /\ pendingFor'[x] = pendingFor[x]
      BY <1>7, <2>2, RuleFacts
    <3> QED BY <1>6, <2>2, <3>1
  <2>9. EventsAreChanges'
    BY <1>1, <2>3 DEF EventsAreChanges
  <2> QED BY <1>3, <1>4, <2>5, <2>6, <2>7, <2>8, <2>9 DEF IInv
<1>8. ASSUME Pass(saved),
             pendingFor' \in [ScheduledRules -> NoDate..Days],
             pendingAge' \in [ScheduledRules -> 0..MaxWait],
             \A x \in ScheduledRules : x # r => pendingFor'[x] = pendingFor[x],
             \/ pendingFor'[r] = pendingFor[r] /\ ~open
             \/ pendingFor'[r] = o /\ open
      PROVE  IInv'
  <2>1. UNCHANGED <<lastOcc, disk, faults, unsaved, firing, dropped>>
    BY <1>8 DEF Pass
  <2>2. StateOK' /\ Phases' /\ EventsAreChanges'
    BY <1>1, <1>8, <2>1 DEF IInv, StateOK, Phases, EventsAreChanges
  <2>3. BookIsKept'
    <3>1. \A x \in ScheduledRules :
            \/ pendingFor'[x] = pendingFor[x]
            \/ lastOcc[x] # DateOf(wall) /\ pendingFor'[x] = DateOf(wall)
      BY <1>8 DEF o
    <3> QED BY <1>1, <1>8, <3>1, WaitingIsKept
  <2>4. CalendarIsRead'
    <3>1. lastOcc'[r] = o \/ pendingFor'[r] # NoDate \/ ~Due(r, wall)
      BY <1>2, <1>8, <2>1
    <3> QED BY <1>6, <1>8, <2>1, <3>1
  <2> QED BY <1>3, <1>4, <2>2, <2>3, <2>4 DEF IInv
<1>9. CASE /\ open /\ Pass(saved)
           /\ pendingFor' = [pendingFor EXCEPT ![r] = o]
           /\ pendingAge' = [pendingAge EXCEPT ![r] = 0]
  <2>1. pendingFor' \in [ScheduledRules -> NoDate..Days] /\ pendingFor'[r] = o
    BY <1>1, <1>2, <1>9, Constants DEF StateOK, NoDate
  <2>2. pendingAge' \in [ScheduledRules -> 0..MaxWait]
    BY <1>1, <1>9, Constants DEF StateOK
  <2>3. \A x \in ScheduledRules : x # r => pendingFor'[x] = pendingFor[x]
    BY <1>1, <1>9 DEF StateOK
  <2> QED BY <1>8, <1>9, <2>1, <2>2, <2>3
<1>10. CASE ~open /\ Pass(saved) /\ UNCHANGED <<pendingFor, pendingAge>>
  <2>1. pendingFor' \in [ScheduledRules -> NoDate..Days] /\ pendingAge' \in [ScheduledRules -> 0..MaxWait]
    BY <1>1, <1>10 DEF StateOK
  <2> QED BY <1>8, <1>10, <2>1
<1> QED BY <1>5, <1>7, <1>9, <1>10

\* The loop over the rules.
LEMMA VisitRuleKeeps == ASSUME NEW saved \in BOOLEAN PROVE IInv /\ VisitRule(saved) => IInv'
<1> SUFFICES ASSUME IInv, VisitRule(saved) PROVE IInv'
  OBVIOUS
<1>1. PICK r \in todo : /\ todo' = todo \ {r}
                        /\ VisitProcessRule(r, saved) \/ VisitScheduledRule(r, saved)
  BY DEF VisitRule
<1>2. /\ pc = "rules" /\ pc' = pc /\ firing = NoEvent
      /\ UNCHANGED <<setup, counts, absentAge, known, scanAge, effective, next>>
      /\ UNCHANGED <<observed, gone, present, wall, rewound, halts, delivered, lost>>
  BY DEF VisitRule, clock
<1>3. CASE VisitProcessRule(r, saved)
  BY <1>1, <1>2, <1>3, ProcessRuleKeeps
<1>4. CASE VisitScheduledRule(r, saved)
  BY <1>1, <1>2, <1>4, ScheduledRuleKeeps
<1> QED BY <1>1, <1>3, <1>4

\* The waiting occurrences have been visited; the rules are next.
LEMMA EndPendingKeeps == IInv /\ EndPending => IInv'
<1> SUFFICES ASSUME IInv, EndPending PROVE IInv'
  OBVIOUS
<1>1. /\ pc = "pending" /\ pc' = "rules" /\ firing = NoEvent
      /\ todo' = EventRules \cap setup.rules
      /\ UNCHANGED <<counts, absentAge, known, previous, pendingFor>>
      /\ UNCHANGED <<pendingAge, scanAge, effective, next, observed, gone>>
      /\ UNCHANGED <<setup, firing, lastOcc, disk, present, wall, rewound, halts, faults>>
      /\ UNCHANGED <<delivered, dropped, unsaved, lost>>
  BY DEF EndPending, loopState, clock
<1>2. StateOK' /\ Phases' /\ EventsAreChanges'
  BY <1>1 DEF IInv, StateOK, Phases, EventsAreChanges
<1>3. BookIsKept'
  <2>1. Book' = Book /\ HandedOnce' = HandedOnce
    BY <1>1 DEF Book, HandedOnce
  <2> QED BY <1>1, <2>1 DEF IInv, BookIsKept
<1>4. \A r \in EventRules \cap setup.rules : ~Visited(r)'
  BY <1>1 DEF Visited
<1>5. CalendarIsRead'
  <2>1. NextScheduled(wall)' = NextScheduled(wall)
    BY <1>1 DEF NextScheduled
  <2>2. \A r \in ScheduledRules \cap setup.rules : ~Visited(r)'
    BY <1>4, RuleFacts
  <2> QED BY <1>1, <2>1, <2>2 DEF IInv, CalendarIsRead
<1>6. GoneIsAbsent' /\ MemoryIsSight'
  <2>1. \A r \in ProcessRules \cap setup.rules : ~Visited(r)'
    BY <1>4, RuleFacts
  <2> QED BY <1>1, <2>1 DEF IInv, GoneIsAbsent, MemoryIsSight, Sight
<1> QED BY <1>2, <1>3, <1>5, <1>6 DEF IInv

\* The rules have been visited; the runner waits.
LEMMA EndStepKeeps == IInv /\ EndStep => IInv'
<1> SUFFICES ASSUME IInv, EndStep PROVE IInv'
  OBVIOUS
<1>1. /\ pc = "rules" /\ pc' = "wait" /\ firing = NoEvent /\ todo = {}
      /\ UNCHANGED <<counts, absentAge, known, previous, pendingFor>>
      /\ UNCHANGED <<pendingAge, scanAge, effective, next, observed, gone>>
      /\ UNCHANGED <<setup, todo, firing, lastOcc, disk, present, wall, rewound, halts>>
      /\ UNCHANGED <<faults, delivered, dropped, unsaved, lost>>
  BY DEF EndStep, loopState, clock
<1>2. StateOK' /\ Phases' /\ EventsAreChanges'
  BY <1>1 DEF IInv, StateOK, Phases, EventsAreChanges
<1>3. BookIsKept'
  <2>1. Book' = Book /\ HandedOnce' = HandedOnce
    BY <1>1 DEF Book, HandedOnce
  <2> QED BY <1>1, <2>1 DEF IInv, BookIsKept
<1>4. CalendarIsRead'
  <2>1. NextScheduled(wall)' = NextScheduled(wall)
    BY <1>1 DEF NextScheduled
  <2> QED BY <1>1, <2>1 DEF IInv, CalendarIsRead, Visited
<1>5. GoneIsAbsent' /\ MemoryIsSight'
  BY <1>1 DEF IInv, GoneIsAbsent, MemoryIsSight, Sight, Visited
<1> QED BY <1>2, <1>3, <1>4, <1>5 DEF IInv

\* The application takes the event, for the first time.
LEMMA DeliverKeeps == IInv /\ Deliver => IInv'
<1> SUFFICES ASSUME IInv, Deliver PROVE IInv'
  OBVIOUS
<1> DEFINE x == <<firing.rule, firing.occurrence>>
<1>1. /\ firing # NoEvent /\ firing' = NoEvent /\ StateOK /\ BookIsKept
      /\ delivered' = IF firing.rule \in ProcessRules THEN delivered
                      ELSE [delivered EXCEPT ![x] = Min2(@ + 1, 2)]
      /\ UNCHANGED <<counts, absentAge, known, previous, pendingFor>>
      /\ UNCHANGED <<pendingAge, scanAge, effective, next, observed, gone>>
      /\ UNCHANGED <<setup, pc, todo, lastOcc, disk, present, wall, rewound, halts>>
      /\ UNCHANGED <<faults, dropped, unsaved, lost>>
  BY DEF Deliver, loopState, clock, IInv
<1>2. /\ delivered \in [ScheduledRules \X (1..Days) -> 0..2]
      /\ firing.rule \in EventRules
      /\ firing.rule \notin ProcessRules => firing.rule \in ScheduledRules /\ x \in ScheduledRules \X (1..Days)
  BY <1>1, RuleFacts DEF IInv, StateOK, Phases
<1> HIDE DEF x
<1>3. StateOK'
  <2>1. delivered' \in [ScheduledRules \X (1..Days) -> 0..2]
    <3>1. \A n \in 0..2 : Min2(n + 1, 2) \in 0..2
      BY DEF Min2
    <3> QED BY <1>1, <1>2, <3>1
  <2> QED BY <1>1, <2>1 DEF StateOK
<1>4. Phases' /\ EventsAreChanges'
  BY <1>1 DEF IInv, Phases, EventsAreChanges
<1>5. BookIsKept'
  <2>1. Book' = Book /\ pc' = pc /\ ~(firing' # NoEvent)
    BY <1>1 DEF Book
  <2>2. CASE firing.rule \in ProcessRules
    <3>1. HandedOnce' = HandedOnce /\ delivered' = delivered
      BY <1>1, <2>2 DEF HandedOnce
    <3> QED BY <1>1, <2>1, <3>1 DEF BookIsKept
  <2>3. CASE firing.rule \notin ProcessRules /\ ~lost /\ ~rewound
    <3>1. /\ delivered[x] = 0 /\ x \notin dropped /\ x \in ScheduledRules \X (1..Days)
          /\ firing.occurrence <= Book[firing.rule]
      BY <1>1, <1>2, <2>3 DEF BookIsKept, x
    <3>2. \A y \in ScheduledRules \X (1..Days) :
             delivered'[y] = IF y = x THEN 1 ELSE delivered[y]
      <4>1. Min2(0 + 1, 2) = 1
        BY DEF Min2
      <4> QED BY <1>1, <1>2, <2>3, <3>1, <4>1
    <3>3. HandedOnce'
      <4>1. \A y \in ScheduledRules \X (1..Days) :
               delivered[y] <= IF y \in dropped THEN 0 ELSE 1
        BY <1>1, <2>3 DEF BookIsKept, HandedOnce
      <4> QED BY <1>1, <3>1, <3>2, <4>1 DEF HandedOnce
    <3>4. ASSUME NEW r \in ScheduledRules, NEW d \in 1..Days,
                 delivered'[<<r, d>>] > 0 \/ <<r, d>> \in dropped'
          PROVE  d <= Book'[r]
      <4>1. CASE <<r, d>> = x
        BY <2>1, <3>1, <4>1 DEF x
      <4>2. CASE <<r, d>> # x
        <5>1. delivered[<<r, d>>] > 0 \/ <<r, d>> \in dropped
          BY <1>1, <3>2, <3>4, <4>2
        <5> QED BY <1>1, <2>1, <2>3, <5>1 DEF BookIsKept
      <4> QED BY <4>1, <4>2
    <3> QED BY <1>1, <2>1, <3>3, <3>4 DEF BookIsKept
  <2>4. CASE lost \/ rewound
    BY <1>1, <2>4 DEF BookIsKept
  <2> QED BY <2>2, <2>3, <2>4
<1>6. CalendarIsRead'
  <2>1. NextScheduled(wall)' = NextScheduled(wall)
    BY <1>1 DEF NextScheduled
  <2> QED BY <1>1, <2>1 DEF IInv, CalendarIsRead, Visited
<1>7. GoneIsAbsent' /\ MemoryIsSight'
  BY <1>1 DEF IInv, GoneIsAbsent, MemoryIsSight, Sight, Visited
<1> QED BY <1>3, <1>4, <1>5, <1>6, <1>7 DEF IInv

\* A step that the runner takes no notice of.
LEMMA UnseenKeeps ==
  IInv /\ present' \subseteq Procs
       /\ UNCHANGED <<setup, pc, todo, firing, loopState, lastOcc, disk, clock, halts,
                      faults, delivered, dropped, unsaved, lost>>
    => IInv'
<1> SUFFICES ASSUME IInv, present' \subseteq Procs,
                    UNCHANGED <<setup, pc, todo, firing, loopState, lastOcc, disk, clock,
                                halts, faults, delivered, dropped, unsaved, lost>>
             PROVE  IInv'
  OBVIOUS
<1>1. /\ UNCHANGED <<counts, absentAge, known, previous, pendingFor>>
      /\ UNCHANGED <<pendingAge, scanAge, effective, next, observed, gone>>
      /\ UNCHANGED <<setup, pc, todo, firing, lastOcc, disk, wall, rewound, halts>>
      /\ UNCHANGED <<faults, delivered, dropped, unsaved, lost>>
  BY DEF loopState, clock
<1>2. StateOK' /\ Phases' /\ EventsAreChanges'
  BY <1>1 DEF IInv, StateOK, Phases, EventsAreChanges
<1>3. BookIsKept'
  <2>1. Book' = Book /\ HandedOnce' = HandedOnce
    BY <1>1 DEF Book, HandedOnce
  <2> QED BY <1>1, <2>1 DEF IInv, BookIsKept
<1>4. CalendarIsRead'
  <2>1. NextScheduled(wall)' = NextScheduled(wall)
    BY <1>1 DEF NextScheduled
  <2> QED BY <1>1, <2>1 DEF IInv, CalendarIsRead, Visited
<1>5. GoneIsAbsent' /\ MemoryIsSight'
  BY <1>1 DEF IInv, GoneIsAbsent, MemoryIsSight, Sight, Visited
<1> QED BY <1>2, <1>3, <1>4, <1>5 DEF IInv
-----------------------------------------------------------------------------
(* The invariant *)

\* A runner that has never run has an empty book.
THEOREM InitIInv == Init => IInv
<1> SUFFICES ASSUME Init PROVE IInv
  OBVIOUS
<1>1. LastTime \in Nat /\ Never \in Nat
  <2>1. Days * DayLength >= 1
    BY Constants
  <2> QED BY <2>1, Constants DEF LastTime, Never
<1>2. present \subseteq Procs
  <2>1. setup.rules \subseteq Rules
    BY TimesAssumption DEF Init
  <2>2. Scanned \subseteq Procs
    BY <2>1, RulesAssumption DEF Scanned
  <2> QED BY <2>2 DEF Init
<1>3. StateOK
  <2>1. /\ scanAge \in 0..ScanInterval /\ next \in 0..Never /\ wall \in 0..LastTime
        /\ halts \in 0..MaxHalts /\ faults \in 0..MaxFaults
    BY <1>1, Constants DEF Init
  <2>2. /\ absentAge \in [Procs -> -1..ExitGrace] /\ gone \in [Watched -> -1..ExitGrace]
        /\ pendingFor \in [ScheduledRules -> NoDate..Days]
        /\ pendingAge \in [ScheduledRules -> 0..MaxWait]
        /\ delivered \in [ScheduledRules \X (1..Days) -> 0..2]
    BY Constants DEF Init, NoDate
  <2>3. /\ previous \in [ProcessRules -> Seen]
        /\ observed \in [ProcessRules -> [before: Seen \cup {"unknown"},
                                          now: Seen \cup {"unknown"}]]
    BY DEF Init, Seen
  <2>4. lastOcc \in [EventRules -> Occurrences] /\ disk \in [EventRules -> Occurrences]
    BY RuleFacts DEF Init
  <2>5. {unsaved, lost, rewound} \subseteq BOOLEAN /\ known \in BOOLEAN
    BY DEF Init
  <2>6. /\ setup \in Setups /\ pc = "off" /\ todo = {} /\ firing = NoEvent /\ counts = {}
        /\ effective = {} /\ dropped = {}
    BY DEF Init
  <2> QED BY <1>2, <2>1, <2>2, <2>3, <2>4, <2>5, <2>6 DEF StateOK
<1>4. Phases /\ EventsAreChanges /\ CalendarIsRead
  BY DEF Init, Phases, EventsAreChanges, CalendarIsRead
<1>5. GoneIsAbsent /\ MemoryIsSight
  BY DEF Init, GoneIsAbsent, MemoryIsSight
<1>6. BookIsKept
  <2>1. /\ \A r \in ScheduledRules : Book[r] = 0 /\ pendingFor[r] = NoDate
        /\ \A y \in ScheduledRules \X (1..Days) : delivered[y] = 0 /\ y \notin dropped
        /\ firing = NoEvent /\ pc = "off" /\ ~unsaved
    BY RuleFacts DEF Init, Book
  <2>2. HandedOnce
    BY <2>1 DEF HandedOnce
  <2>3. DateOf(wall) \in Nat
    BY <1>3, DateFacts, Constants DEF StateOK
  <2>4. \A r \in ScheduledRules : Book[r] <= DateOf(wall)
    BY <2>1, <2>3
  <2>5. \A r \in ScheduledRules, d \in 1..Days :
           ~(delivered[<<r, d>>] > 0) /\ <<r, d>> \notin dropped
    BY <2>1
  <2> QED BY <2>1, <2>2, <2>4, <2>5 DEF BookIsKept
<1> QED BY <1>3, <1>4, <1>5, <1>6 DEF IInv

\* Every step of the runner, of the machine and of the clock keeps the invariant.
THEOREM NextIInv == IInv /\ [Next]_vars => IInv'
<1> SUFFICES ASSUME IInv, [Next]_vars PROVE IInv'
  OBVIOUS
<1>1. /\ setup.elapsed \subseteq (Nat \ {0}) \X Int /\ setup.rules \subseteq Rules
      /\ present \subseteq Procs
  BY TimesAssumption DEF IInv, StateOK
<1>2. CASE \E t \in setup.elapsed : Tick(t[1], t[2])
  <2>1. PICK t \in setup.elapsed : Tick(t[1], t[2])
    BY <1>2
  <2>2. t[1] \in Nat \ {0} /\ t[2] \in Int
    BY <1>1
  <2> QED BY <2>1, <2>2, TickKeeps
<1>3. CASE \E succeeds \in BOOLEAN : BeginStep(succeeds)
  BY <1>3, BeginStepKeeps
<1>4. CASE \E r \in ScheduledRules, saved \in BOOLEAN : VisitPending(r, saved)
  BY <1>4, VisitPendingKeeps
<1>5. CASE \E saved \in BOOLEAN : VisitRule(saved)
  BY <1>5, VisitRuleKeeps
<1>6. CASE EndPending \/ EndStep \/ Deliver
  BY <1>6, EndPendingKeeps, EndStepKeeps, DeliverKeeps
<1>7. CASE \E w \in {0} \cup {t[2] : t \in setup.elapsed}, readable \in BOOLEAN :
              Start(w, readable)
  <2>1. {0} \cup {t[2] : t \in setup.elapsed} \subseteq Int
    BY <1>1
  <2> QED BY <1>7, <2>1, StartKeeps
<1>8. CASE Halt
  BY <1>8, HaltKeeps
<1>9. CASE \E p \in Scanned : ProcessChange(p)
  <2>1. Scanned \subseteq Procs
    BY <1>1, RulesAssumption DEF Scanned
  <2>2. present' \subseteq Procs
    BY <1>1, <1>9, <2>1 DEF ProcessChange
  <2>3. UNCHANGED <<setup, pc, todo, firing, loopState, lastOcc, disk, clock, halts,
                    faults, delivered, dropped, unsaved, lost>>
    BY <1>9 DEF ProcessChange
  <2> QED BY <2>2, <2>3, UnseenKeeps
<1>10. CASE UNCHANGED vars
  <2>1. /\ UNCHANGED present
        /\ UNCHANGED <<setup, pc, todo, firing, loopState, lastOcc, disk, clock, halts,
                       faults, delivered, dropped, unsaved, lost>>
    BY <1>10 DEF vars
  <2> QED BY <1>1, <2>1, UnseenKeeps
<1> QED BY <1>2, <1>3, <1>4, <1>5, <1>6, <1>7, <1>8, <1>9, <1>10 DEF Next, Step

\* The invariant holds in every reachable state.
THEOREM Invariance == Spec => []IInv
BY InitIInv, NextIInv, PTL DEF Spec

\* The book has what was consumed last, and what waits is another occurrence;
\* this holds even when the clock goes back to an earlier date
LedgerIsKept ==
    /\ LedgerOK
    /\ ~lost =>
          /\ ~repeated
          /\ \A r \in ScheduledRules : Book[r] = consumed[r]
          /\ \A r \in ScheduledRules : pendingFor[r] # NoDate => pendingFor[r] # consumed[r]

\* Steps that consume nothing and keep the book keep the ledger.
LEMMA LedgerStays ==
  ASSUME LedgerIsKept, UNCHANGED ledger, lost' = lost, Book' = Book,
         \A r \in ScheduledRules : pendingFor'[r] # NoDate => pendingFor'[r] = pendingFor[r]
  PROVE  LedgerIsKept'
<1>1. consumed' = consumed /\ repeated' = repeated
  BY DEF ledger
<1> QED BY <1>1 DEF LedgerIsKept, LedgerOK

\* An occurrence that is not the last is consumed, or a process event.
LEMMA ConsumptionLedger ==
  ASSUME IInv, LedgerIsKept, pc # "off", pc' = pc, lost' = lost,
         NEW r \in EventRules, NEW o \in Occurrences, NEW saved \in BOOLEAN,
         MarkOccurrence(r, o, saved),
         r \in ScheduledRules => o \in 1..Days /\ pendingFor'[r] = NoDate
                                /\ (~lost => o # consumed[r]),
         \A x \in ScheduledRules : x # r => pendingFor'[x] = pendingFor[x]
  PROVE  LedgerIsKept'
<1>1. /\ lastOcc'[r] = o /\ \A x \in EventRules : x # r => lastOcc'[x] = lastOcc[x]
  BY CheckpointFacts DEF IInv
<1>2. Book = lastOcc /\ Book' = lastOcc'
  BY DEF Book
<1>3. ScheduledRules \subseteq EventRules
  BY RuleFacts
<1>4. CASE r \in ScheduledRules
  <2>1. /\ consumed' = [consumed EXCEPT ![r] = o]
        /\ repeated' = (repeated \/ consumed[r] = o)
    BY <1>4 DEF MarkOccurrence, Consume
  <2>2. /\ consumed'[r] = o /\ \A x \in ScheduledRules : x # r => consumed'[x] = consumed[x]
        /\ consumed' \in [ScheduledRules -> NoDate..Days] /\ repeated' \in BOOLEAN
    BY <1>4, <2>1, Constants DEF LedgerIsKept, LedgerOK, NoDate
  <2>3. ~lost => ~repeated'
    BY <1>4, <2>1 DEF LedgerIsKept
  <2> QED BY <1>1, <1>2, <1>3, <1>4, <2>2, <2>3 DEF LedgerIsKept, LedgerOK
<1>5. CASE r \notin ScheduledRules
  <2>1. consumed' = consumed /\ repeated' = repeated
    BY <1>5 DEF MarkOccurrence, Consume, ledger
  <2>2. \A x \in ScheduledRules : x # r
    BY <1>5
  <2> QED BY <1>1, <1>2, <1>3, <2>1, <2>2 DEF LedgerIsKept, LedgerOK
<1> QED BY <1>4, <1>5

\* What the history says of the last occurrences is so, in every step.
LEMMA LedgerNext == IInv /\ LedgerIsKept /\ [Next]_vars => LedgerIsKept'
<1> SUFFICES ASSUME IInv, LedgerIsKept, [Next]_vars PROVE LedgerIsKept'
  OBVIOUS
<1>1. StateOK /\ Phases /\ BookIsKept
  BY DEF IInv
<1>2. ASSUME UNCHANGED <<ledger, lost, lastOcc, disk, pendingFor>>,
             pc' = "off" <=> pc = "off"
      PROVE  LedgerIsKept'
  BY <1>2, LedgerStays DEF Book
<1>3. CASE \E t \in setup.elapsed : Tick(t[1], t[2])
  BY <1>2, <1>3 DEF Tick
<1>4. CASE \E succeeds \in BOOLEAN : BeginStep(succeeds)
  BY <1>2, <1>4 DEF BeginStep
<1>5. ASSUME NEW r \in ScheduledRules, NEW saved \in BOOLEAN, VisitPending(r, saved)
      PROVE  LedgerIsKept'
  <2>1. /\ pc = "pending" /\ pc' = pc /\ lost' = lost
        /\ pendingFor[r] # NoDate /\ r \in EventRules
    BY <1>1, <1>5, RuleFacts DEF VisitPending, Phases
  <2>2. pendingFor[r] \in 1..Days /\ pendingFor[r] \in Occurrences
    BY <1>1, <2>1, EntryFacts, Constants DEF NoDate, Occurrences, Instant
  <2>3. CASE Pass(saved) /\ UNCHANGED pendingFor
    BY <1>2, <1>5, <2>1, <2>3 DEF Pass
  <2>4. CASE MarkOccurrence(r, pendingFor[r], saved) /\ pendingFor' = [pendingFor EXCEPT ![r] = NoDate]
    <3>1. /\ pendingFor'[r] = NoDate
          /\ \A x \in ScheduledRules : x # r => pendingFor'[x] = pendingFor[x]
      BY <1>1, <2>4 DEF StateOK
    <3>2. ~lost => pendingFor[r] # consumed[r]
      BY <2>1 DEF LedgerIsKept
    <3> QED BY <2>1, <2>2, <2>4, <3>1, <3>2, ConsumptionLedger
  <2> QED BY <1>5, <2>3, <2>4 DEF VisitPending, Fire, GiveUp
<1>6. ASSUME NEW saved \in BOOLEAN, VisitRule(saved) PROVE LedgerIsKept'
  <2> DEFINE r == CHOOSE x \in todo : TRUE
  <2>1. /\ pc = "rules" /\ pc' = pc /\ lost' = lost /\ r \in EventRules
        /\ VisitProcessRule(r, saved) \/ VisitScheduledRule(r, saved)
    BY <1>1, <1>6 DEF VisitRule, StateOK
  <2> HIDE DEF r
  <2>2. CASE Pass(saved) /\ UNCHANGED pendingFor
    BY <1>2, <2>1, <2>2 DEF Pass
  <2>3. CASE VisitProcessRule(r, saved)
    <3>1. r \notin ScheduledRules /\ pendingFor' = pendingFor /\ Instant \in Occurrences
      BY <2>3, RuleFacts, Constants DEF VisitProcessRule, ProcessRules, Instant, Occurrences, NoDate
    <3>2. Pass(saved) \/ MarkOccurrence(r, Instant, saved)
      BY <2>3 DEF VisitProcessRule, Fire
    <3>3. CASE MarkOccurrence(r, Instant, saved)
      BY <2>1, <3>1, <3>3, ConsumptionLedger
    <3> QED BY <2>2, <3>1, <3>2, <3>3
  <2>4. CASE VisitScheduledRule(r, saved)
    <3> DEFINE o == DateOf(wall)
    <3>1. r \in ScheduledRules /\ o \in 1..Days /\ o \in Occurrences /\ Book = lastOcc
      BY <1>1, <2>1, <2>4, DateFacts, Constants
         DEF VisitScheduledRule, StateOK, Occurrences, Instant, NoDate, Book
    <3>2. ~lost /\ lastOcc[r] # o => o # consumed[r]
      BY <3>1 DEF LedgerIsKept
    <3>3. CASE /\ MarkOccurrence(r, o, saved) /\ UNCHANGED pendingFor
               /\ pendingFor[r] = NoDate /\ lastOcc[r] # o
      BY <2>1, <3>1, <3>2, <3>3, ConsumptionLedger
    <3>4. CASE /\ Pass(saved) /\ pendingFor' = [pendingFor EXCEPT ![r] = o] /\ lastOcc[r] # o
      <4>1. /\ consumed' = consumed /\ repeated' = repeated /\ Book' = Book
        BY <2>1, <3>4 DEF Pass, ledger, Book
      <4>2. /\ pendingFor'[r] = o
            /\ \A x \in ScheduledRules : x # r => pendingFor'[x] = pendingFor[x]
        BY <1>1, <3>1, <3>4 DEF StateOK
      <4> QED BY <2>1, <3>1, <3>2, <3>4, <4>1, <4>2 DEF LedgerIsKept, LedgerOK
    <3>5. \/ /\ MarkOccurrence(r, o, saved) /\ UNCHANGED pendingFor
             /\ pendingFor[r] = NoDate /\ lastOcc[r] # o
          \/ Pass(saved) /\ pendingFor' = [pendingFor EXCEPT ![r] = o] /\ lastOcc[r] # o
          \/ Pass(saved) /\ UNCHANGED pendingFor
      BY <2>4 DEF VisitScheduledRule, Fire, GiveUp
    <3> QED BY <2>2, <3>3, <3>4, <3>5
  <2> QED BY <2>1, <2>3, <2>4
<1>7. CASE EndPending \/ EndStep \/ Deliver
  BY <1>2, <1>7, <1>1 DEF EndPending, EndStep, Deliver, loopState, Phases
<1>8. ASSUME NEW w, NEW readable \in BOOLEAN, Start(w, readable) PROVE LedgerIsKept'
  <2>1. consumed' = consumed /\ repeated' = repeated /\ pendingFor' = pendingFor
    BY <1>8 DEF Start, ledger, loopState
  <2>2. CASE readable
    <3>1. Book' = Book /\ lost' = lost
      BY <1>8, <2>2 DEF Start, Book
    <3> QED BY <2>1, <3>1 DEF LedgerIsKept, LedgerOK
  <2>3. CASE ~readable
    BY <1>8, <2>1, <2>3 DEF Start, LedgerIsKept, LedgerOK
  <2> QED BY <2>2, <2>3
<1>9. CASE Halt
  <2>1. /\ consumed' = consumed /\ repeated' = repeated /\ pc # "off"
        /\ pendingFor' = [r \in ScheduledRules |-> NoDate]
        /\ lost' = (lost \/ unsaved) /\ pc' = "off" /\ disk' = disk
    BY <1>9 DEF Halt, ledger
  <2>2. ~lost' => ~lost /\ ~unsaved /\ disk = lastOcc
    BY <1>1, <2>1 DEF BookIsKept
  <2>3. ~lost' => Book' = Book
    BY <2>1, <2>2 DEF Book
  <2> QED BY <2>1, <2>2, <2>3 DEF LedgerIsKept, LedgerOK
<1>10. CASE \E p \in Scanned : ProcessChange(p)
  BY <1>2, <1>10 DEF ProcessChange, loopState
<1>11. CASE UNCHANGED vars
  BY <1>2, <1>11 DEF vars, loopState
<1> QED BY <1>3, <1>4, <1>5, <1>6, <1>7, <1>8, <1>9, <1>10, <1>11 DEF Next, Step

\* What the history says of the last occurrences holds in every reachable state.
THEOREM LedgerInvariance == Spec => []LedgerIsKept
<1>1. Init => LedgerIsKept
  <2> SUFFICES ASSUME Init PROVE LedgerIsKept
    OBVIOUS
  <2>1. /\ consumed = [r \in ScheduledRules |-> NoDate] /\ repeated = FALSE
        /\ pendingFor = [r \in ScheduledRules |-> NoDate]
        /\ disk = [r \in EventRules |-> NoDate] /\ pc = "off"
    BY DEF Init
  <2>2. ScheduledRules \subseteq EventRules /\ NoDate \in NoDate..Days
    BY RuleFacts, Constants DEF NoDate
  <2>3. LedgerOK
    BY <2>1, <2>2 DEF LedgerOK
  <2>4. \A r \in ScheduledRules : Book[r] = consumed[r] /\ pendingFor[r] = NoDate
    BY <2>1, <2>2 DEF Book
  <2> QED BY <2>1, <2>3, <2>4 DEF LedgerIsKept
<1> QED BY <1>1, LedgerNext, Invariance, PTL DEF Spec

\* A scheduled occurrence is handed to the application at most once, and not at
\* all when it was given up (runner.go, markOccurrence before fire), while the
\* clock does not go back to an earlier date; none is ever consumed twice in a
\* row.
THEOREM OccurrencesAreHandedOnce == Spec => []AtMostOnce
<1>1. IInv /\ LedgerIsKept => AtMostOnce
  BY DEF IInv, BookIsKept, LedgerIsKept, AtMostOnce
<1> QED BY <1>1, Invariance, LedgerInvariance, PTL

\* A process event is a change that scans have seen (runner.go, stabilizeCounts).
THEOREM ProcessEventsAreChanges == Spec => []EventsAreChanges
<1>1. IInv => EventsAreChanges
  BY DEF IInv
<1> QED BY <1>1, Invariance, PTL
-----------------------------------------------------------------------------
(* The calendar *)

\* Until the time that was announced, nothing comes due that is not due already.
LEMMA AnnouncedIsFirst == IInv => NextIsFirst
<1> SUFFICES ASSUME IInv, pc = "wait", NEW r \in ScheduledRules \cap setup.rules,
                    NEW t \in 0..LastTime, wall <= t, t < next, Due(r, t)
             PROVE  lastOcc[r] = DateOf(t) \/ pendingFor[r] # NoDate
  BY DEF NextIsFirst
<1> DEFINE d == DateOf(t)
           c == (d - 1) * DayLength + At[r]
<1>1. /\ wall \in 0..LastTime /\ wall \in Nat /\ setup.rules \subseteq Rules /\ r \in Rules
      /\ next = NextScheduled(wall)
  BY TimesAssumption DEF IInv, StateOK, CalendarIsRead, ScheduledRules, EventRules
<1>2. /\ d \in 1..Days /\ DayLength \in Nat \ {0} /\ At[r] \in 0..(DayLength - 1)
      /\ Days \in Nat /\ DueGrace \in Nat
  BY <1>1, DateFacts, Constants
<1>3. d \in Dates[r] /\ c <= t /\ t < c + DueGrace /\ Trigger[r] = "schedule"
  BY DEF Due
<1>4. c \in Nat /\ (d - 1) * DayLength <= c
  BY <1>2
<1>5. c <= wall
  <2>1. c \in {(x[2] - 1) * DayLength + At[x[1]] :
                  x \in {x \in (ScheduledRules \cap setup.rules) \X (1..Days) :
                            x[2] \in Dates[x[1]]}}
    <3>1. <<r, d>> \in {x \in (ScheduledRules \cap setup.rules) \X (1..Days) :
                            x[2] \in Dates[x[1]]}
      BY <1>2, <1>3
    <3> QED BY <3>1
  <2>2. /\ NextScheduled(wall) \in 0..Never /\ Never \in Nat
        /\ c > wall => NextScheduled(wall) <= c
    <3>1. Never \in Nat
      <4>1. Days * DayLength \in Nat
        BY <1>2
      <4> QED BY <4>1 DEF Never, LastTime
    <3> QED BY <1>1, <2>1, <3>1, NextFacts
  <2> HIDE DEF c
  <2> QED BY <1>1, <1>3, <1>4, <2>2
<1>6. DateOf(wall) = d
  <2>1. (d - 1) * DayLength <= wall
    <3>1. (d - 1) * DayLength \in Int
      BY <1>2
    <3> HIDE DEF c
    <3> QED BY <1>1, <1>4, <1>5, <3>1
  <2>2. d \in Int
    BY <1>2
  <2> QED BY <1>1, <2>1, <2>2, SameDate
<1>7. Due(r, wall)
  <2>1. wall < c + DueGrace
    <3> HIDE DEF c
    <3> QED BY <1>1, <1>2, <1>3, <1>4
  <2> QED BY <1>3, <1>5, <1>6, <2>1 DEF Due
<1> QED BY <1>6, <1>7 DEF IInv, CalendarIsRead, Visited

\* The dates and times of day a window is open at are one stretch of time for
\* each of its dates.
LEMMA WindowIsStretch ==
  ASSUME NEW r \in Rules, At[r] # Until[r], NEW t \in 0..LastTime
  PROVE  Within(r, t) <=>
           \E d \in Dates[r] :
              LET start == (d - 1) * DayLength + At[r]
                  length == (Until[r] - At[r]) % DayLength
              IN  t \in start..(start + length - 1)
<1> DEFINE a == At[r]
           u == Until[r]
           D == DateOf(t)
           m == t % DayLength
           Start1(d) == (d - 1) * DayLength
           Open(d) == t \in (Start1(d) + a)..(Start1(d) + a + ((u - a) % DayLength) - 1)
<1>1. /\ a \in 0..(DayLength - 1) /\ u \in 0..(DayLength - 1) /\ a # u
      /\ DayLength \in Nat \ {0} /\ Dates[r] \subseteq Int /\ Days \in Nat
  BY Constants, RulesAssumption
<1>2. D \in 1..Days /\ m \in 0..(DayLength - 1) /\ t = Start1(D) + m /\ D \in Int
  BY DateFacts, Constants
<1>3. ASSUME NEW d \in Int, NEW k \in 0..(DayLength - 1), t = Start1(d) + k
      PROVE  D = d /\ m = k
  BY <1>3, DateOfTime
<1>4. \A d \in Int : Start1(d) \in Int /\ Start1(d + 1) = Start1(d) + DayLength
  BY <1>1
<1>5. Within(r, t) <=> \/ a < u /\ m \in a..(u - 1) /\ D \in Dates[r]
                       \/ a > u /\ m >= a /\ D \in Dates[r]
                       \/ a > u /\ m < u /\ D - 1 \in Dates[r]
  BY <1>1 DEF Within
<1> SUFFICES Within(r, t) <=> \E d \in Dates[r] : Open(d)
  OBVIOUS
<1> HIDE DEF a, u, D, m, Start1
<1>6. CASE a < u
  <2>1. (u - a) % DayLength = u - a
    BY <1>1, <1>6
  <2>2. \A d \in Int : Open(d) <=> Start1(d) + a <= t /\ t <= Start1(d) + u - 1
    BY <1>1, <1>4, <2>1
  <2>3. ASSUME NEW d \in Dates[r], Open(d) PROVE D = d /\ m \in a..(u - 1)
    <3> DEFINE k == t - Start1(d)
    <3>1. /\ d \in Int /\ k \in 0..(DayLength - 1) /\ k \in a..(u - 1) /\ t = Start1(d) + k
      BY <1>1, <1>4, <2>2, <2>3
    <3> HIDE DEF k
    <3> QED BY <1>3, <3>1
  <2>4. m \in a..(u - 1) => Open(D)
    BY <1>1, <1>2, <1>4, <2>2
  <2> HIDE DEF Open
  <2> QED BY <1>1, <1>5, <1>6, <2>3, <2>4
<1>7. CASE a > u
  <2>1. (u - a) % DayLength = u - a + DayLength
    BY <1>1, <1>7
  <2>2. \A d \in Int : Open(d) <=> Start1(d) + a <= t /\ t <= Start1(d) + DayLength + u - 1
    BY <1>1, <1>4, <2>1
  <2>3. ASSUME NEW d \in Dates[r], Open(d)
        PROVE  (D = d /\ m >= a) \/ (D - 1 = d /\ m < u)
    <3> DEFINE k == t - Start1(d)
               l == t - Start1(d + 1)
    <3>1. /\ d \in Int /\ d + 1 \in Int /\ k \in Int /\ l \in Int /\ k = l + DayLength
          /\ a <= k /\ l < u /\ t = Start1(d) + k /\ t = Start1(d + 1) + l
      BY <1>1, <1>4, <2>2, <2>3
    <3> HIDE DEF k, l
    <3>2. CASE k < DayLength
      <4>1. k \in 0..(DayLength - 1)
        BY <1>1, <3>1, <3>2
      <4>2. D = d /\ m = k
        BY <1>3, <3>1, <4>1
      <4> QED BY <3>1, <4>2
    <3>3. CASE k >= DayLength
      <4>1. l \in 0..(DayLength - 1)
        BY <1>1, <3>1, <3>3
      <4>2. D = d + 1 /\ m = l
        BY <1>3, <3>1, <4>1
      <4> QED BY <3>1, <4>2
    <3> QED BY <1>1, <3>1, <3>2, <3>3
  <2>4. m >= a => Open(D)
    BY <1>1, <1>2, <1>4, <2>2
  <2>5. m < u => Open(D - 1)
    <3>1. D - 1 \in Int /\ Start1(D) = Start1(D - 1) + DayLength
      BY <1>2, <1>4
    <3>2. Start1(D) \in Int /\ Start1(D - 1) \in Int
      BY <1>2, <1>4, <3>1
    <3> QED BY <1>1, <1>2, <1>7, <2>2, <3>1, <3>2
  <2> HIDE DEF Open
  <2> QED BY <1>1, <1>5, <1>7, <2>3, <2>4, <2>5
<1> QED BY <1>1, <1>6, <1>7

\* What the calendar announces is the next occurrence, and a window is in force
\* from its start to its end (automation/schedule.go, runner.go).
THEOREM CalendarIsKept == Spec => []CalendarIsSound
<1>1. IInv /\ LedgerIsKept => CalendarIsSound
  <2> SUFFICES ASSUME IInv, LedgerIsKept PROVE CalendarIsSound
    OBVIOUS
  <2>1. WindowIsWhole
    <3> SUFFICES ASSUME pc = "wait", NEW r \in setup.rules,
                        Trigger[r] = "window", At[r] # Until[r]
                 PROVE  r \in effective <=>
                          /\ Condition(r, counts)
                          /\ \E d \in Dates[r] :
                                LET start == (d - 1) * DayLength + At[r]
                                    length == (Until[r] - At[r]) % DayLength
                                IN  wall \in start..(start + length - 1)
      BY DEF WindowIsWhole
    <3>1. wall \in 0..LastTime /\ r \in Rules /\ r \in StateRules
      BY TimesAssumption DEF IInv, StateOK, StateRules, EventRules
    <3>2. r \in effective <=> Within(r, wall) /\ Condition(r, counts)
      BY <3>1 DEF IInv, CalendarIsRead, Active
    <3> QED BY <3>1, <3>2, WindowIsStretch
  <2> QED BY <2>1, AnnouncedIsFirst DEF CalendarIsSound, IInv, TypeOK, LedgerIsKept
<1> QED BY <1>1, Invariance, LedgerInvariance, PTL
=============================================================================
