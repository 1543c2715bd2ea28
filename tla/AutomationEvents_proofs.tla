----------------------- MODULE AutomationEvents_proofs -----------------------
(***************************************************************************)
(* Safety of the automation events and their warnings, for any number of   *)
(* events, restarts and failures: the queue, the countdowns and the window *)
(* agree on the outstanding warning, and what was decided of an event      *)
(* stays decided.                                                          *)
(***************************************************************************)
EXTENDS AutomationEvents, TLAPS

\* Fates of an event that has not been shown
Early == {"none", "posted", "queued"}

Types ==
    /\ StateOK /\ generation >= 1
    /\ DOMAIN countdown = Events /\ countdown = [e \in Events |-> countdown[e]]

Asks(i)    == requests[i].kind = "event"
Answers(i) == requests[i].kind \in {"cancel", "execute"}
Shows(i)   == tasks[i].kind = "show"
Hides(i)   == tasks[i].kind = "hide"

\* An event is on its way to the queue once
PostedOnce ==
    /\ \A i \in DOMAIN requests : Asks(i) => fate[requests[i].event] = "posted"
    /\ \A i, j \in DOMAIN requests :
          Asks(i) /\ Asks(j) /\ requests[i].event = requests[j].event => i = j

\* An event is in the queue once, behind a warning
QueuedOnce ==
    /\ \A i \in DOMAIN queue : fate[queue[i]] = "queued"
    /\ \A i, j \in DOMAIN queue : queue[i] = queue[j] => i = j
    /\ QueueWaitsForOne

\* A warning is shown, on the screen or answered for an event that has left the
\* queue, and in the live generation for the one that is outstanding
Sound(w) ==
    /\ w.generation <= generation /\ fate[w.event] \notin Early
    /\ w.generation = generation => open /\ fate[w.event] = "warned"

WarningsSound ==
    /\ \A i \in DOMAIN tasks : Shows(i) => Sound(tasks[i])
    /\ window # None => Sound(window)
    /\ \A i \in DOMAIN requests : Answers(i) => Sound(requests[i])

\* The live generation's warning is in one place
LiveShow(i)   == Shows(i) /\ tasks[i].generation = generation
LiveWindow    == window # None /\ window.generation = generation
LiveAnswer(i) == Answers(i) /\ requests[i].generation = generation

OnePlace ==
    /\ \A i, j \in DOMAIN tasks : LiveShow(i) /\ LiveShow(j) => i = j
    /\ \A i, j \in DOMAIN requests : LiveAnswer(i) /\ LiveAnswer(j) => i = j
    /\ \A i \in DOMAIN tasks, j \in DOMAIN requests : ~(LiveShow(i) /\ LiveAnswer(j))
    /\ \A i \in DOMAIN tasks : ~(LiveShow(i) /\ LiveWindow)
    /\ \A j \in DOMAIN requests : ~(LiveAnswer(j) /\ LiveWindow)

\* A countdown begins with its window and has ended when it answers
CountdownsSound ==
    /\ \A e \in Events : fate[e] \in Early => countdown[e] = -1 /\ answer[e] = "none"
    /\ \A i \in DOMAIN tasks : tasks[i].kind = "complete" => countdown[tasks[i].event] = 0
    /\ OwnCountdown

\* A window of an earlier generation is about to be closed
HideComes ==
    ~exiting =>
      /\ \A i \in DOMAIN tasks : Shows(i) /\ tasks[i].generation # generation =>
            \E j \in DOMAIN tasks : j > i /\ Hides(j)
      /\ window # None /\ window.generation # generation =>
            \E j \in DOMAIN tasks : Hides(j)

IInv ==
    /\ Types /\ PostedOnce /\ QueuedOnce /\ WarningsSound /\ OnePlace
    /\ CountdownsSound /\ HideComes
-----------------------------------------------------------------------------
(* Sequences and records *)

\* A longer sequence has the old elements and the new one at its end.
LEMMA AppendFacts ==
  ASSUME NEW S, NEW s \in Seq(S), NEW x \in S
  PROVE  /\ Append(s, x) \in Seq(S) /\ Len(s) \in Nat /\ DOMAIN s = 1..Len(s)
         /\ DOMAIN Append(s, x) = 1..(Len(s) + 1)
         /\ \A i \in DOMAIN s : Append(s, x)[i] = s[i] /\ i \in DOMAIN Append(s, x)
         /\ Append(s, x)[Len(s) + 1] = x
         /\ \A i \in DOMAIN Append(s, x) : i \in DOMAIN s \/ i = Len(s) + 1
OBVIOUS

\* The rest of a sequence has its elements but the first, one place earlier.
LEMMA TailFacts ==
  ASSUME NEW S, NEW s \in Seq(S), s # <<>>
  PROVE  /\ 1 \in DOMAIN s /\ Head(s) = s[1] /\ Head(s) \in S
         /\ Tail(s) \in Seq(S) /\ DOMAIN s \subseteq Nat \ {0}
         /\ \A i \in DOMAIN Tail(s) :
               /\ i \in Nat /\ i + 1 \in DOMAIN s /\ i + 1 # 1 /\ Tail(s)[i] = s[i + 1]
         /\ \A i \in DOMAIN s : i # 1 => i - 1 \in DOMAIN Tail(s) /\ Tail(s)[i - 1] = s[i]
OBVIOUS

\* What is posted to the two threads.
LEMMA MessageFacts ==
  /\ \A c \in Closures : c.kind \in {"event", "cancel", "execute"} =>
        c.event \in Events /\ c.generation \in Nat
  /\ \A c \in Closures : c.kind \in {"event", "cancel", "execute", "restart", "language", "shutdown"}
  /\ \A c \in Closures : c.kind = "restart" => c.enable \in BOOLEAN
  /\ \A k \in {"event", "cancel", "execute"}, e \in Events, g \in Nat :
        [kind |-> k, event |-> e, generation |-> g] \in Closures
  /\ \A b \in BOOLEAN : [kind |-> "restart", enable |-> b] \in Closures
  /\ [kind |-> "language"] \in Closures /\ [kind |-> "shutdown"] \in Closures
  /\ \A t \in Tasks : t.kind = "show" => t.event \in Events /\ t.generation \in Nat
  /\ \A t \in Tasks : t.kind = "complete" => t.event \in Events
  /\ \A t \in Tasks : t.kind \in {"show", "complete", "hide"}
  /\ \A e \in Events, g \in Nat : [kind |-> "show", event |-> e, generation |-> g] \in Tasks
  /\ \A e \in Events : [kind |-> "complete", event |-> e] \in Tasks
  /\ [kind |-> "hide"] \in Tasks
BY DEF Closures, Tasks

\* A countdown takes a second at least.
LEMMA LengthFacts == ASSUME NEW e \in Events PROVE Length(e) \in Nat \ {0}
BY EventsAssumption DEF Length

\* The messages in the queues and the window are of the types the threads expect.
LEMMA PlaceFacts ==
  ASSUME Types
  PROVE  /\ \A i \in DOMAIN requests : Asks(i) \/ Answers(i) =>
               requests[i].event \in Events /\ requests[i].generation \in Nat
         /\ \A i \in DOMAIN tasks : Shows(i) =>
               tasks[i].event \in Events /\ tasks[i].generation \in Nat
         /\ \A i \in DOMAIN tasks : tasks[i].kind = "complete" => tasks[i].event \in Events
         /\ window # None => window.event \in Events /\ window.generation \in Nat
         /\ generation \in Nat
         /\ \A i \in DOMAIN queue : queue[i] \in Events
<1>1. requests \in Seq(Closures) /\ tasks \in Seq(Tasks) /\ queue \in Seq(Events)
  BY DEF Types, StateOK
<1>2. /\ \A i \in DOMAIN requests : requests[i] \in Closures
      /\ \A i \in DOMAIN tasks : tasks[i] \in Tasks
      /\ \A i \in DOMAIN queue : queue[i] \in Events
  BY <1>1
<1>3. window # None => window.event \in Events /\ window.generation \in Nat
  BY DEF Types, StateOK
<1> QED BY <1>2, <1>3, MessageFacts DEF Asks, Answers, Shows, Types, StateOK
-----------------------------------------------------------------------------
(* The request loop *)

\* The closures that are left when the first is taken.
LEMMA TakeFacts ==
  ASSUME Types, requests # <<>>, requests' = Tail(requests)
  PROVE  /\ Head(requests) = requests[1] /\ Head(requests) \in Closures
         /\ 1 \in DOMAIN requests /\ requests' \in Seq(Closures)
         /\ \A i \in DOMAIN requests' :
               /\ i \in Nat /\ i + 1 \in DOMAIN requests /\ i + 1 # 1
               /\ requests'[i] = requests[i + 1]
               /\ Asks(i)' = Asks(i + 1) /\ Answers(i)' = Answers(i + 1)
<1>1. requests \in Seq(Closures)
  BY DEF Types, StateOK
<1>2. /\ Head(requests) = requests[1] /\ Head(requests) \in Closures
      /\ 1 \in DOMAIN requests /\ requests' \in Seq(Closures)
      /\ \A i \in DOMAIN requests' :
            /\ i \in Nat /\ i + 1 \in DOMAIN requests /\ i + 1 # 1
            /\ requests'[i] = requests[i + 1]
  BY <1>1, TailFacts
<1> QED BY <1>2 DEF Asks, Answers

\* A closure that is passed over, or that only has the window closed.
LEMMA IgnoringKeeps ==
  ASSUME IInv, requests # <<>>, requests' = Tail(requests), enabled' \subseteq Once,
         tasks' = tasks \/ tasks' = Append(tasks, [kind |-> "hide"]),
         UNCHANGED <<generation, runner, queue, open, window, countdown, exiting>>,
         UNCHANGED <<interrupts, faults, fate, answer, lost>>
  PROVE  IInv'
<1>1. /\ requests' \in Seq(Closures)
      /\ \A i \in DOMAIN requests' :
            /\ i \in Nat /\ i + 1 \in DOMAIN requests /\ i + 1 # 1
            /\ requests'[i] = requests[i + 1]
            /\ Asks(i)' = Asks(i + 1) /\ Answers(i)' = Answers(i + 1)
  BY TakeFacts DEF IInv
<1>2. tasks \in Seq(Tasks) /\ [kind |-> "hide"] \in Tasks
  BY MessageFacts DEF IInv, Types, StateOK
<1>3. /\ tasks' \in Seq(Tasks)
      /\ \A i \in DOMAIN tasks : i \in DOMAIN tasks' /\ tasks'[i] = tasks[i]
      /\ \A i \in DOMAIN tasks' : ~Hides(i)' => i \in DOMAIN tasks /\ tasks'[i] = tasks[i]
  <2>1. CASE tasks' = tasks
    BY <1>2, <2>1
  <2>2. CASE tasks' = Append(tasks, [kind |-> "hide"])
    BY <1>2, <2>2, AppendFacts DEF Hides
  <2> QED BY <2>1, <2>2
<1>4. \A i \in DOMAIN tasks' : Shows(i)' \/ tasks'[i].kind = "complete" =>
         i \in DOMAIN tasks /\ tasks'[i] = tasks[i] /\ Shows(i)' = Shows(i)
  BY <1>3 DEF Shows, Hides
<1>5. Types'
  BY <1>1, <1>3 DEF IInv, Types, StateOK
<1>6. PostedOnce'
  BY <1>1 DEF IInv, PostedOnce
<1>7. QueuedOnce'
  BY DEF IInv, QueuedOnce, QueueWaitsForOne
<1>8. WarningsSound'
  BY <1>1, <1>4 DEF IInv, WarningsSound, Sound
<1>9. OnePlace'
  BY <1>1, <1>4 DEF IInv, OnePlace, LiveShow, LiveWindow, LiveAnswer
<1>10. CountdownsSound'
  BY <1>4 DEF IInv, CountdownsSound, OwnCountdown
<1>11. HideComes'
  BY <1>3, <1>4 DEF IInv, HideComes, Hides
<1> QED BY <1>5, <1>6, <1>7, <1>8, <1>9, <1>10, <1>11 DEF IInv

\* Nothing is left of a warning in the live generation, which may be a new one,
\* and nothing waits.
LEMMA QuietKeeps ==
  ASSUME IInv, requests # <<>>, requests' = Tail(requests), queue' = <<>>,
         generation' \in Nat, generation' >= generation,
         tasks' = tasks \/ tasks' = Append(tasks, [kind |-> "hide"]),
         \A i \in DOMAIN tasks : Shows(i) => tasks[i].generation # generation',
         window # None => window.generation # generation',
         \A i \in DOMAIN requests : i # 1 /\ Answers(i) => requests[i].generation # generation',
         \A e \in Events : fate'[e] = fate[e] \/ fate'[e] \notin Early,
         \A e \in Events : fate[e] = "posted" =>
            fate'[e] = "posted" \/ (Asks(1) /\ requests[1].event = e),
         UNCHANGED <<window, countdown, exiting, answer>>
  PROVE  /\ PostedOnce' /\ QueuedOnce' /\ WarningsSound' /\ OnePlace' /\ CountdownsSound'
<1>1. /\ \A i \in DOMAIN requests' :
            /\ i \in Nat /\ i + 1 \in DOMAIN requests /\ i + 1 # 1
            /\ requests'[i] = requests[i + 1]
            /\ Asks(i)' = Asks(i + 1) /\ Answers(i)' = Answers(i + 1)
      /\ 1 \in DOMAIN requests
  BY TakeFacts DEF IInv
<1>2. tasks \in Seq(Tasks) /\ [kind |-> "hide"] \in Tasks
  BY MessageFacts DEF IInv, Types, StateOK
<1>3. \A i \in DOMAIN tasks' : ~Hides(i)' => i \in DOMAIN tasks /\ tasks'[i] = tasks[i]
  <2>1. CASE tasks' = tasks
    BY <2>1
  <2>2. CASE tasks' = Append(tasks, [kind |-> "hide"])
    BY <1>2, <2>2, AppendFacts DEF Hides
  <2> QED BY <2>1, <2>2
<1>4. \A i \in DOMAIN tasks' : Shows(i)' \/ tasks'[i].kind = "complete" =>
         i \in DOMAIN tasks /\ tasks'[i] = tasks[i] /\ Shows(i)' = Shows(i)
  BY <1>3 DEF Shows, Hides
<1>5. /\ \A i \in DOMAIN requests : Asks(i) \/ Answers(i) =>
            requests[i].event \in Events /\ requests[i].generation \in Nat
      /\ \A i \in DOMAIN tasks : Shows(i) =>
            tasks[i].event \in Events /\ tasks[i].generation \in Nat
      /\ window # None => window.event \in Events /\ window.generation \in Nat
      /\ generation \in Nat
  BY PlaceFacts DEF IInv
<1>6. \A e \in Events : fate[e] \notin Early => fate'[e] \notin Early
  OBVIOUS
<1>7. PostedOnce'
  <2>1. ASSUME NEW i \in DOMAIN requests', Asks(i)'
        PROVE  fate'[requests'[i].event] = "posted"
    <3>1. /\ i + 1 \in DOMAIN requests /\ i + 1 # 1 /\ Asks(i + 1)
          /\ requests'[i] = requests[i + 1] /\ requests[i + 1].event \in Events
      BY <1>1, <1>5, <2>1
    <3>2. fate[requests[i + 1].event] = "posted"
      BY <3>1 DEF IInv, PostedOnce
    <3>3. ~(Asks(1) /\ requests[1].event = requests[i + 1].event)
      BY <1>1, <3>1 DEF IInv, PostedOnce
    <3> QED BY <3>1, <3>2, <3>3
  <2>2. ASSUME NEW i \in DOMAIN requests', NEW j \in DOMAIN requests', Asks(i)', Asks(j)',
               requests'[i].event = requests'[j].event
        PROVE  i = j
    BY <1>1, <2>2 DEF IInv, PostedOnce
  <2> QED BY <2>1, <2>2 DEF PostedOnce
<1>8. QueuedOnce'
  BY DEF QueuedOnce, QueueWaitsForOne
<1>9. ASSUME NEW w, w.event \in Events, w.generation \in Nat, Sound(w), w.generation # generation'
      PROVE  w.generation <= generation' /\ fate'[w.event] \notin Early
  BY <1>5, <1>6, <1>9 DEF Sound
<1>10. WarningsSound'
  <2>1. ASSUME NEW i \in DOMAIN tasks', Shows(i)' PROVE Sound(tasks[i])'
    <3>1. /\ tasks'[i] = tasks[i] /\ Sound(tasks[i]) /\ tasks[i].generation # generation'
          /\ tasks[i].event \in Events /\ tasks[i].generation \in Nat
      BY <1>4, <1>5, <2>1 DEF IInv, WarningsSound
    <3> QED BY <1>9, <3>1 DEF Sound
  <2>2. window' # None => Sound(window)'
    <3> SUFFICES ASSUME window # None PROVE Sound(window)'
      OBVIOUS
    <3>1. /\ Sound(window) /\ window.generation # generation'
          /\ window.event \in Events /\ window.generation \in Nat
      BY <1>5 DEF IInv, WarningsSound
    <3> QED BY <1>9, <3>1 DEF Sound
  <2>3. ASSUME NEW i \in DOMAIN requests', Answers(i)' PROVE Sound(requests[i])'
    <3>1. /\ requests'[i] = requests[i + 1] /\ Sound(requests[i + 1])
          /\ requests[i + 1].generation # generation'
          /\ requests[i + 1].event \in Events /\ requests[i + 1].generation \in Nat
      BY <1>1, <1>5, <2>3 DEF IInv, WarningsSound
    <3> QED BY <1>9, <3>1 DEF Sound
  <2> QED BY <2>1, <2>2, <2>3 DEF WarningsSound
<1>11. OnePlace'
  <2>1. \A i \in DOMAIN tasks' : ~LiveShow(i)'
    BY <1>4 DEF LiveShow
  <2>2. \A i \in DOMAIN requests' : ~LiveAnswer(i)'
    BY <1>1 DEF LiveAnswer
  <2>3. ~LiveWindow'
    BY DEF LiveWindow
  <2> QED BY <2>1, <2>2, <2>3 DEF OnePlace
<1>12. CountdownsSound'
  BY <1>4 DEF IInv, CountdownsSound, OwnCountdown
<1> QED BY <1>7, <1>8, <1>10, <1>11, <1>12

\* With no warning outstanding, nothing is left of one in the live generation.
LEMMA NothingIsLive ==
  ASSUME IInv, ~open
  PROVE  /\ \A i \in DOMAIN tasks : ~LiveShow(i)
         /\ \A i \in DOMAIN requests : ~LiveAnswer(i)
         /\ ~LiveWindow
BY DEF IInv, WarningsSound, Sound, LiveShow, LiveAnswer, LiveWindow

\* An answer that is accepted is that of the outstanding warning, of which
\* nothing is left besides.
LEMMA AcceptedFacts ==
  ASSUME IInv, requests # <<>>, Answers(1), Accepts(Head(requests))
  PROVE  /\ requests[1].event \in Events /\ fate[requests[1].event] = "warned" /\ open
         /\ \A i \in DOMAIN tasks : ~LiveShow(i)
         /\ \A i \in DOMAIN requests : i # 1 => ~LiveAnswer(i)
         /\ ~LiveWindow /\ ~exiting
<1>1. Head(requests) = requests[1] /\ 1 \in DOMAIN requests
  <2>1. requests \in Seq(Closures)
    BY DEF IInv, Types, StateOK
  <2> QED BY <2>1, TailFacts
<1>2. LiveAnswer(1) /\ open /\ ~exiting
  BY <1>1 DEF LiveAnswer, Accepts
<1>3. requests[1].event \in Events /\ Sound(requests[1])
  BY <1>1, PlaceFacts DEF IInv, WarningsSound
<1>4. fate[requests[1].event] = "warned"
  BY <1>2, <1>3 DEF Sound, LiveAnswer
<1>5. /\ \A i \in DOMAIN tasks : ~LiveShow(i)
      /\ \A i \in DOMAIN requests : i # 1 => ~LiveAnswer(i)
      /\ ~LiveWindow
  BY <1>1, <1>2 DEF IInv, OnePlace
<1> QED BY <1>2, <1>3, <1>4, <1>5

\* The next event is shown while nothing is left of another warning.
LEMMA ShowingKeeps ==
  ASSUME IInv, requests # <<>>, requests' = Tail(requests), NEW e \in Events,
         fate[e] \in Early, fate'[e] = "warned", open' = TRUE,
         tasks' = Append(tasks, [kind |-> "show", event |-> e, generation |-> generation]),
         countdown' = [countdown EXCEPT ![e] = Length(e)],
         \A i \in DOMAIN tasks : ~LiveShow(i),
         \A i \in DOMAIN requests : i # 1 => ~LiveAnswer(i),
         ~LiveWindow,
         \A x \in Events : x # e => fate'[x] = fate[x] \/ fate'[x] = "queued"
                                    \/ fate'[x] = "cancelled",
         \A x \in Events : x # e /\ fate[x] \notin Early => fate'[x] \notin Early,
         UNCHANGED <<generation, window, answer, exiting>>
  PROVE  /\ WarningsSound' /\ OnePlace' /\ HideComes'
         /\ tasks' \in Seq(Tasks) /\ countdown' = [x \in Events |-> countdown'[x]]
         /\ DOMAIN countdown' = Events
         /\ \A x \in Events : countdown'[x] \in -1..Length(x)
         /\ (\A x \in Events : fate'[x] = "queued" => fate[x] \in Early) => CountdownsSound'
<1> DEFINE new == [kind |-> "show", event |-> e, generation |-> generation]
           n == Len(tasks) + 1
<1>1. /\ \A i \in DOMAIN requests' :
            /\ i \in Nat /\ i + 1 \in DOMAIN requests /\ i + 1 # 1
            /\ requests'[i] = requests[i + 1]
            /\ Asks(i)' = Asks(i + 1) /\ Answers(i)' = Answers(i + 1)
  BY TakeFacts DEF IInv
<1>2. /\ \A i \in DOMAIN requests : Asks(i) \/ Answers(i) =>
            requests[i].event \in Events /\ requests[i].generation \in Nat
      /\ \A i \in DOMAIN tasks : Shows(i) =>
            tasks[i].event \in Events /\ tasks[i].generation \in Nat
      /\ \A i \in DOMAIN tasks : tasks[i].kind = "complete" => tasks[i].event \in Events
      /\ window # None => window.event \in Events /\ window.generation \in Nat
      /\ generation \in Nat
  BY PlaceFacts DEF IInv
<1>3. tasks \in Seq(Tasks) /\ new \in Tasks
  BY <1>2, MessageFacts DEF IInv, Types, StateOK
<1> HIDE DEF new
<1>4. /\ tasks' \in Seq(Tasks) /\ n \in DOMAIN tasks' /\ tasks'[n] = new
      /\ \A i \in DOMAIN tasks : tasks'[i] = tasks[i] /\ i \in DOMAIN tasks' /\ i < n
      /\ \A i \in DOMAIN tasks' : i \in DOMAIN tasks \/ i = n
      /\ DOMAIN tasks \subseteq Nat /\ n \in Nat
  <2>1. tasks' = Append(tasks, new)
    BY DEF new
  <2> QED BY <1>3, <2>1, AppendFacts
<1> HIDE DEF n
<1>5. /\ countdown' = [x \in Events |-> countdown'[x]] /\ DOMAIN countdown' = Events
      /\ \A x \in Events : countdown'[x] = IF x = e THEN Length(e) ELSE countdown[x]
      /\ \A x \in Events : countdown'[x] \in -1..Length(x)
  <2>1. /\ DOMAIN countdown = Events /\ countdown = [x \in Events |-> countdown[x]]
        /\ \A x \in Events : countdown[x] \in -1..Length(x)
    BY DEF IInv, Types, StateOK
  <2>2. /\ countdown' = [x \in Events |-> countdown'[x]] /\ DOMAIN countdown' = Events
        /\ \A x \in Events : countdown'[x] = IF x = e THEN Length(e) ELSE countdown[x]
    BY <2>1
  <2>3. Length(e) \in -1..Length(e)
    BY LengthFacts
  <2> QED BY <2>1, <2>2, <2>3
<1>6. ASSUME NEW w, w.event \in Events, w.generation \in Nat, Sound(w), w.generation # generation
      PROVE  w.generation <= generation' /\ fate'[w.event] \notin Early /\ w.event # e
  BY <1>2, <1>6 DEF Sound
<1>7. new.event = e /\ new.generation = generation /\ new.kind = "show"
  BY DEF new
<1>8. WarningsSound'
  <2>1. ASSUME NEW i \in DOMAIN tasks', Shows(i)' PROVE Sound(tasks[i])'
    <3>1. CASE i = n
      <4>1. "warned" \notin Early /\ generation <= generation'
        BY <1>2 DEF Early
      <4> QED BY <1>4, <1>7, <3>1, <4>1 DEF Sound
    <3>2. CASE i # n
      <4>1. /\ tasks'[i] = tasks[i] /\ Sound(tasks[i]) /\ tasks[i].generation # generation'
            /\ tasks[i].event \in Events /\ tasks[i].generation \in Nat
        BY <1>2, <1>4, <2>1, <3>2 DEF IInv, WarningsSound, Shows, LiveShow
      <4> QED BY <1>6, <4>1 DEF Sound
    <3> QED BY <3>1, <3>2
  <2>2. window' # None => Sound(window)'
    <3> SUFFICES ASSUME window # None PROVE Sound(window)'
      OBVIOUS
    <3>1. /\ Sound(window) /\ window.generation # generation'
          /\ window.event \in Events /\ window.generation \in Nat
      BY <1>2 DEF IInv, WarningsSound, LiveWindow
    <3> QED BY <1>6, <3>1 DEF Sound
  <2>3. ASSUME NEW i \in DOMAIN requests', Answers(i)' PROVE Sound(requests[i])'
    <3>1. /\ requests'[i] = requests[i + 1] /\ Sound(requests[i + 1])
          /\ requests[i + 1].generation # generation'
          /\ requests[i + 1].event \in Events /\ requests[i + 1].generation \in Nat
      BY <1>1, <1>2, <2>3 DEF IInv, WarningsSound, LiveAnswer
    <3> QED BY <1>6, <3>1 DEF Sound
  <2> QED BY <2>1, <2>2, <2>3 DEF WarningsSound
<1>9. OnePlace'
  <2>1. \A i \in DOMAIN tasks' : LiveShow(i)' => i = n
    BY <1>4 DEF LiveShow, Shows
  <2>2. \A i \in DOMAIN requests' : ~LiveAnswer(i)'
    BY <1>1 DEF LiveAnswer
  <2>3. ~LiveWindow'
    BY DEF LiveWindow
  <2> QED BY <2>1, <2>2, <2>3 DEF OnePlace
<1>10. HideComes'
  <2> SUFFICES ASSUME ~exiting
               PROVE  /\ \A i \in DOMAIN tasks' : Shows(i)' /\ tasks'[i].generation # generation' =>
                            \E j \in DOMAIN tasks' : j > i /\ Hides(j)'
                      /\ window' # None /\ window'.generation # generation' =>
                            \E j \in DOMAIN tasks' : Hides(j)'
    BY DEF HideComes
  <2>1. \A j \in DOMAIN tasks : Hides(j) => Hides(j)'
    BY <1>4 DEF Hides
  <2>2. ASSUME NEW i \in DOMAIN tasks', Shows(i)', tasks'[i].generation # generation'
        PROVE  \E j \in DOMAIN tasks' : j > i /\ Hides(j)'
    <3>1. i \in DOMAIN tasks /\ tasks'[i] = tasks[i]
      BY <1>4, <1>7, <2>2
    <3> QED BY <1>4, <2>1, <2>2, <3>1 DEF IInv, HideComes, Shows
  <2>3. window' # None /\ window'.generation # generation' => \E j \in DOMAIN tasks' : Hides(j)'
    BY <1>4, <2>1 DEF IInv, HideComes
  <2> QED BY <2>2, <2>3
<1>11. ASSUME \A x \in Events : fate'[x] = "queued" => fate[x] \in Early
       PROVE  CountdownsSound'
  <2>1. \A x \in Events : fate'[x] \in Early => x # e /\ fate[x] \in Early
    BY <1>11 DEF Early
  <2>2. \A x \in Events : fate'[x] \in Early => countdown'[x] = -1 /\ answer'[x] = "none"
    BY <1>5, <2>1 DEF IInv, CountdownsSound
  <2>3. countdown[e] = -1 /\ answer[e] = "none"
    BY DEF IInv, CountdownsSound
  <2>4. ASSUME NEW i \in DOMAIN tasks', tasks'[i].kind = "complete"
        PROVE  countdown'[tasks'[i].event] = 0
    <3>1. i \in DOMAIN tasks /\ tasks'[i] = tasks[i]
      BY <1>4, <1>7, <2>4
    <3>2. tasks[i].event \in Events /\ countdown[tasks[i].event] = 0
      BY <1>2, <2>4, <3>1 DEF IInv, CountdownsSound
    <3> QED BY <1>5, <2>3, <3>1, <3>2
  <2>5. OwnCountdown'
    BY <1>5, <2>3 DEF IInv, CountdownsSound, OwnCountdown
  <2> QED BY <2>2, <2>4, <2>5 DEF CountdownsSound
<1> QED BY <1>4, <1>5, <1>8, <1>9, <1>10, <1>11

\* A one-time rule is switched off, or stays on if that cannot be saved.
LEMMA FinishFacts ==
  ASSUME IInv, NEW e, FinishOneTimeRule(e)
  PROVE  enabled' \subseteq Once /\ faults' \in 0..MaxFaults
BY EventsAssumption DEF IInv, Types, StateOK, FinishOneTimeRule, Fault

\* What the request loop leaves alone.
Bystanders == <<window, exiting, interrupts, answer, lost>>

\* An event reaches the queue, or comes too late.
LEMMA RunEventKeeps ==
  ASSUME IInv, requests # <<>>, requests' = Tail(requests), UNCHANGED Bystanders,
         RunEvent(Head(requests))
  PROVE  IInv'
<1> DEFINE c == Head(requests)
           e == c.event
<1>1. /\ c = requests[1] /\ 1 \in DOMAIN requests /\ requests' \in Seq(Closures) /\ Asks(1)
      /\ \A i \in DOMAIN requests' :
            /\ i \in Nat /\ i + 1 \in DOMAIN requests /\ i + 1 # 1
            /\ requests'[i] = requests[i + 1]
            /\ Asks(i)' = Asks(i + 1) /\ Answers(i)' = Answers(i + 1)
  BY TakeFacts DEF IInv, RunEvent, Asks
<1>2. e \in Events /\ fate[e] = "posted" /\ ~Answers(1)
  BY <1>1, PlaceFacts DEF IInv, PostedOnce, Asks, Answers
<1>3. /\ UNCHANGED <<generation, runner, enabled, faults, window, exiting>>
      /\ UNCHANGED <<interrupts, answer, lost>>
  BY DEF RunEvent, Bystanders
<1>4. /\ fate \in [Events -> {"none", "posted", "queued", "warned"} \cup Final]
      /\ queue \in Seq(Events)
  BY DEF IInv, Types, StateOK
<1>5. \A i \in DOMAIN queue : queue[i] \in Events /\ fate[queue[i]] = "queued" /\ queue[i] # e
  BY <1>2, PlaceFacts DEF IInv, QueuedOnce
<1>6. \A i \in DOMAIN requests' : Asks(i)' =>
         requests'[i].event \in Events /\ requests'[i].event # e
  BY <1>1, PlaceFacts DEF IInv, PostedOnce
<1>7. ASSUME \A x \in Events : x # e => fate'[x] = fate[x] PROVE PostedOnce'
  <2>1. \A i \in DOMAIN requests' : Asks(i)' => fate'[requests'[i].event] = "posted"
    BY <1>1, <1>6, <1>7 DEF IInv, PostedOnce
  <2>2. \A i, j \in DOMAIN requests' :
           Asks(i)' /\ Asks(j)' /\ requests'[i].event = requests'[j].event => i = j
    BY <1>1 DEF IInv, PostedOnce
  <2> QED BY <2>1, <2>2 DEF PostedOnce
<1> HIDE DEF e
<1>8. CASE ~(c.generation = generation /\ ~exiting)
  <2>1. fate' = [fate EXCEPT ![e] = "dropped"] /\ UNCHANGED <<queue, open, tasks, countdown>>
    BY <1>8 DEF RunEvent, e
  <2>2. \A x \in Events : fate'[x] = IF x = e THEN "dropped" ELSE fate[x]
    BY <1>4, <2>1
  <2>3. fate' \in [Events -> {"none", "posted", "queued", "warned"} \cup Final]
    BY <1>4, <2>1 DEF Final
  <2>4. Types'
    BY <1>1, <1>3, <2>1, <2>3 DEF IInv, Types, StateOK
  <2>5. QueuedOnce'
    BY <1>5, <2>1, <2>2 DEF IInv, QueuedOnce, QueueWaitsForOne
  <2>6. ASSUME NEW w, w.event \in Events, Sound(w)
        PROVE  /\ w.generation <= generation' /\ fate'[w.event] \notin Early
               /\ w.generation = generation' => open' /\ fate'[w.event] = "warned"
    BY <1>2, <1>3, <2>1, <2>2, <2>6 DEF Sound, Early
  <2>7. WarningsSound'
    <3>1. \A i \in DOMAIN tasks : Shows(i) => tasks[i].event \in Events
      BY PlaceFacts DEF IInv
    <3>2. window # None => window.event \in Events
      BY PlaceFacts DEF IInv
    <3>3. \A i \in DOMAIN requests : Answers(i) => requests[i].event \in Events
      BY PlaceFacts DEF IInv
    <3>4. \A i \in DOMAIN tasks : Shows(i) => Sound(tasks[i])'
      BY <1>3, <2>1, <2>6, <3>1 DEF IInv, WarningsSound, Sound
    <3>5. window # None => Sound(window)'
      BY <1>3, <2>6, <3>2 DEF IInv, WarningsSound, Sound
    <3>6. \A i \in DOMAIN requests' : Answers(i)' => Sound(requests[i])'
      BY <1>1, <2>6, <3>3 DEF IInv, WarningsSound, Sound
    <3> QED BY <1>3, <2>1, <3>4, <3>5, <3>6 DEF WarningsSound, Shows
  <2>8. OnePlace'
    BY <1>1, <1>3, <2>1 DEF IInv, OnePlace, LiveShow, LiveWindow, LiveAnswer, Shows
  <2>9. CountdownsSound'
    BY <1>3, <2>1, <2>2 DEF IInv, CountdownsSound, OwnCountdown, Early
  <2>10. HideComes'
    BY <1>3, <2>1 DEF IInv, HideComes, Shows, Hides
  <2> QED BY <1>7, <2>2, <2>4, <2>5, <2>7, <2>8, <2>9, <2>10 DEF IInv
<1>9. CASE c.generation = generation /\ ~exiting /\ open
  <2>1. /\ queue' = Append(queue, e) /\ fate' = [fate EXCEPT ![e] = "queued"]
        /\ UNCHANGED <<open, tasks, countdown>>
    BY <1>9 DEF RunEvent, e
  <2>2. \A x \in Events : fate'[x] = IF x = e THEN "queued" ELSE fate[x]
    BY <1>4, <2>1
  <2>3. fate' \in [Events -> {"none", "posted", "queued", "warned"} \cup Final]
    BY <1>4, <2>1
  <2>4. /\ queue' \in Seq(Events) /\ Len(queue) \in Nat /\ DOMAIN queue = 1..Len(queue)
        /\ DOMAIN queue' = 1..(Len(queue) + 1) /\ queue'[Len(queue) + 1] = e
        /\ \A i \in DOMAIN queue : queue'[i] = queue[i]
        /\ \A i \in DOMAIN queue' : i \in DOMAIN queue \/ i = Len(queue) + 1
    BY <1>2, <1>4, <2>1, AppendFacts
  <2>5. Types'
    BY <1>1, <1>3, <2>1, <2>3, <2>4 DEF IInv, Types, StateOK
  <2>6. QueuedOnce'
    <3>1. \A i \in DOMAIN queue' : fate'[queue'[i]] = "queued"
      BY <1>2, <1>5, <2>2, <2>4
    <3>2. \A i, j \in DOMAIN queue' : queue'[i] = queue'[j] => i = j
      BY <1>5, <2>4 DEF IInv, QueuedOnce
    <3> QED BY <1>9, <2>1, <3>1, <3>2 DEF QueuedOnce, QueueWaitsForOne
  <2>7. ASSUME NEW w, w.event \in Events, Sound(w)
        PROVE  /\ w.generation <= generation' /\ fate'[w.event] \notin Early
               /\ w.generation = generation' => open' /\ fate'[w.event] = "warned"
    BY <1>2, <1>3, <2>1, <2>2, <2>7 DEF Sound, Early
  <2>8. WarningsSound'
    <3>1. \A i \in DOMAIN tasks : Shows(i) => tasks[i].event \in Events
      BY PlaceFacts DEF IInv
    <3>2. window # None => window.event \in Events
      BY PlaceFacts DEF IInv
    <3>3. \A i \in DOMAIN requests : Answers(i) => requests[i].event \in Events
      BY PlaceFacts DEF IInv
    <3>4. \A i \in DOMAIN tasks : Shows(i) => Sound(tasks[i])'
      BY <1>3, <2>1, <2>7, <3>1 DEF IInv, WarningsSound, Sound
    <3>5. window # None => Sound(window)'
      BY <1>3, <2>7, <3>2 DEF IInv, WarningsSound, Sound
    <3>6. \A i \in DOMAIN requests' : Answers(i)' => Sound(requests[i])'
      BY <1>1, <2>7, <3>3 DEF IInv, WarningsSound, Sound
    <3> QED BY <1>3, <2>1, <3>4, <3>5, <3>6 DEF WarningsSound, Shows
  <2>9. OnePlace'
    BY <1>1, <1>3, <2>1 DEF IInv, OnePlace, LiveShow, LiveWindow, LiveAnswer, Shows
  <2>10. CountdownsSound'
    BY <1>2, <1>3, <2>1, <2>2 DEF IInv, CountdownsSound, OwnCountdown, Early
  <2>11. HideComes'
    BY <1>3, <2>1 DEF IInv, HideComes, Shows, Hides
  <2> QED BY <1>7, <2>2, <2>5, <2>6, <2>8, <2>9, <2>10, <2>11 DEF IInv
<1>10. CASE c.generation = generation /\ ~exiting /\ ~open
  <2>1. queue = <<>>
    BY <1>10 DEF IInv, QueuedOnce, QueueWaitsForOne
  <2>2. /\ Append(queue, e) = <<e>> /\ <<e>> # <<>> /\ Head(<<e>>) = e /\ Tail(<<e>>) = <<>>
    BY <1>2, <2>1
  <2>3. /\ queue' = <<>> /\ open' = TRUE
        /\ tasks' = Append(tasks, [kind |-> "show", event |-> e, generation |-> generation])
        /\ countdown' = [countdown EXCEPT ![e] = Length(e)]
        /\ fate' = [fate EXCEPT ![e] = "queued", ![e] = "warned"]
    BY <1>10, <2>2 DEF RunEvent, ShowNext, e
  <2>4. \A x \in Events : fate'[x] = IF x = e THEN "warned" ELSE fate[x]
    BY <1>4, <2>3
  <2>5. fate' \in [Events -> {"none", "posted", "queued", "warned"} \cup Final]
    BY <1>4, <2>3
  <2>6. /\ \A i \in DOMAIN tasks : ~LiveShow(i)
        /\ \A i \in DOMAIN requests : i # 1 => ~LiveAnswer(i)
        /\ ~LiveWindow
    BY <1>10, NothingIsLive
  <2>7. /\ WarningsSound' /\ OnePlace' /\ HideComes'
        /\ tasks' \in Seq(Tasks) /\ countdown' = [x \in Events |-> countdown'[x]]
        /\ DOMAIN countdown' = Events
        /\ \A x \in Events : countdown'[x] \in -1..Length(x)
        /\ (\A x \in Events : fate'[x] = "queued" => fate[x] \in Early) => CountdownsSound'
    <3>1. fate[e] \in Early /\ fate'[e] = "warned"
      BY <1>2, <2>4 DEF Early
    <3> QED BY <1>2, <1>3, <2>3, <2>4, <2>6, <3>1, ShowingKeeps
  <2>8. CountdownsSound'
    BY <2>4, <2>7 DEF Early
  <2>9. Types'
    <3>1. queue' \in Seq(Events)
      BY <2>3
    <3> QED BY <1>1, <1>3, <2>3, <2>5, <2>7, <3>1 DEF IInv, Types, StateOK
  <2>10. QueuedOnce'
    BY <2>3 DEF QueuedOnce, QueueWaitsForOne
  <2> QED BY <1>7, <2>4, <2>7, <2>8, <2>9, <2>10 DEF IInv
<1> QED BY <1>8, <1>9, <1>10

\* A cancellation shows the next event; one that comes too late does nothing.
LEMMA RunCancelKeeps ==
  ASSUME IInv, requests # <<>>, requests' = Tail(requests), UNCHANGED Bystanders,
         RunCancel(Head(requests))
  PROVE  IInv'
<1> DEFINE c == Head(requests)
           a == c.event
           e == Head(queue)
<1>1. /\ c = requests[1] /\ 1 \in DOMAIN requests /\ requests' \in Seq(Closures)
      /\ Answers(1) /\ ~Asks(1)
      /\ \A i \in DOMAIN requests' :
            /\ i \in Nat /\ i + 1 \in DOMAIN requests /\ i + 1 # 1
            /\ requests'[i] = requests[i + 1]
            /\ Asks(i)' = Asks(i + 1) /\ Answers(i)' = Answers(i + 1)
  BY TakeFacts DEF IInv, RunCancel, Answers, Asks
<1>2. UNCHANGED <<generation, runner, window, exiting, interrupts, answer, lost>>
  BY DEF RunCancel, Bystanders
<1>3. /\ fate \in [Events -> {"none", "posted", "queued", "warned"} \cup Final]
      /\ queue \in Seq(Events) /\ enabled \subseteq Once /\ tasks \in Seq(Tasks)
  BY DEF IInv, Types, StateOK
<1>4. CASE Ignore(c)
  BY <1>2, <1>3, <1>4, IgnoringKeeps DEF Ignore
<1>5. CASE /\ Accepts(c) /\ FinishOneTimeRule(a) /\ ShowNext(queue)
           /\ fate' = [x \in Events |->
                 IF x = a THEN "cancelled"
                 ELSE IF queue # <<>> /\ x = e THEN "warned" ELSE fate[x]]
  <2>1. /\ a \in Events /\ fate[a] = "warned" /\ open /\ ~exiting
        /\ \A i \in DOMAIN tasks : ~LiveShow(i)
        /\ \A i \in DOMAIN requests : i # 1 => ~LiveAnswer(i)
        /\ ~LiveWindow
    BY <1>1, <1>5, AcceptedFacts
  <2>2. enabled' \subseteq Once /\ faults' \in 0..MaxFaults
    BY <1>5, FinishFacts
  <2>3. \A i \in DOMAIN queue : queue[i] \in Events /\ fate[queue[i]] = "queued" /\ queue[i] # a
    BY <2>1, PlaceFacts DEF IInv, QueuedOnce
  <2>4. \A x \in Events : fate'[x] = IF x = a THEN "cancelled"
                                     ELSE IF queue # <<>> /\ x = e THEN "warned" ELSE fate[x]
    BY <1>5
  <2>5. fate' \in [Events -> {"none", "posted", "queued", "warned"} \cup Final]
    BY <1>3, <1>5 DEF Final
  <2> HIDE DEF e, a
  <2>6. CASE queue = <<>>
    <3>1. queue' = <<>> /\ open' = FALSE /\ UNCHANGED <<tasks, countdown>>
      BY <1>5, <2>6 DEF ShowNext
    <3>2. /\ PostedOnce' /\ QueuedOnce' /\ WarningsSound' /\ OnePlace' /\ CountdownsSound'
      <4>1. /\ \A i \in DOMAIN tasks : Shows(i) => tasks[i].generation # generation'
            /\ window # None => window.generation # generation'
            /\ \A i \in DOMAIN requests : i # 1 /\ Answers(i) =>
                  requests[i].generation # generation'
        BY <1>2, <2>1 DEF LiveShow, LiveWindow, LiveAnswer
      <4>2. /\ \A x \in Events : fate'[x] = fate[x] \/ fate'[x] \notin Early
            /\ \A x \in Events : fate[x] = "posted" => fate'[x] = "posted"
        BY <2>1, <2>4, <2>6 DEF Early
      <4>3. generation' \in Nat /\ generation' >= generation
        BY <1>2, PlaceFacts DEF IInv
      <4> QED BY <1>2, <3>1, <4>1, <4>2, <4>3, QuietKeeps
    <3>3. Types'
      <4>1. queue' \in Seq(Events)
        BY <3>1
      <4> QED BY <1>1, <1>2, <2>2, <2>5, <3>1, <4>1 DEF IInv, Types, StateOK
    <3>4. HideComes'
      BY <1>2, <3>1 DEF IInv, HideComes, Shows, Hides
    <3> QED BY <3>2, <3>3, <3>4 DEF IInv
  <2>7. CASE queue # <<>>
    <3>1. /\ queue' = Tail(queue) /\ open' = TRUE
          /\ tasks' = Append(tasks, [kind |-> "show", event |-> e, generation |-> generation])
          /\ countdown' = [countdown EXCEPT ![e] = Length(e)]
      BY <1>5, <2>7 DEF ShowNext, e
    <3>2. /\ 1 \in DOMAIN queue /\ e = queue[1] /\ queue' \in Seq(Events)
          /\ \A i \in DOMAIN queue' :
                i \in Nat /\ i + 1 \in DOMAIN queue /\ i + 1 # 1 /\ queue'[i] = queue[i + 1]
      BY <1>3, <2>7, <3>1, TailFacts DEF e
    <3>3. e \in Events /\ fate[e] = "queued" /\ e # a /\ fate'[e] = "warned"
      BY <2>3, <2>4, <2>7, <3>2
    <3>4. /\ \A x \in Events : x # e => fate'[x] = fate[x] \/ fate'[x] = "queued"
                                        \/ fate'[x] = "cancelled"
          /\ \A x \in Events : x # e /\ fate[x] \notin Early => fate'[x] \notin Early
          /\ \A x \in Events : fate'[x] = "queued" => fate[x] \in Early
      BY <2>4, <3>3 DEF Early
    <3>5. /\ WarningsSound' /\ OnePlace' /\ HideComes'
          /\ tasks' \in Seq(Tasks) /\ countdown' = [x \in Events |-> countdown'[x]]
          /\ DOMAIN countdown' = Events
          /\ \A x \in Events : countdown'[x] \in -1..Length(x)
          /\ CountdownsSound'
      <4>1. fate[e] \in Early
        BY <3>3 DEF Early
      <4> QED BY <1>2, <2>1, <3>1, <3>3, <3>4, <4>1, ShowingKeeps
    <3>6. Types'
      BY <1>1, <1>2, <2>2, <2>5, <3>1, <3>2, <3>5 DEF IInv, Types, StateOK
    <3>7. PostedOnce'
      <4>1. \A i \in DOMAIN requests' : Asks(i)' =>
               /\ requests'[i].event \in Events /\ fate[requests'[i].event] = "posted"
        BY <1>1, PlaceFacts DEF IInv, PostedOnce
      <4>2. \A i \in DOMAIN requests' : Asks(i)' => fate'[requests'[i].event] = "posted"
        BY <2>1, <2>4, <3>3, <4>1
      <4>3. \A i, j \in DOMAIN requests' :
               Asks(i)' /\ Asks(j)' /\ requests'[i].event = requests'[j].event => i = j
        BY <1>1 DEF IInv, PostedOnce
      <4> QED BY <4>2, <4>3 DEF PostedOnce
    <3>8. QueuedOnce'
      <4>1. \A i \in DOMAIN queue' : fate'[queue'[i]] = "queued"
        <5>1. ASSUME NEW i \in DOMAIN queue' PROVE fate'[queue'[i]] = "queued"
          <6>1. queue'[i] = queue[i + 1] /\ queue[i + 1] # queue[1]
            BY <3>2 DEF IInv, QueuedOnce
          <6> QED BY <2>3, <2>4, <3>2, <6>1
        <5> QED BY <5>1
      <4>2. \A i, j \in DOMAIN queue' : queue'[i] = queue'[j] => i = j
        BY <3>2 DEF IInv, QueuedOnce
      <4> QED BY <3>1, <4>1, <4>2 DEF QueuedOnce, QueueWaitsForOne
    <3> QED BY <3>5, <3>6, <3>7, <3>8 DEF IInv
  <2> QED BY <2>6, <2>7
<1> QED BY <1>4, <1>5 DEF RunCancel

\* The action is carried out and nothing waits behind it any more.
LEMMA RunExecuteKeeps ==
  ASSUME IInv, requests # <<>>, requests' = Tail(requests), UNCHANGED Bystanders,
         RunExecute(Head(requests))
  PROVE  IInv'
<1> DEFINE c == Head(requests)
           a == c.event
<1>1. /\ c = requests[1] /\ 1 \in DOMAIN requests /\ requests' \in Seq(Closures)
      /\ Answers(1) /\ ~Asks(1)
  BY TakeFacts DEF IInv, RunExecute, Execute, Answers, Asks
<1>2. UNCHANGED <<generation, runner, window, exiting, interrupts, answer, lost>>
  BY DEF RunExecute, Execute, Bystanders
<1>3. /\ fate \in [Events -> {"none", "posted", "queued", "warned"} \cup Final]
      /\ enabled \subseteq Once /\ tasks \in Seq(Tasks)
  BY DEF IInv, Types, StateOK
<1>4. CASE Ignore(c)
  BY <1>2, <1>3, <1>4, IgnoringKeeps DEF Ignore
<1>5. CASE /\ Accepts(c) /\ FinishOneTimeRule(a) /\ open' = FALSE /\ queue' = <<>>
           /\ fate' = [x \in Events |->
                 IF x = a THEN "executed"
                 ELSE IF fate[x] = "queued" THEN "cleared" ELSE fate[x]]
           /\ UNCHANGED <<tasks, countdown>>
  <2>1. /\ a \in Events /\ fate[a] = "warned"
        /\ \A i \in DOMAIN tasks : ~LiveShow(i)
        /\ \A i \in DOMAIN requests : i # 1 => ~LiveAnswer(i)
        /\ ~LiveWindow
    BY <1>1, <1>5, AcceptedFacts
  <2>2. enabled' \subseteq Once /\ faults' \in 0..MaxFaults
    BY <1>5, FinishFacts
  <2>3. fate' \in [Events -> {"none", "posted", "queued", "warned"} \cup Final]
    BY <1>3, <1>5 DEF Final
  <2>4. /\ \A i \in DOMAIN tasks : Shows(i) => tasks[i].generation # generation'
        /\ window # None => window.generation # generation'
        /\ \A i \in DOMAIN requests : i # 1 /\ Answers(i) =>
              requests[i].generation # generation'
    BY <1>2, <2>1 DEF LiveShow, LiveWindow, LiveAnswer
  <2>5. /\ \A x \in Events : fate'[x] = fate[x] \/ fate'[x] \notin Early
        /\ \A x \in Events : fate[x] = "posted" => fate'[x] = "posted"
    <3>1. \A x \in Events : fate'[x] = IF x = a THEN "executed"
                                       ELSE IF fate[x] = "queued" THEN "cleared" ELSE fate[x]
      BY <1>5
    <3> HIDE DEF a
    <3> QED BY <2>1, <3>1 DEF Early
  <2>6. generation' \in Nat /\ generation' >= generation
    BY <1>2, PlaceFacts DEF IInv
  <2>7. /\ PostedOnce' /\ QueuedOnce' /\ WarningsSound' /\ OnePlace' /\ CountdownsSound'
    BY <1>2, <1>5, <2>4, <2>5, <2>6, QuietKeeps
  <2>8. Types'
    <3>1. queue' \in Seq(Events)
      BY <1>5
    <3>2. open' \in BOOLEAN
      BY <1>5
    <3> QED BY <1>1, <1>2, <1>5, <2>2, <2>3, <3>1, <3>2 DEF IInv, Types, StateOK
  <2>9. HideComes'
    BY <1>2, <1>5 DEF IInv, HideComes, Shows, Hides
  <2> QED BY <2>7, <2>8, <2>9 DEF IInv
<1> QED BY <1>4, <1>5 DEF RunExecute, Execute

\* A new generation: what waited or was shown is dropped, and the window goes.
LEMMA StopKeeps ==
  ASSUME IInv, requests # <<>>, requests' = Tail(requests), UNCHANGED Bystanders,
         ~Asks(1), NEW up \in BOOLEAN, StopAutomation(up)
  PROVE  IInv'
<1>1. requests' \in Seq(Closures)
  BY TakeFacts DEF IInv
<1>2. /\ generation' = generation + 1 /\ runner' = up /\ queue' = <<>> /\ open' = FALSE
      /\ tasks' = IF exiting THEN tasks ELSE Append(tasks, [kind |-> "hide"])
      /\ fate' = [e \in Events |-> IF fate[e] \in {"queued", "warned"} THEN "dropped" ELSE fate[e]]
      /\ UNCHANGED <<countdown, enabled, faults, window, exiting, interrupts, answer, lost>>
  BY DEF StopAutomation, Turn, Bystanders
<1>3. /\ fate \in [Events -> {"none", "posted", "queued", "warned"} \cup Final]
      /\ generation \in Nat /\ tasks \in Seq(Tasks) /\ [kind |-> "hide"] \in Tasks
  BY MessageFacts DEF IInv, Types, StateOK
<1>4. /\ \A i \in DOMAIN tasks : Shows(i) => tasks[i].generation # generation'
      /\ window # None => window.generation # generation'
      /\ \A i \in DOMAIN requests : i # 1 /\ Answers(i) => requests[i].generation # generation'
  BY <1>2, PlaceFacts DEF IInv, WarningsSound, Sound
<1>5. /\ \A x \in Events : fate'[x] = fate[x] \/ fate'[x] \notin Early
      /\ \A x \in Events : fate[x] = "posted" => fate'[x] = "posted"
  BY <1>2 DEF Early
<1>6. /\ generation' \in Nat /\ generation' >= generation /\ generation' >= 1
  BY <1>2, <1>3
<1>7. /\ PostedOnce' /\ QueuedOnce' /\ WarningsSound' /\ OnePlace' /\ CountdownsSound'
  BY <1>2, <1>4, <1>5, <1>6, QuietKeeps
<1>8. Types'
  <2>1. fate' \in [Events -> {"none", "posted", "queued", "warned"} \cup Final]
    BY <1>2, <1>3 DEF Final
  <2>2. tasks' \in Seq(Tasks)
    BY <1>2, <1>3, AppendFacts
  <2>3. queue' \in Seq(Events)
    BY <1>2
  <2>4. open' \in BOOLEAN /\ runner' \in BOOLEAN
    BY <1>2
  <2> QED BY <1>1, <1>2, <1>6, <2>1, <2>2, <2>3, <2>4 DEF IInv, Types, StateOK
<1>9. HideComes'
  <2> SUFFICES ASSUME ~exiting
               PROVE  /\ \A i \in DOMAIN tasks' : Shows(i)' => \E j \in DOMAIN tasks' : j > i /\ Hides(j)'
                      /\ \E j \in DOMAIN tasks' : Hides(j)'
    BY <1>2 DEF HideComes
  <2> DEFINE n == Len(tasks) + 1
             new == [kind |-> "hide"]
  <2>1. tasks' = Append(tasks, new) /\ new \in Tasks /\ new.kind = "hide"
    BY <1>2, <1>3
  <2> HIDE DEF new
  <2>2. /\ n \in DOMAIN tasks' /\ tasks'[n] = new /\ n \in Nat
        /\ \A i \in DOMAIN tasks' : i = n \/ i \in DOMAIN tasks
        /\ \A i \in DOMAIN tasks : i < n
    BY <1>3, <2>1, AppendFacts
  <2>3. PICK k \in DOMAIN tasks' : tasks'[k] = new /\ \A i \in DOMAIN tasks' : i = k \/ k > i
    BY <2>2
  <2>4. Hides(k)' /\ ~Shows(k)'
    BY <2>1, <2>3 DEF Shows, Hides
  <2> QED BY <2>3, <2>4
<1> QED BY <1>7, <1>8, <1>9 DEF IInv

\* One closure of the request loop.
LEMMA RequestLoopKeeps == IInv /\ RequestLoop => IInv'
<1> SUFFICES ASSUME IInv, RequestLoop PROVE IInv'
  OBVIOUS
<1> DEFINE c == Head(requests)
<1>1. /\ requests # <<>> /\ requests' = Tail(requests) /\ UNCHANGED Bystanders
      /\ \/ RunEvent(c) \/ RunCancel(c) \/ RunExecute(c)
         \/ RunRestart(c) \/ RunLanguage(c) \/ RunShutdown(c)
  BY DEF RequestLoop, Bystanders
<1>2. c = requests[1] /\ c \in Closures
  BY <1>1, TakeFacts DEF IInv
<1>3. CASE RunEvent(c)
  BY <1>1, <1>3, RunEventKeeps
<1>4. CASE RunCancel(c)
  BY <1>1, <1>4, RunCancelKeeps
<1>5. CASE RunExecute(c)
  BY <1>1, <1>5, RunExecuteKeeps
<1>6. CASE RunRestart(c)
  <2>1. ~Asks(1) /\ c.enable \in BOOLEAN
    BY <1>2, <1>6, MessageFacts DEF Asks, RunRestart
  <2> QED BY <1>1, <1>6, <2>1, StopKeeps DEF RunRestart
<1>7. CASE RunShutdown(c)
  <2>1. ~Asks(1)
    BY <1>2, <1>7 DEF Asks, RunShutdown
  <2> QED BY <1>1, <1>7, <2>1, StopKeeps DEF RunShutdown
<1>8. CASE RunLanguage(c)
  <2>1. /\ enabled' \subseteq Once
        /\ tasks' = tasks \/ tasks' = Append(tasks, [kind |-> "hide"])
        /\ UNCHANGED <<generation, runner, queue, open, window, countdown, exiting>>
        /\ UNCHANGED <<interrupts, faults, fate, answer, lost>>
    BY <1>1, <1>8 DEF RunLanguage, thread, Bystanders, IInv, Types, StateOK
  <2> QED BY <1>1, <2>1, IgnoringKeeps
<1> QED BY <1>1, <1>3, <1>4, <1>5, <1>6, <1>7, <1>8
-----------------------------------------------------------------------------
(* The UI thread, the countdowns and those who post *)

\* The tasks that are left when some of the first one are taken.
LEMMA TaskFacts ==
  ASSUME Types, tasks # <<>>, tasks' = Tail(tasks)
  PROVE  /\ Head(tasks) = tasks[1] /\ Head(tasks) \in Tasks
         /\ 1 \in DOMAIN tasks /\ tasks' \in Seq(Tasks)
         /\ \A i \in DOMAIN tasks' :
               /\ i \in Nat /\ i + 1 \in DOMAIN tasks /\ i + 1 # 1
               /\ tasks'[i] = tasks[i + 1]
               /\ Shows(i)' = Shows(i + 1) /\ Hides(i)' = Hides(i + 1)
         /\ \A j \in DOMAIN tasks : j # 1 =>
               j \in Nat /\ j - 1 \in DOMAIN tasks' /\ tasks'[j - 1] = tasks[j]
               /\ Hides(j - 1)' = Hides(j)
<1>1. tasks \in Seq(Tasks)
  BY DEF Types, StateOK
<1>2. /\ Head(tasks) = tasks[1] /\ Head(tasks) \in Tasks
      /\ 1 \in DOMAIN tasks /\ tasks' \in Seq(Tasks) /\ DOMAIN tasks \subseteq Nat
      /\ \A i \in DOMAIN tasks' :
            /\ i \in Nat /\ i + 1 \in DOMAIN tasks /\ i + 1 # 1
            /\ tasks'[i] = tasks[i + 1]
      /\ \A j \in DOMAIN tasks : j # 1 => j - 1 \in DOMAIN tasks' /\ tasks'[j - 1] = tasks[j]
  BY <1>1, TailFacts
<1> QED BY <1>2 DEF Shows, Hides

\* A hide that is still to come, in what is left of the tasks.
LEMMA HideStays ==
  ASSUME IInv, ~exiting, tasks # <<>>, tasks' = Tail(tasks), generation' = generation
  PROVE  /\ \A i \in DOMAIN tasks' : Shows(i)' /\ tasks'[i].generation # generation' =>
               \E j \in DOMAIN tasks' : j > i /\ Hides(j)'
         /\ ~Hides(1) /\ (\E j \in DOMAIN tasks : Hides(j)) => \E j \in DOMAIN tasks' : Hides(j)'
<1>1. /\ \A i \in DOMAIN tasks' :
            /\ i \in Nat /\ i + 1 \in DOMAIN tasks
            /\ tasks'[i] = tasks[i + 1] /\ Shows(i)' = Shows(i + 1)
      /\ \A j \in DOMAIN tasks : j # 1 =>
            j \in Nat /\ j - 1 \in DOMAIN tasks' /\ Hides(j - 1)' = Hides(j)
  BY TaskFacts DEF IInv
<1>2. ASSUME NEW i \in DOMAIN tasks', Shows(i)', tasks'[i].generation # generation'
      PROVE  \E j \in DOMAIN tasks' : j > i /\ Hides(j)'
  <2>1. PICK j \in DOMAIN tasks : j > i + 1 /\ Hides(j)
    BY <1>1, <1>2 DEF IInv, HideComes
  <2>2. j # 1 /\ j \in Nat /\ j - 1 > i
    BY <1>1, <2>1
  <2> QED BY <1>1, <2>1, <2>2
<1>3. ASSUME ~Hides(1), NEW j \in DOMAIN tasks, Hides(j)
      PROVE  \E k \in DOMAIN tasks' : Hides(k)'
  BY <1>1, <1>3
<1> QED BY <1>2, <1>3

\* A window is shown in place of another, or cannot be made.
LEMMA RunShowKeeps ==
  ASSUME IInv, tasks # <<>>, tasks' = Tail(tasks), ~exiting, RunShow(Head(tasks)),
         UNCHANGED thread, UNCHANGED <<countdown, exiting, interrupts, fate>>
  PROVE  IInv'
<1> DEFINE t == Head(tasks)
           shown == [event |-> t.event, generation |-> t.generation]
<1>1. /\ t = tasks[1] /\ t \in Tasks
      /\ 1 \in DOMAIN tasks /\ tasks' \in Seq(Tasks)
      /\ \A i \in DOMAIN tasks' :
            /\ i \in Nat /\ i + 1 \in DOMAIN tasks /\ i + 1 # 1
            /\ tasks'[i] = tasks[i + 1]
            /\ Shows(i)' = Shows(i + 1)
      /\ \A j \in DOMAIN tasks : j # 1 =>
            j \in Nat /\ j - 1 \in DOMAIN tasks' /\ Hides(j - 1)' = Hides(j)
  BY TaskFacts DEF IInv
<1>2. /\ UNCHANGED <<generation, runner, queue, open, enabled, countdown, exiting>>
      /\ UNCHANGED <<interrupts, fate, requests, answer>>
      /\ Shows(1) /\ ~Hides(1) /\ t.event \in Events /\ t.generation \in Nat
  BY <1>1, MessageFacts DEF thread, RunShow, Shows, Hides
<1>3. /\ window' = None \/ window' = shown
      /\ faults' \in 0..MaxFaults /\ lost' \in BOOLEAN
  <2>1. \/ window' = shown /\ UNCHANGED <<faults, lost>>
        \/ Fault /\ window' = None /\ lost' = TRUE
    BY DEF RunShow
  <2>2. faults \in 0..MaxFaults /\ lost \in BOOLEAN
    BY DEF IInv, Types, StateOK
  <2>3. Fault => faults' \in 0..MaxFaults
    BY <2>2, EventsAssumption DEF Fault
  <2> HIDE DEF shown
  <2>4. CASE window' = shown /\ UNCHANGED <<faults, lost>>
    BY <2>2, <2>4, Zenon
  <2>5. CASE Fault /\ window' = None /\ lost' = TRUE
    BY <2>3, <2>5, Zenon
  <2> QED BY <2>1, <2>4, <2>5
<1>4. Types'
  <2>1. window' \in [event: Events, generation: Nat] \cup {None}
    BY <1>2, <1>3
  <2> QED BY <1>1, <1>2, <1>3, <2>1 DEF IInv, Types, StateOK
<1>5. PostedOnce' /\ QueuedOnce'
  BY <1>2 DEF IInv, PostedOnce, QueuedOnce, QueueWaitsForOne, Asks
<1>6. shown.event = t.event /\ shown.generation = t.generation
  OBVIOUS
<1> HIDE DEF t, shown
<1>7. WarningsSound'
  <2>1. \A i \in DOMAIN tasks' : Shows(i)' => Sound(tasks[i])'
    BY <1>1, <1>2 DEF IInv, WarningsSound, Sound
  <2>2. window' # None => Sound(window)'
    BY <1>1, <1>2, <1>3, <1>6 DEF IInv, WarningsSound, Sound
  <2>3. \A i \in DOMAIN requests' : Answers(i)' => Sound(requests[i])'
    BY <1>2 DEF IInv, WarningsSound, Sound, Answers
  <2> QED BY <2>1, <2>2, <2>3 DEF WarningsSound
<1>8. OnePlace'
  <2>1. \A i \in DOMAIN tasks' : LiveShow(i)' => LiveShow(i + 1)
    BY <1>1, <1>2 DEF LiveShow
  <2>2. \A i \in DOMAIN requests' : LiveAnswer(i)' <=> LiveAnswer(i)
    BY <1>2 DEF LiveAnswer, Answers
  <2>3. LiveWindow' => LiveShow(1)
    BY <1>1, <1>2, <1>3, <1>6 DEF LiveWindow, LiveShow
  <2>4. \A i, j \in DOMAIN tasks' : LiveShow(i)' /\ LiveShow(j)' => i = j
    BY <1>1, <2>1 DEF IInv, OnePlace
  <2>5. \A i, j \in DOMAIN requests' : LiveAnswer(i)' /\ LiveAnswer(j)' => i = j
    BY <1>2, <2>2 DEF IInv, OnePlace
  <2>6. \A i \in DOMAIN tasks', j \in DOMAIN requests' : ~(LiveShow(i)' /\ LiveAnswer(j)')
    BY <1>1, <1>2, <2>1, <2>2 DEF IInv, OnePlace
  <2>7. \A i \in DOMAIN tasks' : ~(LiveShow(i)' /\ LiveWindow')
    BY <1>1, <2>1, <2>3 DEF IInv, OnePlace
  <2>8. \A j \in DOMAIN requests' : ~(LiveAnswer(j)' /\ LiveWindow')
    BY <1>1, <1>2, <2>2, <2>3 DEF IInv, OnePlace
  <2> QED BY <2>4, <2>5, <2>6, <2>7, <2>8 DEF OnePlace
<1>9. CountdownsSound'
  BY <1>1, <1>2 DEF IInv, CountdownsSound, OwnCountdown
<1>10. HideComes'
  <2>1. window' # None /\ window'.generation # generation' => \E j \in DOMAIN tasks : Hides(j)
    BY <1>1, <1>2, <1>3, <1>6 DEF IInv, HideComes
  <2> QED BY <1>2, <2>1, HideStays DEF HideComes
<1> QED BY <1>4, <1>5, <1>7, <1>8, <1>9, <1>10 DEF IInv

\* The window goes, and what was outstanding with it.
LEMMA ClosingKeeps ==
  ASSUME IInv, ~exiting, window' = None, lost' \in BOOLEAN, faults' \in 0..MaxFaults,
         tasks' = tasks \/ (tasks # <<>> /\ tasks' = Tail(tasks)),
         UNCHANGED thread, UNCHANGED <<countdown, exiting, interrupts, fate, requests, answer>>
  PROVE  IInv'
<1>1. /\ UNCHANGED <<generation, runner, queue, open, enabled, countdown, exiting>>
      /\ UNCHANGED <<interrupts, fate, requests, answer>>
  BY DEF thread
<1>2. PICK k \in {0, 1} :
         /\ tasks' \in Seq(Tasks)
         /\ \A i \in DOMAIN tasks' :
               /\ i \in Nat /\ i + k \in DOMAIN tasks /\ tasks'[i] = tasks[i + k]
               /\ Shows(i)' = Shows(i + k)
  <2>1. CASE tasks' = tasks
    <3>1. tasks \in Seq(Tasks)
      BY DEF IInv, Types, StateOK
    <3>2. \A i \in DOMAIN tasks' : i \in Nat /\ i + 0 = i /\ tasks'[i] = tasks[i] /\ Shows(i)' = Shows(i)
      BY <2>1, <3>1 DEF Shows
    <3> QED BY <2>1, <3>1, <3>2
  <2>2. CASE tasks # <<>> /\ tasks' = Tail(tasks)
    BY <2>2, TaskFacts DEF IInv
  <2> QED BY <2>1, <2>2
<1>3. Types'
  BY <1>1, <1>2 DEF IInv, Types, StateOK
<1>4. PostedOnce' /\ QueuedOnce'
  BY <1>1 DEF IInv, PostedOnce, QueuedOnce, QueueWaitsForOne, Asks
<1>5. WarningsSound'
  BY <1>1, <1>2 DEF IInv, WarningsSound, Sound, Answers
<1>6. OnePlace'
  <2>1. \A i \in DOMAIN tasks' : LiveShow(i)' => LiveShow(i + k)
    BY <1>1, <1>2 DEF LiveShow
  <2>2. \A i \in DOMAIN requests' : LiveAnswer(i)' <=> LiveAnswer(i)
    BY <1>1 DEF LiveAnswer, Answers
  <2>3. ~LiveWindow'
    BY DEF LiveWindow
  <2>4. \A i, j \in DOMAIN tasks' : LiveShow(i)' /\ LiveShow(j)' => i = j
    BY <1>2, <2>1 DEF IInv, OnePlace
  <2> QED BY <1>1, <1>2, <2>1, <2>2, <2>3, <2>4 DEF IInv, OnePlace
<1>7. CountdownsSound'
  BY <1>1, <1>2 DEF IInv, CountdownsSound, OwnCountdown
<1>8. HideComes'
  <2>1. CASE tasks' = tasks
    BY <1>1, <2>1 DEF IInv, HideComes, Shows, Hides
  <2>2. CASE tasks # <<>> /\ tasks' = Tail(tasks)
    BY <1>1, <2>2, HideStays DEF HideComes
  <2> QED BY <2>1, <2>2
<1> QED BY <1>3, <1>4, <1>5, <1>6, <1>7, <1>8 DEF IInv

\* The window goes and its answer is posted.
LEMMA CompleteKeeps ==
  ASSUME IInv, ~exiting, window # None, NEW kind \in {"cancel", "execute"},
         NEW how \in {"cancelled", "confirmed", "elapsed"}, Complete(kind, how),
         how = "elapsed" => countdown[window.event] = 0,
         tasks' = tasks \/ (tasks # <<>> /\ tasks' = Tail(tasks)),
         UNCHANGED thread, UNCHANGED <<countdown, exiting, interrupts, fate>>
  PROVE  IInv'
<1> DEFINE new == [kind |-> kind, event |-> window.event, generation |-> window.generation]
           n == Len(requests) + 1
<1>1. /\ UNCHANGED <<generation, runner, queue, open, enabled, countdown, exiting>>
      /\ UNCHANGED <<interrupts, fate, faults, lost>> /\ window' = None
      /\ answer' = [answer EXCEPT ![window.event] = how]
      /\ requests' = Append(requests, new)
  BY DEF thread, Complete, Post
<1>2. PICK k \in {0, 1} :
         /\ tasks' \in Seq(Tasks)
         /\ \A i \in DOMAIN tasks' :
               /\ i \in Nat /\ i + k \in DOMAIN tasks /\ tasks'[i] = tasks[i + k]
               /\ Shows(i)' = Shows(i + k)
  <2>1. CASE tasks' = tasks
    <3>1. tasks \in Seq(Tasks)
      BY DEF IInv, Types, StateOK
    <3>2. \A i \in DOMAIN tasks' : i \in Nat /\ i + 0 = i /\ tasks'[i] = tasks[i] /\ Shows(i)' = Shows(i)
      BY <2>1, <3>1 DEF Shows
    <3> QED BY <2>1, <3>1, <3>2
  <2>2. CASE tasks # <<>> /\ tasks' = Tail(tasks)
    BY <2>2, TaskFacts DEF IInv
  <2> QED BY <2>1, <2>2
<1>3. /\ window.event \in Events /\ window.generation \in Nat /\ requests \in Seq(Closures)
      /\ Sound(window)
  BY PlaceFacts DEF IInv, WarningsSound, Types, StateOK
<1>4. new \in Closures /\ new.kind = kind /\ new.event = window.event /\ new.generation = window.generation
  BY <1>3, MessageFacts
<1> HIDE DEF new
<1>5. /\ requests' \in Seq(Closures) /\ n \in DOMAIN requests' /\ requests'[n] = new
      /\ \A i \in DOMAIN requests : requests'[i] = requests[i]
      /\ \A i \in DOMAIN requests' : i \in DOMAIN requests \/ i = n
  BY <1>1, <1>3, <1>4, AppendFacts
<1> HIDE DEF n
<1>6. /\ \A i \in DOMAIN requests' : Asks(i)' =>
            i \in DOMAIN requests /\ requests'[i] = requests[i] /\ Asks(i)
      /\ \A i \in DOMAIN requests' : Answers(i)' =>
            \/ i \in DOMAIN requests /\ requests'[i] = requests[i] /\ Answers(i)
            \/ i = n /\ requests'[i] = new
  BY <1>4, <1>5 DEF Asks, Answers
<1>7. Types'
  <2>1. answer' \in [Events -> {"none", "cancelled", "confirmed", "elapsed"}]
    BY <1>1, <1>3 DEF IInv, Types, StateOK
  <2> QED BY <1>1, <1>2, <1>5, <2>1 DEF IInv, Types, StateOK
<1>8. PostedOnce' /\ QueuedOnce'
  BY <1>1, <1>6 DEF IInv, PostedOnce, QueuedOnce, QueueWaitsForOne
<1>9. WarningsSound'
  <2>1. \A i \in DOMAIN tasks' : Shows(i)' => Sound(tasks[i])'
    BY <1>1, <1>2 DEF IInv, WarningsSound, Sound
  <2>2. \A i \in DOMAIN requests' : Answers(i)' => Sound(requests[i])'
    BY <1>1, <1>3, <1>4, <1>6 DEF IInv, WarningsSound, Sound
  <2> QED BY <1>1, <2>1, <2>2 DEF WarningsSound
<1>10. OnePlace'
  <2>1. \A i \in DOMAIN tasks' : LiveShow(i)' => LiveShow(i + k)
    BY <1>1, <1>2 DEF LiveShow
  <2>2. \A i \in DOMAIN requests' : LiveAnswer(i)' =>
           (i \in DOMAIN requests /\ LiveAnswer(i)) \/ (i = n /\ LiveWindow)
    BY <1>1, <1>4, <1>6 DEF LiveAnswer, LiveWindow
  <2>3. ~LiveWindow'
    BY <1>1 DEF LiveWindow
  <2>4. \A i, j \in DOMAIN tasks' : LiveShow(i)' /\ LiveShow(j)' => i = j
    BY <1>2, <2>1 DEF IInv, OnePlace
  <2>5. \A i, j \in DOMAIN requests' : LiveAnswer(i)' /\ LiveAnswer(j)' => i = j
    BY <2>2 DEF IInv, OnePlace
  <2>6. \A i \in DOMAIN tasks', j \in DOMAIN requests' : ~(LiveShow(i)' /\ LiveAnswer(j)')
    BY <1>2, <2>1, <2>2 DEF IInv, OnePlace
  <2> QED BY <2>3, <2>4, <2>5, <2>6 DEF OnePlace
<1>11. CountdownsSound'
  <2>1. /\ \A e \in Events : fate[e] \in Early => e # window.event
        /\ \A e \in Events : answer'[e] = IF e = window.event THEN how ELSE answer[e]
    BY <1>1, <1>3 DEF Sound, IInv, Types, StateOK
  <2>2. \A e \in Events : fate'[e] \in Early => countdown'[e] = -1 /\ answer'[e] = "none"
    BY <1>1, <2>1 DEF IInv, CountdownsSound
  <2>3. \A i \in DOMAIN tasks' : tasks'[i].kind = "complete" => countdown'[tasks'[i].event] = 0
    BY <1>1, <1>2 DEF IInv, CountdownsSound
  <2>4. OwnCountdown'
    BY <1>1, <2>1 DEF IInv, CountdownsSound, OwnCountdown
  <2> QED BY <2>2, <2>3, <2>4 DEF CountdownsSound
<1>12. HideComes'
  <2>1. CASE tasks' = tasks
    BY <1>1, <2>1 DEF IInv, HideComes, Shows, Hides
  <2>2. CASE tasks # <<>> /\ tasks' = Tail(tasks)
    BY <1>1, <2>2, HideStays DEF HideComes
  <2> QED BY <2>1, <2>2
<1> QED BY <1>7, <1>8, <1>9, <1>10, <1>11, <1>12 DEF IInv

\* One task of the UI thread.
LEMMA UITaskKeeps == IInv /\ UITask => IInv'
<1> SUFFICES ASSUME IInv, UITask PROVE IInv'
  OBVIOUS
<1> DEFINE t == Head(tasks)
<1>1. /\ tasks # <<>> /\ tasks' = Tail(tasks) /\ ~exiting
      /\ UNCHANGED thread /\ UNCHANGED <<countdown, exiting, interrupts, fate>>
      /\ RunShow(t) \/ RunHide(t) \/ RunComplete(t)
  BY DEF UITask
<1>2. t = tasks[1] /\ t \in Tasks /\ 1 \in DOMAIN tasks
  BY <1>1, TaskFacts DEF IInv
<1>3. CASE RunShow(t)
  BY <1>1, <1>3, RunShowKeeps
<1>4. CASE RunHide(t)
  <2>1. window' = None /\ UNCHANGED <<requests, answer, faults>>
    BY <1>4 DEF RunHide
  <2>2. lost' = (lost \/ Outstanding)
    BY <1>4 DEF RunHide
  <2>3. lost' \in BOOLEAN
    BY <2>2, Zenon
  <2>4. faults' \in 0..MaxFaults
    BY <2>1 DEF IInv, Types, StateOK
  <2> HIDE DEF t
  <2> QED BY <1>1, <2>1, <2>3, <2>4, ClosingKeeps
<1>5. CASE RunComplete(t) /\ window # None /\ window.event = t.event
  <2>1. Complete("execute", "elapsed") /\ t.kind = "complete"
    BY <1>5 DEF RunComplete
  <2>2. countdown[window.event] = 0
    BY <1>2, <1>5, <2>1 DEF IInv, CountdownsSound
  <2> HIDE DEF t
  <2> QED BY <1>1, <1>5, <2>1, <2>2, CompleteKeeps
<1>6. CASE RunComplete(t) /\ ~(window # None /\ window.event = t.event)
  <2>1. UNCHANGED <<window, requests, answer, faults, lost>> /\ t.kind = "complete"
    BY <1>6 DEF RunComplete
  <2>2. UNCHANGED <<generation, runner, queue, open, enabled>> /\ ~Hides(1)
    BY <1>1, <1>2, <2>1 DEF thread, Hides
  <2>3. /\ tasks' \in Seq(Tasks)
        /\ \A i \in DOMAIN tasks' :
              /\ i \in Nat /\ i + 1 \in DOMAIN tasks /\ tasks'[i] = tasks[i + 1]
              /\ Shows(i)' = Shows(i + 1)
    BY <1>1, TaskFacts DEF IInv
  <2>4. Types'
    BY <1>1, <2>1, <2>2, <2>3 DEF IInv, Types, StateOK
  <2>5. PostedOnce' /\ QueuedOnce'
    BY <1>1, <2>1, <2>2 DEF IInv, PostedOnce, QueuedOnce, QueueWaitsForOne, Asks
  <2>6. WarningsSound'
    BY <1>1, <2>1, <2>2, <2>3 DEF IInv, WarningsSound, Sound, Answers
  <2>7. OnePlace'
    <3>1. \A i \in DOMAIN tasks' : LiveShow(i)' => LiveShow(i + 1)
      BY <2>2, <2>3 DEF LiveShow
    <3>2. \A i \in DOMAIN requests' : LiveAnswer(i)' <=> LiveAnswer(i)
      BY <2>1, <2>2 DEF LiveAnswer, Answers
    <3>3. LiveWindow' = LiveWindow
      BY <2>1, <2>2 DEF LiveWindow
    <3>4. \A i, j \in DOMAIN tasks' : LiveShow(i)' /\ LiveShow(j)' => i = j
      BY <2>3, <3>1 DEF IInv, OnePlace
    <3> QED BY <2>1, <2>3, <3>1, <3>2, <3>3, <3>4 DEF IInv, OnePlace
  <2>8. CountdownsSound'
    BY <1>1, <2>1, <2>3 DEF IInv, CountdownsSound, OwnCountdown
  <2>9. HideComes'
    <3>1. window # None /\ window.generation # generation => \E j \in DOMAIN tasks : Hides(j)
      BY <1>1 DEF IInv, HideComes
    <3> QED BY <1>1, <2>1, <2>2, <3>1, HideStays DEF HideComes
  <2> QED BY <2>4, <2>5, <2>6, <2>7, <2>8, <2>9 DEF IInv
<1> QED BY <1>1, <1>3, <1>4, <1>5, <1>6

\* A button or the close box answers the window.
LEMMA ClickKeeps == ASSUME IInv, NEW execute \in BOOLEAN, Click(execute) PROVE IInv'
<1>1. /\ window # None /\ ~exiting /\ tasks' = tasks
      /\ UNCHANGED thread /\ UNCHANGED <<countdown, exiting, interrupts, fate>>
      /\ Complete("execute", "confirmed") \/ Complete("cancel", "cancelled")
  BY DEF Click
<1>2. CASE Complete("execute", "confirmed")
  BY <1>1, <1>2, CompleteKeeps
<1>3. CASE Complete("cancel", "cancelled")
  BY <1>1, <1>3, CompleteKeeps
<1> QED BY <1>1, <1>2, <1>3

\* A failed change of scale closes the window.
LEMMA DpiFailureKeeps == IInv /\ DpiFailure => IInv'
<1> SUFFICES ASSUME IInv, DpiFailure PROVE IInv'
  OBVIOUS
<1>1. /\ ~exiting /\ window' = None /\ tasks' = tasks /\ Fault
      /\ UNCHANGED thread /\ UNCHANGED <<countdown, exiting, interrupts, fate, requests, answer>>
  BY DEF DpiFailure
<1>2. lost' = (lost \/ Outstanding)
  BY DEF DpiFailure
<1>3. lost' \in BOOLEAN
  BY <1>2, Zenon
<1>4. faults' \in 0..MaxFaults
  BY <1>1, EventsAssumption DEF Fault, IInv, Types, StateOK
<1> QED BY <1>1, <1>3, <1>4, ClosingKeeps

\* A second of a countdown passes; its last one posts the window's end.
LEMMA CountdownTickKeeps == ASSUME IInv, NEW e \in Events, CountdownTick(e) PROVE IInv'
<1> DEFINE new == [kind |-> "complete", event |-> e]
<1>1. /\ countdown[e] > 0 /\ ~exiting
      /\ countdown' = [countdown EXCEPT ![e] = @ - 1]
      /\ tasks' = IF countdown[e] = 1 THEN Append(tasks, new) ELSE tasks
      /\ UNCHANGED <<generation, runner, queue, open, enabled, requests, window>>
      /\ UNCHANGED <<exiting, interrupts, faults, fate, answer, lost>>
  BY DEF CountdownTick, thread
<1>2. /\ tasks \in Seq(Tasks) /\ DOMAIN countdown = Events
      /\ countdown[e] \in -1..Length(e) /\ Length(e) \in Nat
  BY LengthFacts DEF IInv, Types, StateOK
<1>3. new \in Tasks /\ new.kind = "complete" /\ new.event = e
  BY MessageFacts
<1> HIDE DEF new
<1>4. /\ tasks' \in Seq(Tasks)
      /\ \A i \in DOMAIN tasks : i \in DOMAIN tasks' /\ tasks'[i] = tasks[i]
      /\ \A i \in DOMAIN tasks' : i \in DOMAIN tasks \/ (tasks'[i] = new /\ countdown[e] = 1)
  <2>1. CASE countdown[e] = 1
    BY <1>1, <1>2, <1>3, <2>1, AppendFacts
  <2>2. CASE countdown[e] # 1
    BY <1>1, <1>2, <2>2
  <2> QED BY <2>1, <2>2
<1>5. /\ \A f \in Events : f # e => countdown'[f] = countdown[f]
      /\ countdown'[e] = countdown[e] - 1 /\ countdown'[e] \in 0..Length(e)
      /\ DOMAIN countdown' = Events /\ countdown' = [f \in Events |-> countdown'[f]]
  <2>1. countdown = [f \in Events |-> countdown[f]]
    BY DEF IInv, Types
  <2>2. DOMAIN countdown' = Events /\ countdown' = [f \in Events |-> countdown'[f]]
    BY <1>1, <2>1
  <2>3. \A f \in Events : f # e => countdown'[f] = countdown[f]
    BY <1>1, <1>2
  <2>4. countdown'[e] = countdown[e] - 1
    BY <1>1, <1>2
  <2>5. countdown'[e] \in 0..Length(e)
    BY <1>1, <1>2, <2>4
  <2> QED BY <2>2, <2>3, <2>4, <2>5
<1>6. \A i \in DOMAIN tasks' : Shows(i)' => i \in DOMAIN tasks /\ tasks'[i] = tasks[i] /\ Shows(i)
  BY <1>3, <1>4 DEF Shows
<1>7. Types'
  <2>1. \A f \in Events : countdown'[f] \in -1..Length(f)
    <3>1. \A f \in Events : countdown[f] \in -1..Length(f)
      BY DEF IInv, Types, StateOK
    <3> QED BY <1>2, <1>5, <3>1
  <2> QED BY <1>1, <1>4, <1>5, <2>1 DEF IInv, Types, StateOK
<1>8. PostedOnce' /\ QueuedOnce'
  BY <1>1 DEF IInv, PostedOnce, QueuedOnce, QueueWaitsForOne, Asks
<1>9. WarningsSound'
  BY <1>1, <1>6 DEF IInv, WarningsSound, Sound, Answers
<1>10. OnePlace'
  <2>1. \A i \in DOMAIN tasks' : LiveShow(i)' => i \in DOMAIN tasks /\ LiveShow(i)
    BY <1>1, <1>6 DEF LiveShow
  <2>2. \A i \in DOMAIN requests' : LiveAnswer(i)' <=> LiveAnswer(i)
    BY <1>1 DEF LiveAnswer, Answers
  <2>3. LiveWindow' = LiveWindow
    BY <1>1 DEF LiveWindow
  <2> QED BY <1>1, <2>1, <2>2, <2>3 DEF IInv, OnePlace
<1>11. CountdownsSound'
  <2>1. \A f \in Events : fate'[f] \in Early => countdown'[f] = -1 /\ answer'[f] = "none"
    BY <1>1, <1>5 DEF IInv, CountdownsSound
  <2>2. \A i \in DOMAIN tasks : tasks[i].kind = "complete" =>
           tasks[i].event \in Events /\ countdown[tasks[i].event] = 0
    BY PlaceFacts DEF IInv, CountdownsSound
  <2>3. \A i \in DOMAIN tasks' : tasks'[i].kind = "complete" => countdown'[tasks'[i].event] = 0
    BY <1>1, <1>3, <1>4, <1>5, <2>2
  <2>4. \A f \in Events : answer[f] = "elapsed" => f # e
    BY <1>1 DEF IInv, CountdownsSound, OwnCountdown
  <2>5. OwnCountdown'
    BY <1>1, <1>5, <2>4 DEF IInv, CountdownsSound, OwnCountdown
  <2> QED BY <2>1, <2>3, <2>5 DEF CountdownsSound
<1>12. HideComes'
  <2>1. \A i \in DOMAIN tasks : Hides(i) => i \in DOMAIN tasks' /\ Hides(i)'
    BY <1>4 DEF Hides
  <2> QED BY <1>1, <1>6, <2>1 DEF IInv, HideComes
<1> QED BY <1>7, <1>8, <1>9, <1>10, <1>11, <1>12 DEF IInv

\* A closure is posted that neither asks nor answers, and the tasks stay or are
\* discarded by the tray's end.
LEMMA PostingKeeps ==
  ASSUME IInv, NEW closure \in Closures, Post(closure),
         closure.kind \notin {"event", "cancel", "execute"},
         interrupts' \in 0..MaxInterrupts,
         \/ UNCHANGED <<tasks, exiting>>
         \/ tasks' = <<>> /\ exiting' = TRUE,
         UNCHANGED thread, UNCHANGED <<window, countdown, faults, fate, answer, lost>>
  PROVE  IInv'
<1>1. requests \in Seq(Closures) /\ tasks \in Seq(Tasks) /\ requests' = Append(requests, closure)
  BY DEF IInv, Types, StateOK, Post
<1>2. /\ requests' \in Seq(Closures)
      /\ \A i \in DOMAIN requests' : Asks(i)' \/ Answers(i)' =>
            /\ i \in DOMAIN requests /\ requests'[i] = requests[i]
            /\ Asks(i)' = Asks(i) /\ Answers(i)' = Answers(i)
  BY <1>1, AppendFacts DEF Asks, Answers
<1>3. /\ tasks' \in Seq(Tasks) /\ exiting' \in BOOLEAN
      /\ \A i \in DOMAIN tasks' : i \in DOMAIN tasks /\ tasks'[i] = tasks[i] /\ Shows(i)' = Shows(i)
  <2>1. CASE UNCHANGED <<tasks, exiting>>
    BY <1>1, <2>1 DEF Shows, IInv, Types, StateOK
  <2>2. CASE tasks' = <<>> /\ exiting' = TRUE
    BY <2>2
  <2> QED BY <2>1, <2>2
<1>4. UNCHANGED <<generation, runner, queue, open, enabled>>
  BY DEF thread
<1>5. Types'
  BY <1>2, <1>3, <1>4 DEF IInv, Types, StateOK
<1>6. PostedOnce' /\ QueuedOnce'
  BY <1>2, <1>4 DEF IInv, PostedOnce, QueuedOnce, QueueWaitsForOne
<1>7. WarningsSound'
  BY <1>2, <1>3, <1>4 DEF IInv, WarningsSound, Sound
<1>8. OnePlace'
  BY <1>2, <1>3, <1>4 DEF IInv, OnePlace, LiveShow, LiveAnswer, LiveWindow
<1>9. CountdownsSound'
  BY <1>3 DEF IInv, CountdownsSound, OwnCountdown
<1>10. HideComes'
  BY <1>4 DEF IInv, HideComes, Shows, Hides
<1> QED BY <1>5, <1>6, <1>7, <1>8, <1>9, <1>10 DEF IInv

\* A rule change, a reload or a language switch posts its closure.
LEMMA InterruptKeeps ==
  IInv /\ ((\E enable \in BOOLEAN : PostRestart(enable)) \/ PostLanguage) => IInv'
<1> SUFFICES ASSUME IInv, (\E enable \in BOOLEAN : PostRestart(enable)) \/ PostLanguage
             PROVE  IInv'
  OBVIOUS
<1>1. PICK closure \in Closures :
         Post(closure) /\ closure.kind \notin {"event", "cancel", "execute"}
  <2>1. CASE PostLanguage
    BY <2>1, MessageFacts DEF PostLanguage
  <2>2. CASE \E enable \in BOOLEAN : PostRestart(enable)
    BY <2>2, MessageFacts DEF PostRestart
  <2> QED BY <2>1, <2>2
<1>2. /\ interrupts < MaxInterrupts /\ interrupts' = interrupts + 1
      /\ UNCHANGED <<tasks, exiting>>
      /\ UNCHANGED thread /\ UNCHANGED <<window, countdown, faults, fate, answer, lost>>
  BY DEF PostRestart, PostLanguage
<1>3. interrupts' \in 0..MaxInterrupts
  BY <1>2, EventsAssumption DEF IInv, Types, StateOK
<1> QED BY <1>1, <1>2, <1>3, PostingKeeps

\* The tray ends.
LEMMA ExitKeeps == IInv /\ Exit => IInv'
<1> SUFFICES ASSUME IInv, Exit PROVE IInv'
  OBVIOUS
<1>1. /\ exiting' = TRUE /\ tasks' = <<>> /\ Post([kind |-> "shutdown"])
      /\ UNCHANGED thread /\ UNCHANGED <<window, countdown, interrupts, faults, fate, answer, lost>>
  BY DEF Exit
<1>2. interrupts' \in 0..MaxInterrupts
  BY <1>1 DEF IInv, Types, StateOK
<1>3. [kind |-> "shutdown"] \in Closures /\ "shutdown" \notin {"event", "cancel", "execute"}
  BY MessageFacts
<1> DEFINE closure == [kind |-> "shutdown"]
<1>4. closure.kind = "shutdown" /\ closure \in Closures /\ Post(closure)
  BY <1>1, <1>3
<1> HIDE DEF closure
<1> QED BY <1>1, <1>2, <1>3, <1>4, PostingKeeps

\* The runner hands an occurrence over.
LEMMA RunnerEventKeeps == ASSUME IInv, NEW e \in Events, RunnerEvent(e) PROVE IInv'
<1> DEFINE new == [kind |-> "event", event |-> e, generation |-> generation]
           n == Len(requests) + 1
<1>1. /\ fate[e] = "none" /\ requests' = Append(requests, new)
      /\ fate' = [fate EXCEPT ![e] = "posted"]
      /\ UNCHANGED <<generation, runner, queue, open, enabled, tasks, window>>
      /\ UNCHANGED <<countdown, exiting, interrupts, faults, answer, lost>>
  BY DEF RunnerEvent, Post, thread
<1>2. /\ requests \in Seq(Closures) /\ generation \in Nat
      /\ fate \in [Events -> {"none", "posted", "queued", "warned"} \cup Final]
  BY DEF IInv, Types, StateOK
<1>3. new \in Closures /\ new.kind = "event" /\ new.event = e
  BY <1>2, MessageFacts
<1> HIDE DEF new
<1>4. /\ requests' \in Seq(Closures) /\ n \in DOMAIN requests' /\ requests'[n] = new
      /\ \A i \in DOMAIN requests' :
            (i \in DOMAIN requests /\ requests'[i] = requests[i]) \/ (i = n /\ requests'[i] = new)
  BY <1>1, <1>2, <1>3, AppendFacts
<1> HIDE DEF n
<1>5. \A f \in Events : fate'[f] = IF f = e THEN "posted" ELSE fate[f]
  BY <1>1, <1>2
<1>6. /\ \A i \in DOMAIN requests' : Asks(i)' =>
            \/ i \in DOMAIN requests /\ requests'[i] = requests[i] /\ Asks(i)
            \/ i = n /\ requests'[i] = new
      /\ \A i \in DOMAIN requests' : Answers(i)' =>
            i \in DOMAIN requests /\ requests'[i] = requests[i] /\ Answers(i)
  BY <1>3, <1>4 DEF Asks, Answers
<1>7. /\ \A i \in DOMAIN requests : Asks(i) \/ Answers(i) => requests[i].event \in Events
      /\ \A i \in DOMAIN tasks : Shows(i) => tasks[i].event \in Events
      /\ \A i \in DOMAIN queue : queue[i] \in Events
      /\ window # None => window.event \in Events
  BY PlaceFacts DEF IInv
<1>8. Types'
  <2>1. fate' \in [Events -> {"none", "posted", "queued", "warned"} \cup Final]
    BY <1>1, <1>2
  <2> QED BY <1>1, <1>4, <2>1 DEF IInv, Types, StateOK
<1>9. PostedOnce'
  <2>1. \A i \in DOMAIN requests : Asks(i) => requests[i].event # e
    BY <1>1 DEF IInv, PostedOnce
  <2> QED BY <1>3, <1>5, <1>6, <1>7, <2>1 DEF IInv, PostedOnce
<1>10. QueuedOnce'
  BY <1>1, <1>5, <1>7 DEF IInv, QueuedOnce, QueueWaitsForOne
<1>11. WarningsSound'
  <2>1. ASSUME NEW w, w.event \in Events, Sound(w)
        PROVE  /\ w.generation <= generation /\ fate'[w.event] \notin Early
               /\ w.generation = generation => open /\ fate'[w.event] = "warned"
    BY <1>1, <1>5, <2>1 DEF Sound, Early
  <2>2. /\ \A i \in DOMAIN tasks' : Shows(i)' => Sound(tasks[i])'
        /\ window' # None => Sound(window)'
    BY <1>1, <1>7, <2>1 DEF IInv, WarningsSound, Sound, Shows
  <2>3. \A i \in DOMAIN requests' : Answers(i)' => Sound(requests[i])'
    BY <1>1, <1>6, <1>7, <2>1 DEF IInv, WarningsSound, Sound
  <2> QED BY <2>2, <2>3 DEF WarningsSound
<1>12. OnePlace'
  <2>1. \A i \in DOMAIN requests' : LiveAnswer(i)' => i \in DOMAIN requests /\ LiveAnswer(i)
    BY <1>1, <1>6 DEF LiveAnswer
  <2> QED BY <1>1, <2>1 DEF IInv, OnePlace, LiveShow, LiveWindow, Shows
<1>13. CountdownsSound'
  BY <1>1, <1>5 DEF IInv, CountdownsSound, OwnCountdown, Early
<1>14. HideComes'
  BY <1>1 DEF IInv, HideComes, Shows, Hides
<1> QED BY <1>8, <1>9, <1>10, <1>11, <1>12, <1>13, <1>14 DEF IInv
-----------------------------------------------------------------------------
(* Invariance *)

\* The automation events begin sound.
LEMMA InitIInv == Init => IInv
<1> SUFFICES ASSUME Init PROVE IInv
  OBVIOUS
<1>1. /\ requests = <<>> /\ tasks = <<>> /\ queue = <<>> /\ window = None
      /\ \A e \in Events : countdown[e] = -1 /\ fate[e] = "none" /\ answer[e] = "none"
  BY DEF Init
<1>2. Types
  <2>1. \A e \in Events : countdown[e] \in -1..Length(e)
    <3>1. ASSUME NEW e \in Events PROVE -1 \in -1..Length(e)
      BY LengthFacts
    <3> QED BY <1>1, <3>1
  <2>2. DOMAIN countdown = Events /\ countdown = [e \in Events |-> countdown[e]]
    BY DEF Init
  <2>3. requests \in Seq(Closures) /\ tasks \in Seq(Tasks) /\ queue \in Seq(Events)
    BY <1>1
  <2>4. /\ fate \in [Events -> {"none", "posted", "queued", "warned"} \cup Final]
        /\ answer \in [Events -> {"none", "cancelled", "confirmed", "elapsed"}]
    BY DEF Init
  <2>5. generation \in Nat /\ generation >= 1 /\ interrupts \in 0..MaxInterrupts /\ faults \in 0..MaxFaults
    BY EventsAssumption DEF Init
  <2>6. runner \in BOOLEAN /\ open \in BOOLEAN /\ exiting \in BOOLEAN /\ lost \in BOOLEAN
    BY DEF Init
  <2>7. enabled \subseteq Once /\ window \in [event: Events, generation: Nat] \cup {None}
    BY DEF Init
  <2> QED BY <2>1, <2>2, <2>3, <2>4, <2>5, <2>6, <2>7 DEF Types, StateOK
<1>3. PostedOnce /\ QueuedOnce
  BY <1>1 DEF PostedOnce, QueuedOnce, QueueWaitsForOne
<1>4. WarningsSound /\ HideComes
  BY <1>1 DEF WarningsSound, HideComes
<1>5. OnePlace
  BY <1>1 DEF OnePlace, LiveWindow
<1>6. CountdownsSound
  BY <1>1 DEF CountdownsSound, OwnCountdown
<1> QED BY <1>2, <1>3, <1>4, <1>5, <1>6 DEF IInv

\* Every step keeps the invariant.
LEMMA NextIInv == IInv /\ [Next]_vars => IInv'
<1> SUFFICES ASSUME IInv, [Next]_vars PROVE IInv'
  OBVIOUS
<1>1. CASE \E e \in Events : RunnerEvent(e)
  BY <1>1, RunnerEventKeeps
<1>2. CASE (\E enable \in BOOLEAN : PostRestart(enable)) \/ PostLanguage
  BY <1>2, InterruptKeeps
<1>3. CASE RequestLoop
  BY <1>3, RequestLoopKeeps
<1>4. CASE UITask
  BY <1>4, UITaskKeeps
<1>5. CASE \E execute \in BOOLEAN : Click(execute)
  BY <1>5, ClickKeeps
<1>6. CASE DpiFailure
  BY <1>6, DpiFailureKeeps
<1>7. CASE Countdowns
  BY <1>7, CountdownTickKeeps DEF Countdowns
<1>8. CASE Exit
  BY <1>8, ExitKeeps
<1>9. CASE UNCHANGED vars
  <2>1. /\ UNCHANGED <<generation, runner, queue, open, enabled, requests, tasks, window>>
        /\ UNCHANGED <<countdown, exiting, interrupts, faults, fate, answer, lost>>
    BY <1>9 DEF vars, thread
  <2>2. Types' /\ PostedOnce' /\ QueuedOnce'
    BY <2>1 DEF IInv, Types, StateOK, PostedOnce, QueuedOnce, QueueWaitsForOne, Asks
  <2>3. WarningsSound' /\ CountdownsSound'
    BY <2>1 DEF IInv, WarningsSound, Sound, Shows, Answers, CountdownsSound, OwnCountdown
  <2>4. OnePlace' /\ HideComes'
    BY <2>1 DEF IInv, OnePlace, LiveShow, LiveWindow, LiveAnswer, HideComes, Shows, Hides, Answers
  <2> QED BY <2>2, <2>3, <2>4 DEF IInv
<1> QED BY <1>1, <1>2, <1>3, <1>4, <1>5, <1>6, <1>7, <1>8, <1>9 DEF Next

\* The inductive invariant of the automation events: every event is in one
\* place, and a warning of the live generation is the outstanding one.
THEOREM Invariance == Spec => []IInv
BY InitIInv, NextIInv, PTL DEF Spec
-----------------------------------------------------------------------------
(* The properties *)

\* How often an event was carried out
ExecutionsCounted == executions \in [Events -> Nat]

\* The action of an event is carried out once its warning, the outstanding one,
\* was confirmed or has elapsed, and by nothing else.
LEMMA ExecutionFacts ==
  ASSUME IInv, ExecutionsCounted, [Next]_vars
  PROVE  /\ ExecutionsCounted'
         /\ \A e \in Events : executions'[e] # executions[e] =>
               /\ fate[e] = "warned" /\ fate'[e] = "executed"
               /\ executions'[e] = executions[e] + 1
<1> DEFINE c == Head(requests)
<1>1. CASE UNCHANGED executions
  BY <1>1 DEF ExecutionsCounted
<1>2. CASE RequestLoop /\ RunExecute(c)
  <2>1. /\ requests # <<>> /\ requests' = Tail(requests)
        /\ c = requests[1] /\ c \in Closures /\ 1 \in DOMAIN requests
    BY <1>2, TakeFacts DEF RequestLoop, IInv
  <2>2. CASE Ignore(c)
    BY <1>1, <2>2 DEF Ignore
  <2>3. CASE ~Ignore(c)
    <3>1. /\ Accepts(c) /\ c.kind = "execute"
          /\ executions' = [executions EXCEPT ![c.event] = @ + 1]
          /\ fate' = [x \in Events |->
                 IF x = c.event THEN "executed"
                 ELSE IF fate[x] = "queued" THEN "cleared" ELSE fate[x]]
      BY <1>2, <2>3 DEF RunExecute, Execute
    <3>2. fate[c.event] = "warned" /\ c.event \in Events
      BY <2>1, <3>1, AcceptedFacts, PlaceFacts DEF Answers, IInv
    <3>3. /\ executions' \in [Events -> Nat]
          /\ \A e \in Events : executions'[e] =
                IF e = c.event THEN executions[e] + 1 ELSE executions[e]
      BY <3>1, <3>2 DEF ExecutionsCounted
    <3> QED BY <3>1, <3>2, <3>3 DEF ExecutionsCounted
  <2> QED BY <2>2, <2>3
<1>3. CASE RequestLoop /\ ~RunExecute(c)
  <2>1. CASE RunEvent(c) \/ RunCancel(c) \/ RunLanguage(c)
    BY <1>1, <2>1 DEF RunEvent, RunCancel, Ignore, RunLanguage
  <2>2. CASE RunRestart(c) \/ RunShutdown(c)
    BY <1>1, <2>2 DEF RunRestart, RunShutdown, StopAutomation
  <2> QED BY <1>3, <2>1, <2>2 DEF RequestLoop
<1>4. CASE UITask \/ DpiFailure \/ Countdowns \/ Exit \/ PostLanguage
  BY <1>1, <1>4 DEF UITask, DpiFailure, Countdowns, CountdownTick, Exit, PostLanguage
<1>5. ASSUME NEW f \in Events, RunnerEvent(f) PROVE UNCHANGED executions
  BY <1>5 DEF RunnerEvent
<1>6. ASSUME NEW b \in BOOLEAN, Click(b) \/ PostRestart(b) PROVE UNCHANGED executions
  BY <1>6 DEF Click, PostRestart
<1>7. CASE UNCHANGED vars
  BY <1>1, <1>7 DEF vars
<1> QED BY <1>1, <1>2, <1>3, <1>4, <1>5, <1>6, <1>7 DEF Next

\* How often an event was carried out is a number.
THEOREM Counting == Spec => []ExecutionsCounted
<1>1. Init => ExecutionsCounted
  BY DEF Init, ExecutionsCounted
<1>2. IInv /\ ExecutionsCounted /\ [Next]_vars => ExecutionsCounted'
  BY ExecutionFacts
<1> QED BY <1>1, <1>2, Invariance, PTL DEF Spec

\* The queue, the countdowns and the window on the screen agree on which warning
\* is outstanding: events wait only behind one, an elapsed answer is the
\* window's own, and a window is the outstanding warning or about to be closed.
THEOREM WarningsAgree == Spec => []WarningsAreSound
<1>1. IInv /\ ExecutionsCounted => WarningsAreSound
  <2> SUFFICES ASSUME IInv, ExecutionsCounted PROVE WarningsAreSound
    OBVIOUS
  <2>1. StateOK /\ QueueWaitsForOne /\ OwnCountdown
    BY DEF IInv, Types, QueuedOnce, CountdownsSound
  <2>2. WindowBelongs
    BY DEF IInv, WarningsSound, Sound, HideComes, Hides, WindowBelongs, Outstanding
  <2> QED BY <2>1, <2>2 DEF WarningsAreSound, TypeOK, ExecutionsCounted
<1> QED BY <1>1, Invariance, Counting, PTL

\* What was decided of an event stays decided, whatever answer comes late and
\* whatever restarts: only an event that waits or whose warning is outstanding
\* is decided of, and what was carried out, cancelled, cleared or dropped is not
\* carried out again.
THEOREM DecisionsAreFinal == Spec => FatesAreFinal
<1> DEFINE Kept == \A e \in Events : fate[e] \in Final => fate'[e] = fate[e]
           Fates == \A e \in Events :
                       /\ fate[e] \in Final =>
                             fate'[e] = fate[e] /\ executions'[e] = executions[e]
                       /\ executions'[e] # executions[e] =>
                             fate'[e] = "executed" /\ executions'[e] = executions[e] + 1
<1>1. IInv /\ [Next]_vars => Kept
  <2> SUFFICES ASSUME IInv, [Next]_vars, NEW e \in Events, fate[e] \in Final
               PROVE  fate'[e] = fate[e]
    OBVIOUS
  <2> USE DEF Final
  <2>1. CASE UNCHANGED fate
    BY <2>1
  <2>2. ASSUME NEW f \in Events, RunnerEvent(f) PROVE fate'[e] = fate[e]
    BY <2>2 DEF RunnerEvent, IInv, Types, StateOK
  <2>3. CASE RequestLoop
    <3> DEFINE c == Head(requests)
    <3>1. /\ requests # <<>> /\ requests' = Tail(requests)
          /\ c = requests[1] /\ c \in Closures /\ 1 \in DOMAIN requests
      BY <2>3, TakeFacts DEF RequestLoop, IInv
    <3>2. /\ queue \in Seq(Events) /\ fate \in [Events -> {"none", "posted", "queued", "warned"} \cup Final]
          /\ \A i \in DOMAIN queue : fate[queue[i]] = "queued"
      BY DEF IInv, Types, StateOK, QueuedOnce
    <3>3. queue # <<>> => Head(queue) \in Events /\ fate[Head(queue)] = "queued"
      BY <3>2, TailFacts
    <3>4. CASE RunEvent(c)
      <4>1. c.event \in Events /\ fate[c.event] = "posted"
        BY <3>1, <3>4, PlaceFacts DEF IInv, PostedOnce, Asks, RunEvent
      <4>2. Head(Append(queue, c.event)) \in {Head(queue), c.event} /\
            (queue = <<>> => Head(Append(queue, c.event)) = c.event)
        BY <3>2, <4>1
      <4>3. e # c.event /\ e # Head(Append(queue, c.event))
        BY <3>3, <4>1, <4>2
      <4>4. \/ fate' = [fate EXCEPT ![c.event] = "queued"]
            \/ fate' = [fate EXCEPT ![c.event] = "dropped"]
            \/ fate' = [fate EXCEPT ![c.event] = "queued",
                                    ![Head(Append(queue, c.event))] = "warned"]
        BY <3>4 DEF RunEvent
      <4> QED BY <3>2, <4>3, <4>4
    <3>5. CASE RunCancel(c)
      <4>1. CASE Ignore(c)
        BY <4>1 DEF Ignore
      <4>2. CASE ~Ignore(c)
        <5>1. /\ Accepts(c)
              /\ fate' = [x \in Events |->
                     IF x = c.event THEN "cancelled"
                     ELSE IF queue # <<>> /\ x = Head(queue) THEN "warned"
                     ELSE fate[x]]
          BY <3>5, <4>2 DEF RunCancel
        <5>2. fate[c.event] = "warned"
          BY <3>1, <3>5, <5>1, AcceptedFacts DEF RunCancel, Answers
        <5> QED BY <3>3, <5>1, <5>2
      <4> QED BY <4>1, <4>2
    <3>6. CASE RunExecute(c)
      <4>1. CASE Ignore(c)
        BY <4>1 DEF Ignore
      <4>2. CASE ~Ignore(c)
        <5>1. /\ Accepts(c)
              /\ fate' = [x \in Events |->
                     IF x = c.event THEN "executed"
                     ELSE IF fate[x] = "queued" THEN "cleared" ELSE fate[x]]
          BY <3>6, <4>2 DEF RunExecute, Execute
        <5>2. fate[c.event] = "warned"
          BY <3>1, <3>6, <5>1, AcceptedFacts DEF RunExecute, Execute, Answers
        <5> QED BY <5>1, <5>2
      <4> QED BY <4>1, <4>2
    <3>7. CASE RunRestart(c) \/ RunShutdown(c)
      BY <3>7 DEF RunRestart, RunShutdown, StopAutomation, Turn
    <3>8. CASE RunLanguage(c)
      BY <3>8 DEF RunLanguage
    <3> QED BY <2>3, <3>4, <3>5, <3>6, <3>7, <3>8 DEF RequestLoop
  <2>4. CASE UITask \/ DpiFailure \/ Countdowns \/ Exit \/ PostLanguage
    BY <2>4 DEF UITask, DpiFailure, Countdowns, CountdownTick, Exit, PostLanguage
  <2>5. ASSUME NEW b \in BOOLEAN, Click(b) \/ PostRestart(b) PROVE fate'[e] = fate[e]
    BY <2>5 DEF Click, PostRestart
  <2>6. CASE UNCHANGED vars
    BY <2>6 DEF vars
  <2> QED BY <2>2, <2>3, <2>4, <2>5, <2>6 DEF Next
<1>2. IInv /\ ExecutionsCounted /\ [Next]_vars => Fates
  <2> SUFFICES ASSUME IInv, ExecutionsCounted, [Next]_vars, NEW e \in Events
               PROVE  /\ fate[e] \in Final =>
                            fate'[e] = fate[e] /\ executions'[e] = executions[e]
                      /\ executions'[e] # executions[e] =>
                            fate'[e] = "executed" /\ executions'[e] = executions[e] + 1
    OBVIOUS
  <2>1. fate[e] \in Final => fate'[e] = fate[e] /\ fate[e] # "warned"
    BY <1>1 DEF Final
  <2>2. executions'[e] # executions[e] =>
           /\ fate[e] = "warned" /\ fate'[e] = "executed"
           /\ executions'[e] = executions[e] + 1
    BY ExecutionFacts
  <2> QED BY <2>1, <2>2
<1>3. IInv /\ ExecutionsCounted /\ [Next]_vars => [Fates]_vars
  BY <1>2
<1> QED BY <1>3, Invariance, Counting, PTL DEF Spec, FatesAreFinal
=============================================================================
