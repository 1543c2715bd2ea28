--------------------------- MODULE Program_proofs ---------------------------
(***************************************************************************)
(* Safety of the program among other processes, for a request channel of   *)
(* any capacity and any number of clients, changes and sizes: who may wait *)
(* for whom, and what is left of a program when the next one runs.         *)
(***************************************************************************)
EXTENDS Program, SequenceTheorems, TLAPS

(* The request loop *)

Steps == {"stop", "start"} \X Workers \cup {Sync, Resume, MayFail, Dialog, Icon}

\* The closures that were sent and not taken, in their order
Queued(i) ==
    IF i <= Len(requests) THEN requests[i] ELSE senders[i - Len(requests)].kind
Places == 1 .. (Len(requests) + Len(senders))

\* The loop has work only while it serves something
ServesInTurn ==
    /\ startup = "before" => serving = "none"
    /\ serving = "none" => work = <<>>
    /\ at["hotkey"] = "register" => work # <<>> /\ Head(work) = Start("hotkey")

\* Who waits for the UI thread, and the UI thread itself, are not in a send
SendsInTurn ==
    /\ at["monitor"] \in {"ask", "act"} => ~Blocked("monitor")
    /\ ui \in {"closing", "lock"} => ~Blocked("ui")
    /\ Closing => ~hide

\* The UI thread waits for the one save there is
SaveIsAwaited ==
    /\ \A i, j \in Places : Queued(i) = "save" /\ Queued(j) = "save" => i = j
    /\ \A i \in Places : Queued(i) = "save" => ui = "reply" /\ serving # "save"
    /\ serving = "save" => ui = "reply"

\* An exit waits for its closure, which leaves no thread behind
ExitStops ==
    /\ ui # "gone" =>
          /\ \A i \in Places : Queued(i) = "shutdown" => ui = "call"
          /\ serving = "shutdown" => ui = "call"
    /\ serving = "shutdown" =>
          /\ \A i \in DOMAIN work : \E t \in Workers : work[i] = Stop(t)
          /\ \A t \in Workers : at[t] = "off" \/ \E i \in DOMAIN work : work[i] = Stop(t)
    /\ ui = "gone" => \A t \in Workers : at[t] = "off"

LoopInv == TypeOK /\ ServesInTurn /\ SendsInTurn /\ SaveIsAwaited /\ ExitStops

(* The clients *)

Pending == Len(requests) + Len(senders) + IF serving \in ClientKinds \cup {"shutdown"} THEN 1 ELSE 0

\* Among clients the loop serves them, and nobody else but the exit: a closure is
\* that of one caller
CallersAreServed ==
    scene = "clients" =>
        /\ \A i \in Places : Queued(i) \in ClientKinds \cup {"shutdown"}
        /\ serving \in ClientKinds \cup {"shutdown", "none", "startup"}
        /\ \A i \in DOMAIN senders : senders[i].from \in {"other", "ui"}
        /\ at["monitor"] = "off" /\ ui # "reply"
        /\ ui = "call" => serving = "shutdown" \/ \E i \in Places : Queued(i) = "shutdown"
        /\ ui # "gone" => Pending = Len(callers) + IF ui = "call" THEN 1 ELSE 0

PipeInv ==
    /\ Pipe!TypeOK /\ scene \in {"threads", "clients", "shell"}
    /\ CallersAreServed
    /\ \A i \in DOMAIN callers : client[callers[i]] = "calling"
    /\ life # "up" => ui = "gone" \/ scene = "shell"
    /\ \A c \in Launches : client[c] = "primary" => ui = "gone"
    /\ scene # "clients" => \A c \in Launches \cup Commands : client[c] = "new"

(* The icon *)

SidesOrLargest == Sides \cup {Tray!Fallback}
AnyImage == (Tray!Themes \cup {"none"}) \X (Sides \cup {Tray!Fallback, "none"})

Shapes ==
    /\ tray \in [life: {"new", "there", "gone"}, started: BOOLEAN,
                 icon: Tray!Images \cup {Tray!NoImage}, key: Tray!Images \cup {Tray!NoImage}]
    /\ shell \in [up: BOOLEAN, shows: Tray!Images \cup {<<"blank">>, Tray!NoImage},
                  side: Sides, coming: Sides]
    /\ seen \in [refused: BOOLEAN, lost: BOOLEAN, moves: 0 .. MaxMoves]
    /\ job["loop"].at \in {"set", "tip"} => job["loop"].image \in Tray!Images
    /\ job["loop"].at \in {"rest", "set", "tip"}
    /\ job["ui"].at = "set" => job["ui"].image[2] \in SidesOrLargest

TrayTypes == Tray!TypeOK /\ Shapes

\* The icon Explorer has been given is that of nid and of trayIconKey
IconIsShown ==
    /\ tray.life = "gone" => shell.shows = Tray!NoImage
    /\ seen.refused \/ tray.icon = tray.key
    /\ shell.shows \in Tray!Images => seen.refused \/ shell.shows = tray.key

IconGoesFirst ==
    scene = "shell" => (Exiting <=> tray.life = "gone") /\ (life = "ended" => Exiting)

TrayInv == TrayTypes /\ IconIsShown /\ IconGoesFirst

IInv == LoopInv /\ PipeInv /\ TrayInv
-----------------------------------------------------------------------------
(* Sequences *)

\* The rest of a sequence has its elements but the first, one place earlier.
LEMMA TailFacts ==
  ASSUME NEW S, NEW s \in Seq(S), s # <<>>
  PROVE  /\ Head(s) = s[1] /\ Head(s) \in S /\ Len(s) \in Nat /\ Len(s) >= 1
         /\ Tail(s) \in Seq(S) /\ Len(Tail(s)) = Len(s) - 1
         /\ \A i \in DOMAIN Tail(s) : i \in Nat /\ i + 1 \in DOMAIN s /\ Tail(s)[i] = s[i + 1]
         /\ \A i \in DOMAIN s : i # 1 => i - 1 \in DOMAIN Tail(s) /\ Tail(s)[i - 1] = s[i]
OBVIOUS

\* A longer sequence has the old elements and the new one at its end.
LEMMA AppendFacts ==
  ASSUME NEW S, NEW s \in Seq(S), NEW x \in S
  PROVE  /\ Append(s, x) \in Seq(S) /\ Len(Append(s, x)) = Len(s) + 1 /\ Len(s) \in Nat
         /\ Append(s, x) # <<>> /\ DOMAIN s = 1 .. Len(s)
         /\ \A i \in 1 .. Len(s) : Append(s, x)[i] = s[i]
         /\ Append(s, x)[Len(s) + 1] = x
OBVIOUS

\* Without one of its elements a sequence has the others, in their order.
LEMMA RemoveFacts ==
  ASSUME NEW S, NEW s \in Seq(S), NEW k \in DOMAIN s
  PROVE  /\ RemoveAt(s, k) \in Seq(S) /\ Len(RemoveAt(s, k)) = Len(s) - 1
         /\ Len(s) \in Nat /\ k \in 1 .. Len(s)
         /\ \A i \in 1 .. Len(s) - 1 : RemoveAt(s, k)[i] = IF i < k THEN s[i] ELSE s[i + 1]
<1> DEFINE a == SubSeq(s, 1, k - 1)
           b == SubSeq(s, k + 1, Len(s))
<1>1. /\ Len(s) \in Nat /\ k \in 1 .. Len(s) /\ DOMAIN s = 1 .. Len(s)
      /\ \A i \in 1 .. Len(s) : s[i] \in S
  OBVIOUS
<1>2. a \in Seq(S) /\ Len(a) = k - 1 /\ \A i \in 1 .. k - 1 : a[i] = s[i]
  BY <1>1
<1>3. b \in Seq(S) /\ Len(b) = Len(s) - k /\ \A i \in 1 .. Len(s) - k : b[i] = s[k + i]
  <2>1. k + 1 \in Int /\ Len(s) \in Int /\ \A i \in k + 1 .. Len(s) : s[i] \in S
    BY <1>1
  <2>2. /\ b \in Seq(S) /\ Len(b) = IF k + 1 <= Len(s) THEN Len(s) - (k + 1) + 1 ELSE 0
        /\ \A i \in 1 .. Len(s) - (k + 1) + 1 : b[i] = s[(k + 1) + i - 1]
    BY <2>1, SubSeqProperties
  <2> HIDE DEF b
  <2>3. \A i \in 1 .. Len(s) - k : i \in 1 .. Len(s) - (k + 1) + 1 /\ (k + 1) + i - 1 = k + i
    BY <1>1
  <2> QED BY <1>1, <2>2, <2>3
<1> HIDE DEF a, b
<1>4. /\ a \o b \in Seq(S) /\ Len(a \o b) = Len(s) - 1
      /\ \A i \in 1 .. Len(s) - 1 : (a \o b)[i] = IF i <= k - 1 THEN a[i] ELSE b[i - (k - 1)]
  <2>1. /\ a \o b \in Seq(S) /\ Len(a \o b) = Len(a) + Len(b)
        /\ \A i \in 1 .. Len(a) + Len(b) : (a \o b)[i] = IF i <= Len(a) THEN a[i] ELSE b[i - Len(a)]
    BY <1>2, <1>3, ConcatProperties
  <2>2. Len(a) + Len(b) = Len(s) - 1
    BY <1>1, <1>2, <1>3
  <2> QED BY <1>2, <2>1, <2>2
<1>5. ASSUME NEW i \in 1 .. Len(s) - 1 PROVE (a \o b)[i] = IF i < k THEN s[i] ELSE s[i + 1]
  <2>1. CASE i < k
    BY <1>1, <1>2, <1>4, <2>1
  <2>2. CASE ~(i < k)
    <3>1. i - (k - 1) \in 1 .. Len(s) - k /\ k + (i - (k - 1)) = i + 1
      BY <1>1, <2>2
    <3> QED BY <1>1, <1>3, <1>4, <2>2, <3>1
  <2> QED BY <2>1, <2>2
<1> QED BY <1>1, <1>4, <1>5 DEF RemoveAt, a, b

\* Two sequences one after the other.
LEMMA ConcatFacts ==
  ASSUME NEW S, NEW s \in Seq(S), NEW t \in Seq(S)
  PROVE  s \o t \in Seq(S)
OBVIOUS
-----------------------------------------------------------------------------
(* Plans *)

\* The plans are made of the loop's steps.
LEMMA PlanFacts ==
  /\ \A kind \in Kinds : \A plan \in Plans(kind) : plan \in Seq(Steps)
  /\ Startup \in Seq(Steps)
  /\ \A step \in {Sync, Resume, MayFail} : \A chosen \in Outcomes(step) : chosen \in Seq(Steps)
<1>1. /\ {Sync, Resume, MayFail, Dialog, Icon} \subseteq Steps
      /\ \A t \in Workers : Stop(t) \in Steps /\ Start(t) \in Steps
  BY DEF Steps, Stop, Start
<1>2. /\ Stop("monitor") \in Steps /\ Stop("hotkey") \in Steps /\ Stop("runner") \in Steps
      /\ Stop("battery") \in Steps /\ Start("monitor") \in Steps /\ Start("hotkey") \in Steps
      /\ Start("runner") \in Steps /\ Start("battery") \in Steps
      /\ Sync \in Steps /\ Resume \in Steps /\ MayFail \in Steps /\ Dialog \in Steps /\ Icon \in Steps
  BY <1>1 DEF Workers
<1>3. Reconcile \in Seq(Steps) /\ StartHotkeys \in Seq(Steps)
  BY <1>2 DEF Reconcile, StartHotkeys
<1>4. <<Icon>> \in Seq(Steps) /\ <<MayFail>> \in Seq(Steps) /\ <<Start("runner")>> \in Seq(Steps)
      /\ <<Stop("hotkey")>> \in Seq(Steps) /\ <<Stop("runner"), Start("runner")>> \in Seq(Steps)
      /\ <<Stop("monitor"), Stop("hotkey"), Stop("runner"), Icon>> \in Seq(Steps)
      /\ <<Icon, MayFail>> \in Seq(Steps) /\ <<>> \in Seq(Steps)
      /\ <<Stop("monitor"), Stop("hotkey"), Stop("runner"), Stop("battery")>> \in Seq(Steps)
      /\ <<Dialog>> \in Seq(Steps)
      /\ <<Start("battery")>> \in Seq(Steps) /\ <<Stop("battery")>> \in Seq(Steps)
      /\ <<Start("monitor")>> \in Seq(Steps)
  BY <1>2
<1>5. RestartAutomation \in Seq(Steps)
  BY <1>3, <1>4, ConcatFacts DEF RestartAutomation
<1>6. Reload \in Seq(Steps)
  <2>1. <<Stop("monitor"), Stop("hotkey"), Stop("runner"), Icon>> \o Reconcile \in Seq(Steps)
    BY <1>3, <1>4, ConcatFacts
  <2>2. <<Stop("monitor"), Stop("hotkey"), Stop("runner"), Icon>> \o Reconcile \o StartHotkeys
           \in Seq(Steps)
    BY <1>3, <2>1, ConcatFacts
  <2>3. <<Stop("monitor"), Stop("hotkey"), Stop("runner"), Icon>> \o Reconcile \o StartHotkeys
           \o <<Start("runner")>> \in Seq(Steps)
    BY <1>4, <2>2, ConcatFacts
  <2>4. <<Stop("monitor"), Stop("hotkey"), Stop("runner"), Icon>> \o Reconcile \o StartHotkeys
           \o <<Start("runner")>> \o Reconcile \in Seq(Steps)
    BY <1>3, <2>3, ConcatFacts
  <2> QED BY <1>4, <2>4, ConcatFacts DEF Reload
<1>7. Startup \in Seq(Steps)
  <2>1. Reconcile \o <<Icon>> \in Seq(Steps)
    BY <1>3, <1>4, ConcatFacts
  <2>2. Reconcile \o <<Icon>> \o StartHotkeys \in Seq(Steps)
    BY <1>3, <2>1, ConcatFacts
  <2> QED BY <1>4, <2>2, ConcatFacts DEF Startup
<1>8. /\ Reconcile \o <<Icon, MayFail>> \in Seq(Steps) /\ <<Stop("hotkey")>> \o StartHotkeys \in Seq(Steps)
      /\ RestartAutomation \o <<MayFail>> \in Seq(Steps)
  BY <1>3, <1>4, <1>5, ConcatFacts
<1>9. ASSUME NEW kind \in Kinds PROVE \A plan \in Plans(kind) : plan \in Seq(Steps)
  <2> HIDE DEF Reconcile, StartHotkeys, Reload, RestartAutomation
  <2>1. CASE kind = "plain"
    BY <1>4, <2>1 DEF Plans
  <2>2. CASE kind = "reconcile"
    BY <1>4, <1>8, <2>2 DEF Plans
  <2>3. CASE kind = "hotkeys"
    BY <1>8, <2>3 DEF Plans
  <2>4. CASE kind = "automation"
    BY <1>8, <2>4 DEF Plans
  <2>5. CASE kind = "reload"
    BY <1>4, <1>6, <2>5 DEF Plans
  <2>6. CASE kind = "save"
    BY <1>4, <1>5, <1>6, <2>6 DEF Plans
  <2>7. CASE kind = "refresh"
    BY <1>4, <2>7 DEF Plans
  <2>8. CASE kind = "open"
    BY <1>4, <2>8 DEF Plans
  <2>9. CASE kind = "shutdown"
    BY <1>4, <2>9 DEF Plans
  <2> QED BY <2>1, <2>2, <2>3, <2>4, <2>5, <2>6, <2>7, <2>8, <2>9 DEF Kinds
<1>10. ASSUME NEW step \in {Sync, Resume, MayFail}
       PROVE  \A chosen \in Outcomes(step) : chosen \in Seq(Steps)
  <2>1. Sync # Resume /\ Sync # MayFail /\ Resume # MayFail
    BY DEF Sync, Resume, MayFail
  <2> QED BY <1>4, <2>1 DEF Outcomes
<1> QED BY <1>7, <1>9, <1>10

\* An exit stops every thread.
LEMMA ExitPlan ==
  ASSUME NEW plan \in Plans("shutdown")
  PROVE  /\ \A i \in DOMAIN plan : \E t \in Workers : plan[i] = Stop(t)
         /\ \A t \in Workers : \E i \in DOMAIN plan : plan[i] = Stop(t)
<1>1. plan = <<Stop("monitor"), Stop("hotkey"), Stop("runner"), Stop("battery")>>
  BY DEF Plans
<1>2. /\ DOMAIN plan = {1, 2, 3, 4} /\ plan[1] = Stop("monitor") /\ plan[2] = Stop("hotkey")
      /\ plan[3] = Stop("runner") /\ plan[4] = Stop("battery")
  BY <1>1
<1> QED BY <1>2 DEF Workers

\* The steps of a plan are of different kinds.
LEMMA StepKinds ==
  /\ \A t, u \in Workers : Stop(t) # Start(u) /\ (Stop(t) = Stop(u) => t = u)
                           /\ (Start(t) = Start(u) => t = u)
  /\ \A t \in Workers : {Stop(t), Start(t)} \cap {Sync, Resume, MayFail, Dialog, Icon} = {}
BY DEF Stop, Start, Sync, Resume, MayFail, Dialog, Icon, Workers
-----------------------------------------------------------------------------
(* The channel *)

Sender == [from: Threads, kind: Kinds]

Channel ==
    /\ requests \in Seq(Kinds) /\ Len(requests) <= Capacity
    /\ senders \in Seq(Sender)
    /\ \A i, j \in DOMAIN senders :
          i # j /\ senders[i].from # "other" => senders[i].from # senders[j].from
    /\ senders # <<>> => Len(requests) = Capacity

Others ==
    /\ startup \in {"before", "running", "done"}
    /\ serving \in Kinds \cup {"none", "startup"}
    /\ work \in Seq(Steps)
    /\ ui \in {"idle", "reply", "closing", "lock", "call", "gone"}
    /\ hide \in BOOLEAN
    /\ at \in [Workers -> {"off", "wait", "ask", "act", "register", "cleanup"}]
    /\ stopped \in [Workers -> BOOLEAN]

\* The type invariant speaks of the channel and of the rest.
LEMMA TypesSplit == (TypeOK <=> Channel /\ Others) /\ (TypeOK' <=> Channel' /\ Others')
BY DEF TypeOK, Channel, Others, Steps, Sender

\* The elements of a sequence.
LEMMA SequenceFacts ==
  ASSUME NEW S, NEW s \in Seq(S)
  PROVE  Len(s) \in Nat /\ DOMAIN s = 1 .. Len(s) /\ \A i \in 1 .. Len(s) : s[i] \in S
OBVIOUS

\* A blocked thread has its name and its closure.
LEMMA SenderFacts ==
  /\ \A w \in Sender : w.from \in Threads /\ w.kind \in Kinds
  /\ \A t \in Threads, kind \in Kinds :
        /\ [from |-> t, kind |-> kind] \in Sender
        /\ [from |-> t, kind |-> kind].from = t /\ [from |-> t, kind |-> kind].kind = kind
BY DEF Sender

\* What the channel holds, as a sequence.
LEMMA ChannelFacts ==
  ASSUME Channel
  PROVE  /\ Len(requests) \in Nat /\ Len(senders) \in Nat /\ Capacity \in Nat \ {0}
         /\ DOMAIN requests = 1 .. Len(requests) /\ DOMAIN senders = 1 .. Len(senders)
         /\ \A i \in 1 .. Len(requests) : requests[i] \in Kinds /\ i \in Places /\ Queued(i) = requests[i]
         /\ \A i \in 1 .. Len(senders) :
               /\ senders[i] \in Sender
               /\ Len(requests) + i \in Places /\ Queued(Len(requests) + i) = senders[i].kind
         /\ \A i \in Places : i \in Nat /\ Queued(i) \in Kinds
<1>1. /\ Len(requests) \in Nat /\ Len(senders) \in Nat /\ Capacity \in Nat \ {0}
      /\ DOMAIN requests = 1 .. Len(requests) /\ DOMAIN senders = 1 .. Len(senders)
      /\ \A i \in 1 .. Len(requests) : requests[i] \in Kinds
      /\ \A i \in 1 .. Len(senders) : senders[i] \in Sender
  <2>1. Capacity \in Nat \ {0}
    BY LoopAssumption
  <2>2. requests \in Seq(Kinds) /\ senders \in Seq(Sender)
    BY DEF Channel
  <2> QED BY <2>1, <2>2, SequenceFacts
<1>2. \A i \in 1 .. Len(requests) : i \in Places /\ Queued(i) = requests[i]
  BY <1>1 DEF Places, Queued
<1>3. ASSUME NEW i \in 1 .. Len(senders)
      PROVE  Len(requests) + i \in Places /\ Queued(Len(requests) + i) = senders[i].kind
  <2>1. Len(requests) + i - Len(requests) = i /\ ~(Len(requests) + i <= Len(requests))
    BY <1>1
  <2> QED BY <1>1, <2>1 DEF Places, Queued
<1>4. ASSUME NEW i \in Places PROVE i \in Nat /\ Queued(i) \in Kinds
  <2>1. CASE i <= Len(requests)
    BY <1>1, <2>1 DEF Places, Queued
  <2>2. CASE ~(i <= Len(requests))
    <3>1. i - Len(requests) \in 1 .. Len(senders)
      BY <1>1, <2>2 DEF Places
    <3> QED BY <1>1, <2>2, <3>1, SenderFacts DEF Places, Queued
  <2> QED BY <2>1, <2>2
<1> QED BY <1>1, <1>2, <1>3, <1>4

\* A closure is sent: it is the last one, and its thread may be blocked.
LEMMA SendFacts ==
  ASSUME Channel, NEW t \in Threads, NEW kind \in Kinds, Send(t, kind),
         t = "other" \/ ~Blocked(t)
  PROVE  /\ Channel'
         /\ Len(requests') + Len(senders') = Len(requests) + Len(senders) + 1
         /\ \A i \in Places : i \in Places' /\ Queued(i)' = Queued(i)
         /\ \A i \in Places' : i \in Places \/ Queued(i)' = kind
         /\ \A i, j \in Places' : i \in Places \/ j \in Places \/ i = j
         /\ \E i \in Places' : Queued(i)' = kind
         /\ \A i \in DOMAIN senders' :
               (i \in DOMAIN senders /\ senders'[i] = senders[i]) \/ senders'[i].from = t
         /\ \A u \in Threads : u # t => (Blocked(u)' <=> Blocked(u))
<1>1. /\ Len(requests) \in Nat /\ Len(senders) \in Nat /\ Capacity \in Nat \ {0}
      /\ DOMAIN requests = 1 .. Len(requests) /\ DOMAIN senders = 1 .. Len(senders)
      /\ requests \in Seq(Kinds) /\ senders \in Seq(Sender)
      /\ Len(requests) <= Capacity
  BY ChannelFacts DEF Channel
<1>2. CASE Len(requests) < Capacity
  <2>1. requests' = Append(requests, kind) /\ senders' = senders /\ senders = <<>> /\ Len(senders) = 0
    <3>1. requests' = Append(requests, kind) /\ senders' = senders
      BY <1>2 DEF Send
    <3>2. Len(requests) # Capacity
      <4>1. Len(requests) \in Nat /\ Capacity \in Nat
        BY <1>1
      <4> QED BY <4>1, <1>2
    <3>3. senders = <<>>
      BY <3>2 DEF Channel
    <3> QED BY <3>1, <3>3
  <2>2. /\ requests' \in Seq(Kinds) /\ Len(requests') = Len(requests) + 1
        /\ \A i \in 1 .. Len(requests) : requests'[i] = requests[i]
        /\ requests'[Len(requests) + 1] = kind
    BY <1>1, <2>1, AppendFacts
  <2>3. Channel'
    BY <1>1, <1>2, <2>1, <2>2 DEF Channel
  <2>4. /\ Places = 1 .. Len(requests) /\ Places' = 1 .. Len(requests) + 1
        /\ \A i \in Places : Queued(i) = requests[i]
        /\ \A i \in Places' : Queued(i)' = requests'[i]
    BY <1>1, <2>1, <2>2 DEF Places, Queued
  <2>5. \A u \in Threads : Blocked(u)' <=> Blocked(u)
    BY <2>1 DEF Blocked
  <2> QED BY <1>1, <2>1, <2>2, <2>3, <2>4, <2>5
<1>3. CASE ~(Len(requests) < Capacity)
  <2> DEFINE new == [from |-> t, kind |-> kind]
  <2>1. requests' = requests /\ senders' = Append(senders, new) /\ Len(requests) = Capacity
    <3>1. Len(requests) = Capacity
      <4>1. Len(requests) \in Nat /\ Capacity \in Nat /\ Len(requests) <= Capacity
        BY <1>1
      <4> QED BY <4>1, <1>3
    <3> QED BY <1>3, <3>1 DEF Send
  <2>2. new \in Sender /\ new.from = t /\ new.kind = kind
    BY SenderFacts
  <2> HIDE DEF new
  <2>3. /\ senders' \in Seq(Sender) /\ Len(senders') = Len(senders) + 1
        /\ DOMAIN senders' = 1 .. Len(senders) + 1
        /\ \A i \in 1 .. Len(senders) : senders'[i] = senders[i]
        /\ senders'[Len(senders) + 1] = new
    BY <1>1, <2>1, <2>2, AppendFacts
  <2>4. \A i, j \in DOMAIN senders' :
           i # j /\ senders'[i].from # "other" => senders'[i].from # senders'[j].from
    <3>1. t # "other" => \A i \in DOMAIN senders : senders[i].from # t
      BY DEF Blocked
    <3> QED BY <1>1, <2>2, <2>3, <3>1 DEF Channel
  <2>5. Channel'
    BY <1>1, <2>1, <2>3, <2>4 DEF Channel
  <2>6. Places = 1 .. Len(requests) + Len(senders) /\ Places' = 1 .. Len(requests) + Len(senders) + 1
    BY <1>1, <2>1, <2>3 DEF Places
  <2>7. ASSUME NEW i \in Places PROVE Queued(i)' = Queued(i)
    <3>1. CASE i <= Len(requests)
      BY <2>1, <3>1 DEF Queued
    <3>2. CASE ~(i <= Len(requests))
      <4>1. i - Len(requests) \in 1 .. Len(senders)
        BY <1>1, <2>6, <3>2
      <4> QED BY <2>1, <2>3, <3>2, <4>1 DEF Queued
    <3> QED BY <3>1, <3>2
  <2>8. PICK n \in Nat : n = Len(requests) + Len(senders) + 1
    BY <1>1
  <2>9. Queued(n)' = kind
    <3>1. ~(n <= Len(requests)) /\ n - Len(requests) = Len(senders) + 1
      BY <1>1, <2>8
    <3>2. Queued(n)' = senders'[n - Len(requests)].kind
      BY <2>1, <3>1 DEF Queued
    <3> QED BY <2>2, <2>3, <3>1, <3>2
  <2>10. \A u \in Threads : u # t => (Blocked(u)' <=> Blocked(u))
    BY <1>1, <2>2, <2>3 DEF Blocked
  <2>11. Places' = 1 .. n /\ Places = 1 .. n - 1 /\ n >= 1
    BY <1>1, <2>6, <2>8
  <2>12. \A i \in DOMAIN senders' :
            (i \in DOMAIN senders /\ senders'[i] = senders[i]) \/ senders'[i].from = t
    BY <1>1, <2>2, <2>3
  <2>13. Len(requests') + Len(senders') = Len(requests) + Len(senders) + 1
    BY <1>1, <2>1, <2>3
  <2>14. /\ \A i \in Places' : i \in Places \/ i = n
         /\ n \in Places' /\ Places \subseteq Places'
    BY <2>8, <2>11
  <2>15. /\ \A i \in Places : i \in Places' /\ Queued(i)' = Queued(i)
         /\ \A i \in Places' : i \in Places \/ Queued(i)' = kind
         /\ \A i, j \in Places' : i \in Places \/ j \in Places \/ i = j
         /\ \E i \in Places' : Queued(i)' = kind
    BY <2>7, <2>9, <2>14
  <2> QED BY <2>5, <2>10, <2>12, <2>13, <2>15
<1> QED BY <1>2, <1>3

\* A closure is taken: it was the first one, and a blocked thread may go on.
LEMMA TakeFacts ==
  ASSUME Channel, Take
  PROVE  /\ Channel' /\ 1 \in Places /\ serving' = Queued(1) /\ serving' \in Kinds
         /\ work' \in Plans(serving')
         /\ Len(requests') + Len(senders') = Len(requests) + Len(senders) - 1
         /\ \A i \in Places' : i \in Nat /\ i + 1 \in Places /\ i + 1 # 1 /\ Queued(i)' = Queued(i + 1)
         /\ \A i \in Places : i # 1 => i - 1 \in Places' /\ Queued(i - 1)' = Queued(i)
         /\ \A i \in DOMAIN senders' : \E j \in DOMAIN senders : senders'[i] = senders[j]
         /\ \A t \in Threads : Blocked(t)' => Blocked(t)
<1>1. /\ Len(requests) \in Nat /\ Len(senders) \in Nat /\ Capacity \in Nat \ {0}
      /\ DOMAIN requests = 1 .. Len(requests) /\ DOMAIN senders = 1 .. Len(senders)
      /\ requests \in Seq(Kinds) /\ senders \in Seq(Sender)
      /\ Len(requests) <= Capacity
  BY ChannelFacts DEF Channel
<1>2. /\ requests # <<>> /\ serving' = Head(requests) /\ work' \in Plans(serving')
      /\ IF senders = <<>>
         THEN requests' = Tail(requests) /\ senders' = senders
         ELSE /\ requests' = Append(Tail(requests), Head(senders).kind)
              /\ senders' = Tail(senders)
  BY DEF Take
<1>3. /\ Head(requests) = requests[1] /\ Head(requests) \in Kinds /\ Len(requests) >= 1
      /\ Tail(requests) \in Seq(Kinds) /\ Len(Tail(requests)) = Len(requests) - 1
      /\ \A i \in 1 .. Len(requests) - 1 : Tail(requests)[i] = requests[i + 1]
  BY <1>1, <1>2, TailFacts
<1>4. 1 \in Places /\ Queued(1) = requests[1]
  BY <1>1, <1>3 DEF Places, Queued
<1>5. /\ Channel' /\ Len(requests') + Len(senders') = Len(requests) + Len(senders) - 1
      /\ \A i \in Places' : i \in Nat /\ i + 1 \in Places /\ Queued(i)' = Queued(i + 1)
      /\ \A i \in DOMAIN senders' : \E j \in DOMAIN senders : senders'[i] = senders[j]
  <2>1. CASE senders = <<>>
    <3>1. requests' = Tail(requests) /\ senders' = senders /\ Len(senders) = 0
      BY <1>2, <2>1
    <3>2. Channel'
      BY <1>1, <1>3, <2>1, <3>1 DEF Channel
    <3>3. /\ Places = 1 .. Len(requests) /\ Places' = 1 .. Len(requests) - 1
          /\ \A i \in Places : Queued(i) = requests[i]
          /\ \A i \in Places' : Queued(i)' = requests'[i]
      BY <1>1, <1>3, <3>1 DEF Places, Queued
    <3> QED BY <1>1, <1>3, <3>1, <3>2, <3>3
  <2>2. CASE senders # <<>>
    <3>1. /\ requests' = Append(Tail(requests), Head(senders).kind)
          /\ senders' = Tail(senders)
      BY <1>2, <2>2
    <3>2. /\ Head(senders) = senders[1] /\ Len(senders) >= 1
          /\ Head(senders) \in Sender
          /\ senders' \in Seq(Sender) /\ Len(senders') = Len(senders) - 1
          /\ DOMAIN senders' = 1 .. Len(senders) - 1
          /\ \A i \in 1 .. Len(senders) - 1 : senders'[i] = senders[i + 1]
      BY <1>1, <2>2, <3>1, TailFacts
    <3>3. /\ requests' \in Seq(Kinds) /\ Len(requests') = Len(requests)
          /\ \A i \in 1 .. Len(requests) - 1 : requests'[i] = requests[i + 1]
          /\ requests'[Len(requests)] = senders[1].kind
      <4>1. Head(senders).kind \in Kinds
        BY <3>2, SenderFacts
      <4>2. /\ requests' \in Seq(Kinds) /\ Len(requests') = Len(Tail(requests)) + 1
            /\ \A i \in 1 .. Len(Tail(requests)) : requests'[i] = Tail(requests)[i]
            /\ requests'[Len(Tail(requests)) + 1] = Head(senders).kind
        BY <1>3, <3>1, <4>1, AppendFacts
      <4> QED BY <1>1, <1>3, <3>2, <4>2
    <3>4. Len(requests) = Capacity
      BY <2>2 DEF Channel
    <3>5. Channel'
      <4>1. ASSUME NEW i \in DOMAIN senders', NEW j \in DOMAIN senders', i # j,
                   senders'[i].from # "other"
            PROVE  senders'[i].from # senders'[j].from
        <5>1. i + 1 \in DOMAIN senders /\ j + 1 \in DOMAIN senders /\ i + 1 # j + 1
          BY <1>1, <3>2, <4>1
        <5> QED BY <3>2, <4>1, <5>1 DEF Channel
      <4> QED BY <1>1, <3>2, <3>3, <3>4, <4>1 DEF Channel
    <3>6. Places = 1 .. Len(requests) + Len(senders) /\ Places' = 1 .. Len(requests) + Len(senders) - 1
      <4>1. Len(requests') + Len(senders') = Len(requests) + Len(senders) - 1
        BY <1>1, <3>2, <3>3
      <4> QED BY <4>1 DEF Places
    <3>7. ASSUME NEW i \in Places' PROVE Queued(i)' = Queued(i + 1)
      <4>1. i \in Nat /\ i + 1 \in Nat /\ i >= 1 /\ i <= Len(requests) + Len(senders) - 1
        BY <1>1, <3>6
      <4>2. SUFFICES ASSUME NEW k \in Nat, k = i + 1 PROVE Queued(i)' = Queued(k)
        BY <4>1
      <4>3. CASE i < Len(requests)
        <5>1. i \in 1 .. Len(requests) - 1 /\ i <= Len(requests') /\ k <= Len(requests)
          BY <1>1, <3>3, <4>1, <4>2, <4>3
        <5> QED BY <3>3, <4>2, <5>1 DEF Queued
      <4>4. CASE i = Len(requests)
        <5>1. i <= Len(requests') /\ ~(k <= Len(requests)) /\ k - Len(requests) = 1
          BY <1>1, <3>3, <4>1, <4>2, <4>4
        <5>2. Queued(i)' = requests'[i]
          BY <5>1 DEF Queued
        <5>3. Queued(k) = senders[1].kind
          BY <5>1 DEF Queued
        <5> QED BY <3>3, <4>4, <5>2, <5>3
      <4>5. CASE i > Len(requests)
        <5> DEFINE m == i - Len(requests)
        <5>1. m \in Nat /\ m >= 1 /\ m <= Len(senders) - 1 /\ m \in 1 .. Len(senders) - 1
          BY <1>1, <4>1, <4>5
        <5>2. ~(i <= Len(requests')) /\ ~(k <= Len(requests)) /\ k - Len(requests) = m + 1
          BY <1>1, <3>3, <4>1, <4>2, <4>5, <5>1
        <5>3. Queued(i)' = senders'[m].kind
          BY <3>3, <5>1, <5>2 DEF Queued
        <5>4. Queued(k) = senders[m + 1].kind
          BY <5>2 DEF Queued
        <5> HIDE DEF m
        <5>5. senders'[m] = senders[m + 1]
          BY <3>2, <5>1
        <5> QED BY <5>3, <5>4, <5>5
      <4>6. Len(requests) \in Nat
        BY <1>1
      <4>7. i < Len(requests) \/ i = Len(requests) \/ i > Len(requests)
        BY <4>1, <4>6
      <4> QED BY <4>3, <4>4, <4>5, <4>7
    <3>8. \A i \in Places' : i \in Nat /\ i + 1 \in Places
      BY <1>1, <1>3, <3>6
    <3>9. \A i \in DOMAIN senders' : \E j \in DOMAIN senders : senders'[i] = senders[j]
      <4>1. \A i \in DOMAIN senders' : i + 1 \in DOMAIN senders
        BY <1>1, <3>2
      <4> QED BY <3>2, <4>1
    <3>10. Len(requests') + Len(senders') = Len(requests) + Len(senders) - 1
      BY <1>1, <3>2, <3>3
    <3> QED BY <3>5, <3>7, <3>8, <3>9, <3>10
  <2> QED BY <2>1, <2>2
<1>6. \A t \in Threads : Blocked(t)' => Blocked(t)
  BY <1>5 DEF Blocked
<1>7. \A i \in Places' : i + 1 # 1
  BY <1>5 DEF Places
<1>8. ASSUME NEW i \in Places, i # 1 PROVE i - 1 \in Places' /\ Queued(i - 1)' = Queued(i)
  <2>1. i - 1 \in 1 .. Len(requests') + Len(senders') /\ (i - 1) + 1 = i
    BY <1>1, <1>5, <1>8 DEF Places
  <2>2. i - 1 \in Places'
    BY <2>1 DEF Places
  <2> QED BY <1>5, <2>1, <2>2
<1> QED BY <1>2, <1>3, <1>4, <1>5, <1>6, <1>7, <1>8

\* A blocked send is given up: its closure is out, and the others keep their order.
LEMMA GivesUpFacts ==
  ASSUME Channel, NEW t \in Workers, GivesUp(t)
  PROVE  /\ Channel'
         /\ \A i \in Places' : \E j \in Places : Queued(i)' = Queued(j)
         /\ \A i, k \in Places' : i # k =>
               \E j, l \in Places : j # l /\ Queued(i)' = Queued(j) /\ Queued(k)' = Queued(l)
         /\ \A u \in Threads : Blocked(u)' => Blocked(u)
<1>1. /\ Len(requests) \in Nat /\ Len(senders) \in Nat /\ Capacity \in Nat \ {0}
      /\ DOMAIN requests = 1 .. Len(requests) /\ DOMAIN senders = 1 .. Len(senders)
      /\ requests \in Seq(Kinds) /\ senders \in Seq(Sender)
  BY ChannelFacts DEF Channel
<1>2. PICK g \in DOMAIN senders : senders' = RemoveAt(senders, g)
  BY DEF GivesUp
<1>3. requests' = requests
  BY DEF GivesUp
<1>4. /\ senders' \in Seq(Sender) /\ Len(senders') = Len(senders) - 1
      /\ g \in 1 .. Len(senders)
      /\ \A i \in 1 .. Len(senders) - 1 : senders'[i] = IF i < g THEN senders[i] ELSE senders[i + 1]
  BY <1>1, <1>2, RemoveFacts
<1>5. DOMAIN senders' = 1 .. Len(senders) - 1
  BY <1>4
<1> DEFINE Old(i) == IF i < g THEN i ELSE i + 1
<1>6. /\ \A i \in DOMAIN senders' : Old(i) \in DOMAIN senders /\ senders'[i] = senders[Old(i)]
      /\ \A i, j \in DOMAIN senders' : i # j => Old(i) # Old(j)
  BY <1>1, <1>4, <1>5
<1> HIDE DEF Old
<1>7. Channel'
  <2>1. senders # <<>>
    BY <1>1, <1>4
  <2>2. Len(requests') <= Capacity /\ requests' \in Seq(Kinds) /\ Len(requests') = Capacity
    BY <1>3, <2>1 DEF Channel
  <2>3. \A i, j \in DOMAIN senders' :
           i # j /\ senders'[i].from # "other" => senders'[i].from # senders'[j].from
    BY <1>6 DEF Channel
  <2> QED BY <1>4, <2>2, <2>3 DEF Channel
<1> DEFINE Was(i) == IF i <= Len(requests) \/ i - Len(requests) < g THEN i ELSE i + 1
<1>8. Places = 1 .. Len(requests) + Len(senders) /\ Places' = 1 .. Len(requests) + Len(senders) - 1
  <2>1. Len(requests') + Len(senders') = Len(requests) + Len(senders) - 1
    BY <1>1, <1>3, <1>4
  <2> QED BY <2>1 DEF Places
<1>9. ASSUME NEW i \in Places' PROVE Was(i) \in Places /\ Queued(i)' = Queued(Was(i))
  <2>1. CASE i <= Len(requests)
    BY <1>1, <1>3, <1>4, <1>8, <2>1 DEF Queued
  <2>2. CASE ~(i <= Len(requests)) /\ i - Len(requests) < g
    <3>1. i - Len(requests) \in 1 .. Len(senders) - 1
      BY <1>1, <1>4, <1>8, <2>2
    <3>2. senders'[i - Len(requests)] = senders[i - Len(requests)]
      BY <1>4, <2>2, <3>1
    <3> QED BY <1>1, <1>3, <1>8, <2>2, <3>2 DEF Queued
  <2>3. CASE ~(i <= Len(requests)) /\ ~(i - Len(requests) < g)
    <3>1. /\ i - Len(requests) \in 1 .. Len(senders) - 1
          /\ i + 1 - Len(requests) = (i - Len(requests)) + 1
          /\ ~(i + 1 <= Len(requests)) /\ i + 1 \in Places
      BY <1>1, <1>4, <1>8, <2>3
    <3>2. senders'[i - Len(requests)] = senders[(i - Len(requests)) + 1]
      BY <1>4, <2>3, <3>1
    <3> QED BY <1>1, <1>3, <1>8, <2>3, <3>1, <3>2 DEF Queued
  <2> QED BY <2>1, <2>2, <2>3
<1>10. \A i, k \in Places' : i # k => Was(i) # Was(k)
  BY <1>1, <1>4, <1>8
<1> HIDE DEF Was
<1>11. \A u \in Threads : Blocked(u)' => Blocked(u)
  BY <1>6 DEF Blocked
<1> QED BY <1>7, <1>9, <1>10, <1>11
-----------------------------------------------------------------------------
(* The request loop keeps its invariant *)

Queue == <<requests, senders>>

\* While nobody sends or takes, the channel is as it was.
LEMMA SameQueue ==
  ASSUME Channel, UNCHANGED Queue
  PROVE  /\ Channel' /\ Places' = Places /\ \A i \in Places : Queued(i)' = Queued(i)
         /\ \A t \in Threads : Blocked(t)' = Blocked(t)
BY DEF Channel, Queue, Places, Queued, Blocked

\* The loop takes a closure.
LEMMA TakeKeeps == ASSUME LoopInv, Take PROVE LoopInv'
<1>1. /\ startup = "done" /\ serving = "none" /\ UNCHANGED <<startup, ui, hide, at, stopped>>
  BY DEF Take
<1>2. Channel /\ Others /\ work = <<>>
  BY <1>1, TypesSplit DEF LoopInv, ServesInTurn
<1>3. /\ Channel' /\ 1 \in Places /\ serving' = Queued(1) /\ serving' \in Kinds
      /\ work' \in Plans(serving')
      /\ \A i \in Places' : i \in Nat /\ i + 1 \in Places /\ i + 1 # 1 /\ Queued(i)' = Queued(i + 1)
      /\ \A t \in Threads : Blocked(t)' => Blocked(t)
  BY <1>2, TakeFacts
<1>4. work' \in Seq(Steps)
  BY <1>3, PlanFacts
<1>5. TypeOK'
  BY <1>1, <1>2, <1>3, <1>4, TypesSplit DEF Others
<1>6. ServesInTurn'
  BY <1>1, <1>2, <1>3 DEF LoopInv, ServesInTurn, Kinds
<1>7. SendsInTurn'
  BY <1>1, <1>3 DEF LoopInv, SendsInTurn, Closing, Threads, Workers
<1>8. SaveIsAwaited'
  <2>1. \A i, j \in Places' : Queued(i)' = "save" /\ Queued(j)' = "save" => i = j
    BY <1>3 DEF LoopInv, SaveIsAwaited
  <2>2. \A i \in Places' : Queued(i)' = "save" => ui' = "reply" /\ serving' # "save"
    BY <1>1, <1>3 DEF LoopInv, SaveIsAwaited
  <2>3. serving' = "save" => ui' = "reply"
    BY <1>1, <1>3 DEF LoopInv, SaveIsAwaited
  <2> QED BY <2>1, <2>2, <2>3 DEF SaveIsAwaited
<1>9. ExitStops'
  <2>1. ui' # "gone" => /\ \A i \in Places' : Queued(i)' = "shutdown" => ui' = "call"
                        /\ serving' = "shutdown" => ui' = "call"
    BY <1>1, <1>3 DEF LoopInv, ExitStops
  <2>2. serving' = "shutdown" =>
           /\ \A i \in DOMAIN work' : \E t \in Workers : work'[i] = Stop(t)
           /\ \A t \in Workers : \E i \in DOMAIN work' : work'[i] = Stop(t)
    BY <1>3, ExitPlan
  <2> QED BY <1>1, <2>1, <2>2 DEF LoopInv, ExitStops
<1> QED BY <1>5, <1>6, <1>7, <1>8, <1>9 DEF LoopInv

\* onReady begins.
LEMMA BeginStartupKeeps == ASSUME LoopInv, BeginStartup PROVE LoopInv'
<1>1. /\ startup = "before" /\ startup' = "running" /\ serving' = "startup" /\ work' = Startup
      /\ UNCHANGED Queue /\ UNCHANGED <<ui, hide, at, stopped>>
  BY DEF BeginStartup, Queue
<1>2. Channel /\ Others /\ serving = "none" /\ work = <<>>
  BY <1>1, TypesSplit DEF LoopInv, ServesInTurn
<1>3. /\ Channel' /\ Places' = Places /\ \A i \in Places : Queued(i)' = Queued(i)
      /\ \A t \in Threads : Blocked(t)' = Blocked(t)
  BY <1>1, <1>2, SameQueue
<1>4. TypeOK'
  BY <1>1, <1>2, <1>3, PlanFacts, TypesSplit DEF Others
<1>5. ServesInTurn'
  BY <1>1, <1>2 DEF LoopInv, ServesInTurn
<1>6. SendsInTurn'
  BY <1>1, <1>3 DEF LoopInv, SendsInTurn, Closing, Threads, Workers
<1>7. SaveIsAwaited' /\ ExitStops'
  BY <1>1, <1>3 DEF LoopInv, SaveIsAwaited, ExitStops
<1> QED BY <1>4, <1>5, <1>6, <1>7 DEF LoopInv

\* A step of the plan is done, or chosen: what it starts was not running, and a
\* thread that is stopped and no longer waited for is off.
LEMMA WorkKeeps ==
  ASSUME LoopInv, work # <<>>, work' \in Seq(Steps), UNCHANGED Queue,
         UNCHANGED <<startup, serving, ui, hide>>,
         at' \in [Workers -> {"off", "wait", "ask", "act", "register", "cleanup"}],
         stopped' \in [Workers -> BOOLEAN],
         at'["monitor"] \in {"ask", "act"} => at["monitor"] \in {"ask", "act"},
         at'["hotkey"] = "register" => work' # <<>> /\ Head(work') = Start("hotkey"),
         \/ \E t \in Workers :
               /\ work[1] = Stop(t) /\ at[t] = "off" /\ work' = Tail(work) /\ at' = at
         \/ \A t \in Workers : work[1] # Stop(t),
         ui # "gone"
  PROVE  LoopInv'
<1>1. Channel /\ Others /\ serving # "none" /\ startup # "before"
  BY TypesSplit DEF LoopInv, ServesInTurn
<1>2. /\ Channel' /\ Places' = Places /\ \A i \in Places : Queued(i)' = Queued(i)
      /\ \A t \in Threads : Blocked(t)' = Blocked(t)
  BY <1>1, SameQueue
<1>3. TypeOK'
  BY <1>1, <1>2, TypesSplit DEF Others
<1>4. ServesInTurn'
  BY <1>1 DEF LoopInv, ServesInTurn
<1>5. SendsInTurn'
  BY <1>2 DEF LoopInv, SendsInTurn, Closing, Threads, Workers
<1>6. SaveIsAwaited'
  BY <1>2 DEF LoopInv, SaveIsAwaited
<1>7. serving' = "shutdown" =>
          /\ \A i \in DOMAIN work' : \E t \in Workers : work'[i] = Stop(t)
          /\ \A t \in Workers : at'[t] = "off" \/ \E i \in DOMAIN work' : work'[i] = Stop(t)
  <2> SUFFICES ASSUME serving = "shutdown"
               PROVE  /\ \A i \in DOMAIN work' : \E t \in Workers : work'[i] = Stop(t)
                      /\ \A t \in Workers : at'[t] = "off" \/ \E i \in DOMAIN work' : work'[i] = Stop(t)
    OBVIOUS
  <2>1. work \in Seq(Steps) /\ 1 \in DOMAIN work
    BY <1>1 DEF Others
  <2>2. PICK t \in Workers : work[1] = Stop(t) /\ at[t] = "off" /\ work' = Tail(work) /\ at' = at
    BY <2>1 DEF LoopInv, ExitStops
  <2>3. /\ \A i \in DOMAIN work' : i \in Nat /\ i + 1 \in DOMAIN work /\ work'[i] = work[i + 1]
        /\ \A i \in DOMAIN work : i # 1 => i - 1 \in DOMAIN work' /\ work'[i - 1] = work[i]
    BY <2>1, <2>2, TailFacts
  <2>4. ASSUME NEW u \in Workers
        PROVE  at[u] = "off" \/ \E i \in DOMAIN work' : work'[i] = Stop(u)
    <3>1. at[u] = "off" \/ \E i \in DOMAIN work : work[i] = Stop(u)
      BY DEF LoopInv, ExitStops
    <3>2. ASSUME NEW i \in DOMAIN work, work[i] = Stop(u), at[u] # "off"
          PROVE  \E k \in DOMAIN work' : work'[k] = Stop(u)
      <4>1. i # 1
        BY <2>2, <3>2, StepKinds
      <4> QED BY <2>3, <3>2, <4>1
    <3> QED BY <3>1, <3>2
  <2>5. \A i \in DOMAIN work' : \E u \in Workers : work'[i] = Stop(u)
    BY <2>3 DEF LoopInv, ExitStops
  <2> QED BY <2>2, <2>4, <2>5
<1>8. ExitStops'
  BY <1>2, <1>7 DEF LoopInv, ExitStops
<1> QED BY <1>3, <1>4, <1>5, <1>6, <1>8 DEF LoopInv

\* The plan of the loop, while it has one.
LEMMA PlanInWork ==
  ASSUME LoopInv, work # <<>>
  PROVE  /\ work \in Seq(Steps) /\ Head(work) = work[1] /\ Tail(work) \in Seq(Steps)
         /\ at \in [Workers -> {"off", "wait", "ask", "act", "register", "cleanup"}]
         /\ stopped \in [Workers -> BOOLEAN]
         /\ at["hotkey"] = "register" => work[1] = Start("hotkey")
<1>1. /\ work \in Seq(Steps) /\ stopped \in [Workers -> BOOLEAN]
      /\ at \in [Workers -> {"off", "wait", "ask", "act", "register", "cleanup"}]
  BY TypesSplit DEF LoopInv, Others
<1>2. Head(work) = work[1] /\ Tail(work) \in Seq(Steps)
  BY <1>1, TailFacts
<1> QED BY <1>1, <1>2 DEF LoopInv, ServesInTurn

\* The steps of a plan that concern no thread's stop.
LEMMA PassingKeeps ==
  ASSUME LoopInv, ui # "gone", work # <<>>, Head(work) \in {Sync, Resume, MayFail, Dialog, Icon},
         work' \in Seq(Steps), UNCHANGED Queue, UNCHANGED <<startup, serving, ui, hide, at, stopped>>
  PROVE  LoopInv'
<1>1. /\ Head(work) = work[1]
      /\ at \in [Workers -> {"off", "wait", "ask", "act", "register", "cleanup"}]
      /\ stopped \in [Workers -> BOOLEAN]
      /\ at["hotkey"] = "register" => work[1] = Start("hotkey")
  BY PlanInWork
<1>2. at["hotkey"] # "register" /\ \A t \in Workers : work[1] # Stop(t)
  BY <1>1, StepKinds DEF Workers
<1> QED BY <1>1, <1>2, WorkKeeps

\* A choice is made, the icon painted, a dialog closed.
LEMMA ChooseKeeps ==
  ASSUME LoopInv, ui # "gone", Choose \/ Paint \/ CloseDialog
  PROVE  LoopInv'
<1>1. /\ work # <<>> /\ UNCHANGED Queue /\ UNCHANGED <<startup, serving, ui, hide, at, stopped>>
      /\ Head(work) \in {Sync, Resume, MayFail, Dialog, Icon}
  BY DEF Choose, Paint, CloseDialog, Queue
<1>2. Tail(work) \in Seq(Steps)
  BY <1>1, PlanInWork
<1>3. work' \in Seq(Steps)
  <2>1. CASE Choose
    <3>1. PICK chosen \in Outcomes(Head(work)) : work' = chosen \o Tail(work)
      BY <2>1 DEF Choose
    <3>2. chosen \in Seq(Steps)
      BY <2>1, PlanFacts DEF Choose
    <3> QED BY <1>2, <3>1, <3>2, ConcatFacts
  <2>2. CASE Paint \/ CloseDialog
    BY <1>2, <2>2 DEF Paint, CloseDialog
  <2> QED BY <2>1, <2>2
<1> QED BY <1>1, <1>3, PassingKeeps

\* A thread is told to stop.
LEMMA CloseStopKeeps ==
  ASSUME LoopInv, ui # "gone", NEW t \in Workers, CloseStop(t)
  PROVE  LoopInv'
<1>1. /\ UNCHANGED Queue /\ UNCHANGED <<startup, serving, work, ui, hide, at>>
      /\ stopped' = [stopped EXCEPT ![t] = TRUE]
  BY DEF CloseStop, Queue
<1>2. Channel /\ Others
  BY TypesSplit DEF LoopInv
<1>3. /\ Channel' /\ Places' = Places /\ \A i \in Places : Queued(i)' = Queued(i)
      /\ \A u \in Threads : Blocked(u)' = Blocked(u)
  BY <1>1, <1>2, SameQueue
<1>4. TypeOK'
  BY <1>1, <1>2, <1>3, TypesSplit DEF Others
<1>5. ServesInTurn'
  BY <1>1 DEF LoopInv, ServesInTurn
<1>6. SendsInTurn'
  BY <1>1, <1>3 DEF LoopInv, SendsInTurn, Closing, Threads, Workers
<1>7. SaveIsAwaited' /\ ExitStops'
  BY <1>1, <1>3 DEF LoopInv, SaveIsAwaited, ExitStops
<1> QED BY <1>4, <1>5, <1>6, <1>7 DEF LoopInv

\* A stop returns.
LEMMA StopReturnsKeeps ==
  ASSUME LoopInv, ui # "gone", NEW t \in Workers, StopReturns(t)
  PROVE  LoopInv'
<1>1. /\ work # <<>> /\ Head(work) = Stop(t) /\ at[t] = "off" /\ work' = Tail(work) /\ at' = at
      /\ stopped' = [stopped EXCEPT ![t] = FALSE]
      /\ UNCHANGED Queue /\ UNCHANGED <<startup, serving, ui, hide>>
  BY DEF StopReturns, Stopping, Queue
<1>2. /\ work[1] = Stop(t) /\ work' \in Seq(Steps)
      /\ at \in [Workers -> {"off", "wait", "ask", "act", "register", "cleanup"}]
      /\ stopped \in [Workers -> BOOLEAN]
      /\ at["hotkey"] = "register" => work[1] = Start("hotkey")
  BY <1>1, PlanInWork
<1>3. at["hotkey"] # "register"
  BY <1>2, StepKinds DEF Workers
<1>4. stopped' \in [Workers -> BOOLEAN]
  BY <1>1, <1>2
<1> QED BY <1>1, <1>2, <1>3, <1>4, WorkKeeps

\* A thread is started, if it is wanted.
LEMMA StartWorkerKeeps ==
  ASSUME LoopInv, ui # "gone", NEW t \in Workers, StartWorker(t)
  PROVE  LoopInv'
<1>1. /\ t # "hotkey" /\ work # <<>> /\ Head(work) = Start(t) /\ work' = Tail(work)
      /\ at' = at \/ at' = [at EXCEPT ![t] = IF @ = "off" THEN "wait" ELSE @]
      /\ UNCHANGED Queue /\ UNCHANGED <<startup, serving, ui, hide, stopped>>
  BY DEF StartWorker, Queue
<1>2. /\ work[1] = Start(t) /\ work' \in Seq(Steps)
      /\ at \in [Workers -> {"off", "wait", "ask", "act", "register", "cleanup"}]
      /\ stopped \in [Workers -> BOOLEAN]
      /\ at["hotkey"] = "register" => work[1] = Start("hotkey")
  BY <1>1, PlanInWork
<1>3. at["hotkey"] # "register" /\ \A u \in Workers : work[1] # Stop(u)
  BY <1>1, <1>2, StepKinds DEF Workers
<1>4. /\ at' \in [Workers -> {"off", "wait", "ask", "act", "register", "cleanup"}]
      /\ at'["hotkey"] = at["hotkey"]
      /\ at'["monitor"] \in {"ask", "act"} => at["monitor"] \in {"ask", "act"}
  BY <1>1, <1>2 DEF Workers
<1> QED BY <1>1, <1>2, <1>3, <1>4, WorkKeeps

\* The hot keys' thread is started, and says what it could register.
LEMMA HotkeyKeeps ==
  ASSUME LoopInv, ui # "gone", StartHotkeyThread \/ HotkeyRegisters
  PROVE  LoopInv'
<1>1. /\ UNCHANGED Queue /\ UNCHANGED <<startup, serving, ui, hide, stopped>>
      /\ work # <<>> /\ Head(work) = Start("hotkey")
  BY DEF StartHotkeyThread, HotkeyRegisters, Queue, LoopInv, ServesInTurn
<1>2. /\ work \in Seq(Steps) /\ work[1] = Start("hotkey") /\ Tail(work) \in Seq(Steps)
      /\ at \in [Workers -> {"off", "wait", "ask", "act", "register", "cleanup"}]
      /\ stopped \in [Workers -> BOOLEAN]
  BY <1>1, PlanInWork
<1>3. \A u \in Workers : work[1] # Stop(u)
  BY <1>2, StepKinds DEF Workers
<1>4. /\ work' = work \/ work' = Tail(work)
      /\ at' = at \/ \E next \in {"register", "wait", "cleanup"} : at' = [at EXCEPT !["hotkey"] = next]
      /\ at'["hotkey"] = "register" => work' = work
  BY <1>2 DEF StartHotkeyThread, HotkeyRegisters, Workers
<1>5. /\ at' \in [Workers -> {"off", "wait", "ask", "act", "register", "cleanup"}]
      /\ at'["monitor"] \in {"ask", "act"} => at["monitor"] \in {"ask", "act"}
  BY <1>2, <1>4 DEF Workers
<1> QED BY <1>1, <1>2, <1>3, <1>4, <1>5, WorkKeeps
-----------------------------------------------------------------------------
(* The threads keep the loop's invariant *)

\* A thread that runs moves, or a task is posted to the UI thread or run there.
LEMMA MovingKeeps ==
  ASSUME LoopInv, UNCHANGED Queue, UNCHANGED <<startup, serving, work, ui, stopped>>,
         at' \in [Workers -> {"off", "wait", "ask", "act", "register", "cleanup"}],
         \A t \in Workers : at[t] = "off" => at'[t] = "off",
         at'["monitor"] \in {"ask", "act"} => ~Blocked("monitor"),
         at'["hotkey"] = "register" => at["hotkey"] = "register",
         hide' \in BOOLEAN, Closing => ~hide'
  PROVE  LoopInv'
<1>1. Channel /\ Others
  BY TypesSplit DEF LoopInv
<1>2. /\ Channel' /\ Places' = Places /\ \A i \in Places : Queued(i)' = Queued(i)
      /\ \A t \in Threads : Blocked(t)' = Blocked(t)
  BY <1>1, SameQueue
<1>3. TypeOK'
  BY <1>1, <1>2, TypesSplit DEF Others
<1>4. ServesInTurn'
  BY DEF LoopInv, ServesInTurn
<1>5. SendsInTurn'
  BY <1>2 DEF LoopInv, SendsInTurn, Closing, Threads, Workers
<1>6. SaveIsAwaited' /\ ExitStops'
  BY <1>2 DEF LoopInv, SaveIsAwaited, ExitStops
<1> QED BY <1>3, <1>4, <1>5, <1>6 DEF LoopInv

\* The worker threads move without the channel.
LEMMA WorkersKeep ==
  ASSUME LoopInv,
         \/ HotkeyCleansUp \/ MonitorTrigger \/ MonitorReleased \/ UITask
         \/ \E t \in Workers : Leaves(t)
  PROVE  LoopInv'
<1>1. /\ at \in [Workers -> {"off", "wait", "ask", "act", "register", "cleanup"}]
      /\ hide \in BOOLEAN /\ (Closing => ~hide)
      /\ at["monitor"] \in {"ask", "act"} => ~Blocked("monitor")
      /\ {"monitor", "hotkey"} \subseteq Workers
  BY TypesSplit DEF LoopInv, SendsInTurn, Others, Workers
<1>2. CASE HotkeyCleansUp
  <2>1. /\ UNCHANGED Queue /\ UNCHANGED <<startup, serving, work, ui, stopped, hide>>
        /\ at["hotkey"] = "cleanup" /\ at' = [at EXCEPT !["hotkey"] = "off"]
    BY <1>2 DEF HotkeyCleansUp, Queue
  <2>2. /\ at' \in [Workers -> {"off", "wait", "ask", "act", "register", "cleanup"}]
        /\ \A t \in Workers : at[t] = "off" => at'[t] = "off"
        /\ at'["monitor"] = at["monitor"] /\ at'["hotkey"] # "register"
    BY <1>1, <2>1
  <2> QED BY <1>1, <2>1, <2>2, MovingKeeps
<1>3. CASE MonitorTrigger
  <2>1. /\ UNCHANGED Queue /\ UNCHANGED <<startup, serving, work, ui, stopped>>
        /\ at["monitor"] = "wait" /\ ~Blocked("monitor")
        /\ \E next \in {"ask", "act"} : at' = [at EXCEPT !["monitor"] = next]
        /\ hide' = hide \/ (hide' = TRUE /\ ~Closing)
    BY <1>3 DEF MonitorTrigger, Queue
  <2>2. /\ at' \in [Workers -> {"off", "wait", "ask", "act", "register", "cleanup"}]
        /\ \A t \in Workers : at[t] = "off" => at'[t] = "off"
        /\ at'["hotkey"] = at["hotkey"]
    BY <1>1, <2>1
  <2>3. hide' \in BOOLEAN
    BY <1>1, <2>1, Zenon
  <2>4. Closing => ~hide'
    BY <1>1, <2>1
  <2> QED BY <1>1, <2>1, <2>2, <2>3, <2>4, MovingKeeps
<1>4. CASE MonitorReleased
  <2>1. /\ UNCHANGED Queue /\ UNCHANGED <<startup, serving, work, ui, stopped, hide>>
        /\ at["monitor"] = "ask" /\ at' = [at EXCEPT !["monitor"] = "act"]
    BY <1>4 DEF MonitorReleased, Queue
  <2>2. /\ at' \in [Workers -> {"off", "wait", "ask", "act", "register", "cleanup"}]
        /\ \A t \in Workers : at[t] = "off" => at'[t] = "off"
        /\ at'["hotkey"] = at["hotkey"]
    BY <1>1, <2>1
  <2> QED BY <1>1, <2>1, <2>2, MovingKeeps
<1>5. CASE UITask
  <2>1. /\ UNCHANGED Queue /\ UNCHANGED <<startup, serving, work, ui, stopped, at>> /\ hide' = FALSE
    BY <1>5 DEF UITask, Queue
  <2>2. hide' \in BOOLEAN /\ ~hide'
    BY <2>1
  <2>3. /\ at' \in [Workers -> {"off", "wait", "ask", "act", "register", "cleanup"}]
        /\ \A u \in Workers : at[u] = "off" => at'[u] = "off"
        /\ at'["hotkey"] = at["hotkey"] /\ at'["monitor"] = at["monitor"]
    BY <1>1, <2>1
  <2> QED BY <1>1, <2>1, <2>2, <2>3, MovingKeeps
<1>6. ASSUME NEW t \in Workers, Leaves(t) PROVE LoopInv'
  <2>1. /\ UNCHANGED Queue /\ UNCHANGED <<startup, serving, work, ui, stopped, hide>>
        /\ at[t] = "wait" /\ \E next \in {"cleanup", "off"} : at' = [at EXCEPT ![t] = next]
    BY <1>6 DEF Leaves, Queue
  <2>2. /\ at' \in [Workers -> {"off", "wait", "ask", "act", "register", "cleanup"}]
        /\ \A u \in Workers : at[u] = "off" => at'[u] = "off"
        /\ at'["hotkey"] = "register" => at["hotkey"] = "register"
        /\ at'["monitor"] \in {"ask", "act"} => at["monitor"] \in {"ask", "act"}
    BY <1>1, <2>1
  <2> QED BY <1>1, <2>1, <2>2, MovingKeeps
<1> QED BY <1>2, <1>3, <1>4, <1>5, <1>6

\* A thread other than the UI thread sends a closure.
LEMMA SendKeeps ==
  ASSUME LoopInv, NEW t \in Threads \ {"ui"}, NEW kind \in Kinds \ {"save", "shutdown"},
         Send(t, kind), t = "other" \/ ~Blocked(t),
         UNCHANGED <<startup, serving, work, ui, hide, stopped>>,
         \/ at' = at /\ (t = "monitor" => at["monitor"] \notin {"ask", "act"})
         \/ at["monitor"] = "act" /\ at' = [at EXCEPT !["monitor"] = "wait"]
  PROVE  LoopInv'
<1>1. Channel /\ Others
  BY TypesSplit DEF LoopInv
<1>2. /\ Channel'
      /\ \A i \in Places : i \in Places' /\ Queued(i)' = Queued(i)
      /\ \A i \in Places' : i \in Places \/ Queued(i)' = kind
      /\ \A u \in Threads : u # t => (Blocked(u)' <=> Blocked(u))
  BY <1>1, SendFacts
<1>3. /\ at' \in [Workers -> {"off", "wait", "ask", "act", "register", "cleanup"}]
      /\ \A u \in Workers : at[u] = "off" => at'[u] = "off"
      /\ at'["hotkey"] = at["hotkey"]
      /\ at'["monitor"] \in {"ask", "act"} => at["monitor"] \in {"ask", "act"} /\ t # "monitor"
  BY <1>1 DEF Others, Workers
<1>4. TypeOK'
  BY <1>1, <1>2, <1>3, TypesSplit DEF Others
<1>5. ServesInTurn'
  BY <1>3 DEF LoopInv, ServesInTurn
<1>6. SendsInTurn'
  BY <1>2, <1>3 DEF LoopInv, SendsInTurn, Closing, Threads, Workers
<1>7. SaveIsAwaited'
  BY <1>2 DEF LoopInv, SaveIsAwaited
<1>8. ExitStops'
  BY <1>2, <1>3 DEF LoopInv, ExitStops
<1> QED BY <1>4, <1>5, <1>6, <1>7, <1>8 DEF LoopInv

\* What the threads are configured to send.
LEMMA SendsFacts ==
  /\ \A t \in Threads \ {"ui"} : Sends[t] \subseteq Kinds \ {"save", "shutdown"}
  /\ Sends["ui"] \subseteq Kinds \ {"shutdown"}
  /\ Workers \subseteq Threads \ {"ui"} /\ "other" \in Threads \ {"ui"}
<1>1. /\ \A t \in Threads : Sends[t] \subseteq Kinds \ {"refresh", "open", "shutdown"}
      /\ \A t \in Threads \ {"ui"} : "save" \notin Sends[t]
  BY LoopAssumption
<1>2. "ui" \in Threads /\ Workers \subseteq Threads \ {"ui"} /\ "other" \in Threads \ {"ui"}
  BY DEF Threads, Workers
<1> QED BY <1>1, <1>2

\* The monitor acts, and has a failure shown.
LEMMA MonitorActsKeeps == ASSUME LoopInv, MonitorActs PROVE LoopInv'
<1>1. /\ at["monitor"] = "act" /\ at' = [at EXCEPT !["monitor"] = "wait"]
      /\ UNCHANGED <<startup, serving, work, ui, hide, stopped>>
  BY DEF MonitorActs
<1>2. /\ at \in [Workers -> {"off", "wait", "ask", "act", "register", "cleanup"}]
      /\ hide \in BOOLEAN /\ (Closing => ~hide) /\ ~Blocked("monitor")
      /\ "monitor" \in Workers
  BY <1>1, TypesSplit DEF LoopInv, SendsInTurn, Others, Workers
<1>3. CASE UNCHANGED <<requests, senders>>
  <2>1. /\ at' \in [Workers -> {"off", "wait", "ask", "act", "register", "cleanup"}]
        /\ \A t \in Workers : at[t] = "off" => at'[t] = "off"
        /\ at'["hotkey"] = at["hotkey"] /\ at'["monitor"] = "wait"
    BY <1>1, <1>2
  <2> QED BY <1>1, <1>2, <1>3, <2>1, MovingKeeps DEF Queue
<1>4. ASSUME NEW kind \in Sends["monitor"], Send("monitor", kind) PROVE LoopInv'
  BY <1>1, <1>2, <1>4, SendKeeps, SendsFacts
<1> QED BY <1>3, <1>4 DEF MonitorActs

\* A worker or another thread sends a closure.
LEMMA OthersSendKeep ==
  ASSUME LoopInv,
         \/ \E t \in Workers \ {"monitor"} : \E kind \in Sends[t] : WorkerSends(t, kind)
         \/ \E kind \in Kinds \ {"save", "shutdown"} :
               Send("other", kind) /\ UNCHANGED <<startup, serving, work, ui, hide, at, stopped>>
  PROVE  LoopInv'
<1>1. ASSUME NEW t \in Workers \ {"monitor"}, NEW kind \in Sends[t], WorkerSends(t, kind)
      PROVE  LoopInv'
  BY <1>1, SendKeeps, SendsFacts DEF WorkerSends
<1>2. ASSUME NEW kind \in Kinds \ {"save", "shutdown"}, Send("other", kind),
             UNCHANGED <<startup, serving, work, ui, hide, at, stopped>>
      PROVE  LoopInv'
  BY <1>2, SendKeeps, SendsFacts
<1> QED BY <1>1, <1>2

\* A blocked send is given up.
LEMMA GivesUpKeeps == ASSUME LoopInv, NEW t \in Workers, GivesUp(t) PROVE LoopInv'
<1>1. Channel /\ Others /\ UNCHANGED <<startup, serving, work, ui, hide, at, stopped>>
  BY TypesSplit DEF LoopInv, GivesUp
<1>2. /\ Channel'
      /\ \A i \in Places' : \E j \in Places : Queued(i)' = Queued(j)
      /\ \A i, k \in Places' : i # k =>
            \E j, l \in Places : j # l /\ Queued(i)' = Queued(j) /\ Queued(k)' = Queued(l)
      /\ \A u \in Threads : Blocked(u)' => Blocked(u)
  BY <1>1, GivesUpFacts
<1>3. TypeOK'
  BY <1>1, <1>2, TypesSplit DEF Others
<1>4. ServesInTurn'
  BY <1>1 DEF LoopInv, ServesInTurn
<1>5. SendsInTurn'
  BY <1>1, <1>2 DEF LoopInv, SendsInTurn, Closing, Threads, Workers
<1>6. SaveIsAwaited'
  <2>1. \A i, k \in Places' : Queued(i)' = "save" /\ Queued(k)' = "save" => i = k
    BY <1>2 DEF LoopInv, SaveIsAwaited
  <2> QED BY <1>1, <1>2, <2>1 DEF LoopInv, SaveIsAwaited
<1>7. ExitStops'
  BY <1>1, <1>2 DEF LoopInv, ExitStops
<1> QED BY <1>3, <1>4, <1>5, <1>6, <1>7 DEF LoopInv

\* A closure is over; the UI thread may have waited for it.
LEMMA FinishKeeps == ASSUME LoopInv, ui # "gone", Finish PROVE LoopInv'
<1>1. /\ serving # "none" /\ work = <<>> /\ serving' = "none" /\ startup' = "done"
      /\ UNCHANGED Queue /\ UNCHANGED <<work, hide, at, stopped>>
      /\ serving = "save" => ui' = "idle"
      /\ serving = "shutdown" => ui' = "gone"
      /\ serving \notin {"save", "shutdown"} => ui' = ui
  BY DEF Finish, Queue
<1>2. Channel /\ Others
  BY TypesSplit DEF LoopInv
<1>3. /\ Channel' /\ Places' = Places /\ \A i \in Places : Queued(i)' = Queued(i)
      /\ \A t \in Threads : Blocked(t)' = Blocked(t)
  BY <1>1, <1>2, SameQueue
<1>4. TypeOK'
  BY <1>1, <1>2, <1>3, TypesSplit DEF Others
<1>5. ServesInTurn'
  BY <1>1 DEF LoopInv, ServesInTurn
<1>6. serving = "shutdown" => ui = "call"
  BY DEF LoopInv, ExitStops
<1>7. SendsInTurn'
  <2>1. Closing' => Closing
    BY <1>1, <1>6 DEF Closing
  <2>2. ui' \in {"closing", "lock"} => ui' = ui
    BY <1>1
  <2> QED BY <1>1, <1>3, <2>1, <2>2 DEF LoopInv, SendsInTurn, Threads, Workers
<1>8. SaveIsAwaited'
  BY <1>1, <1>3, <1>6 DEF LoopInv, SaveIsAwaited
<1>9. ExitStops'
  <2>1. ui' # "gone" => \A i \in Places' : Queued(i)' = "shutdown" => ui' = "call"
    <3>1. serving = "save" => ui = "reply"
      BY DEF LoopInv, SaveIsAwaited
    <3> QED BY <1>1, <1>3, <3>1 DEF LoopInv, ExitStops
  <2>2. ui' = "gone" => \A t \in Workers : at'[t] = "off"
    BY <1>1 DEF LoopInv, ExitStops
  <2> QED BY <1>1, <2>1, <2>2 DEF ExitStops
<1> QED BY <1>4, <1>5, <1>7, <1>8, <1>9 DEF LoopInv

\* A click posts a closure; for a save the UI thread waits.
LEMMA UIPostsKeeps ==
  ASSUME LoopInv, NEW kind \in Sends["ui"], UIPosts(kind)
  PROVE  LoopInv'
<1>1. /\ Channel /\ Others /\ ui = "idle" /\ ~Blocked("ui") /\ Send("ui", kind)
      /\ ui' = IF kind = "save" THEN "reply" ELSE ui
      /\ UNCHANGED <<startup, serving, work, hide, at, stopped>>
      /\ kind \in Kinds \ {"shutdown"} /\ "ui" \in Threads
  BY TypesSplit, SendsFacts DEF LoopInv, UIPosts, UIFree, Threads
<1>2. /\ Channel'
      /\ \A i \in Places : i \in Places' /\ Queued(i)' = Queued(i)
      /\ \A i \in Places' : i \in Places \/ Queued(i)' = kind
      /\ \A i, j \in Places' : i \in Places \/ j \in Places \/ i = j
      /\ \A u \in Threads : u # "ui" => (Blocked(u)' <=> Blocked(u))
  BY <1>1, SendFacts
<1>3. TypeOK'
  BY <1>1, <1>2, TypesSplit DEF Others
<1>4. ServesInTurn'
  BY <1>1 DEF LoopInv, ServesInTurn
<1>5. SendsInTurn'
  BY <1>1, <1>2 DEF LoopInv, SendsInTurn, Closing, Threads, Workers
<1>6. SaveIsAwaited'
  <2>1. serving # "save" /\ \A i \in Places : Queued(i) # "save"
    BY <1>1 DEF LoopInv, SaveIsAwaited
  <2> QED BY <1>1, <1>2, <2>1 DEF SaveIsAwaited
<1>7. ExitStops'
  BY <1>1, <1>2 DEF LoopInv, ExitStops
<1> QED BY <1>3, <1>4, <1>5, <1>6, <1>7 DEF LoopInv

\* The UI thread closes, in two steps.
LEMMA ClosingKeeps == ASSUME LoopInv, UICloses \/ UIExits PROVE LoopInv'
<1>1. /\ UNCHANGED Queue /\ UNCHANGED <<startup, serving, work, at, stopped>>
      /\ \/ ui = "idle" /\ ~Blocked("ui") /\ ui' = "closing" /\ hide' = FALSE
         \/ ui = "closing" /\ ui' = "lock" /\ hide' = hide
  BY DEF UICloses, UIExits, UIFree, Queue
<1>2. Channel /\ Others
  BY TypesSplit DEF LoopInv
<1>3. /\ Channel' /\ Places' = Places /\ \A i \in Places : Queued(i)' = Queued(i)
      /\ \A t \in Threads : Blocked(t)' = Blocked(t)
  BY <1>1, <1>2, SameQueue
<1>4. TypeOK'
  BY <1>1, <1>2, <1>3, TypesSplit DEF Others
<1>5. ServesInTurn'
  BY <1>1 DEF LoopInv, ServesInTurn
<1>6. SendsInTurn'
  BY <1>1, <1>3 DEF LoopInv, SendsInTurn, Closing, Threads, Workers
<1>7. SaveIsAwaited' /\ ExitStops'
  BY <1>1, <1>3 DEF LoopInv, SaveIsAwaited, ExitStops
<1> QED BY <1>4, <1>5, <1>6, <1>7 DEF LoopInv

\* onExit has the loop stop everything.
LEMMA UICallsKeeps == ASSUME LoopInv, UICalls PROVE LoopInv'
<1>1. /\ Channel /\ Others /\ ui = "lock" /\ ~Blocked("ui") /\ Send("ui", "shutdown")
      /\ ui' = "call" /\ startup' = "done"
      /\ UNCHANGED <<serving, work, hide, at, stopped>>
      /\ "shutdown" \in Kinds /\ "ui" \in Threads
  BY TypesSplit DEF LoopInv, SendsInTurn, UICalls, Threads, Kinds
<1>2. /\ Channel'
      /\ \A i \in Places : i \in Places' /\ Queued(i)' = Queued(i)
      /\ \A i \in Places' : i \in Places \/ Queued(i)' = "shutdown"
      /\ \A u \in Threads : u # "ui" => (Blocked(u)' <=> Blocked(u))
  BY <1>1, SendFacts
<1>3. TypeOK'
  BY <1>1, <1>2, TypesSplit DEF Others
<1>4. ServesInTurn'
  BY <1>1 DEF LoopInv, ServesInTurn
<1>5. SendsInTurn'
  BY <1>1, <1>2 DEF LoopInv, SendsInTurn, Closing, Threads, Workers
<1>6. SaveIsAwaited'
  BY <1>1, <1>2 DEF LoopInv, SaveIsAwaited
<1>7. ExitStops'
  BY <1>1 DEF LoopInv, ExitStops
<1> QED BY <1>3, <1>4, <1>5, <1>6, <1>7 DEF LoopInv

\* Every step of the loop and its threads keeps the loop's invariant.
LEMMA LoopKeeps == LoopInv /\ ui # "gone" /\ Loop => LoopInv'
BY TakeKeeps, BeginStartupKeeps, ChooseKeeps, CloseStopKeeps, StopReturnsKeeps, StartWorkerKeeps,
   HotkeyKeeps, WorkersKeep DEF Loop

\* So does what the senders do of their own accord.
LEMMA SendersKeep == LoopInv /\ Senders => LoopInv'
<1> SUFFICES ASSUME LoopInv, Senders PROVE LoopInv'
  OBVIOUS
<1>1. CASE \E kind \in Sends["other"] : OtherSends(kind)
  BY <1>1, OthersSendKeep, SendsFacts DEF OtherSends
<1> QED BY <1>1, WorkersKeep, OthersSendKeep, UIPostsKeeps DEF Senders
-----------------------------------------------------------------------------
(* The icon *)

\* Images and the two values that are none.
LEMMA ImageFacts ==
  /\ Tray!NoImage \notin Tray!Images /\ <<"blank">> \notin Tray!Images
  /\ <<"blank">> # Tray!NoImage /\ Tray!Images \subseteq AnyImage /\ Tray!NoImage \in AnyImage
  /\ \A image \in Tray!Images : image[1] \in Tray!Themes /\ image[2] \in SidesOrLargest
  /\ \A t \in Tray!Themes, s \in SidesOrLargest : <<t, s>> \in Tray!Images
  /\ \A s \in SidesOrLargest : <<"none", s>> \in AnyImage /\ <<"none", s>>[2] = s
BY DEF Tray!NoImage, Tray!Images, Tray!Themes, SidesOrLargest, AnyImage

JobTypes ==
    /\ job \in [{"loop", "ui"} -> [at: {"rest", "measure", "set", "tip"}, image: AnyImage]]
    /\ job["loop"].at \in {"set", "tip"} => job["loop"].image \in Tray!Images
    /\ job["loop"].at \in {"rest", "set", "tip"}
    /\ job["ui"].at = "set" => job["ui"].image[2] \in SidesOrLargest

IconTypes ==
    /\ tray \in [life: {"new", "there", "gone"}, started: BOOLEAN,
                 icon: Tray!Images \cup {Tray!NoImage}, key: Tray!Images \cup {Tray!NoImage}]
    /\ shell \in [up: BOOLEAN, shows: Tray!Images \cup {<<"blank">>, Tray!NoImage},
                  side: Sides, coming: Sides]
    /\ seen \in [refused: BOOLEAN, lost: BOOLEAN, moves: 0 .. MaxMoves]

NewsTypes ==
    /\ probe \in 0 .. ProbeLimit - 1 \cup {Tray!Off}
    /\ news \subseteq {"display", "theme", "taskbar", "start"}
    /\ note \in {"none", "asked", "sent"}
    /\ theme \in Tray!Themes /\ dark \in Tray!Themes \cup {"none"}

\* The types of the tray's state, by what changes together.
LEMMA TraySplit ==
  (TrayTypes <=> JobTypes /\ IconTypes /\ NewsTypes)
  /\ (TrayTypes' <=> JobTypes' /\ IconTypes' /\ NewsTypes')
BY DEF TrayTypes, Tray!TypeOK, Shapes, JobTypes, IconTypes, NewsTypes, AnyImage

\* Nothing was said to have a probe or a news that it could not have.
LEMMA ProbeFacts ==
  /\ 0 \in 0 .. ProbeLimit - 1
  /\ \A q \in 0 .. ProbeLimit - 1 \cup {Tray!Off} :
        q # Tray!Off /\ q + 1 # ProbeLimit => q + 1 \in 0 .. ProbeLimit - 1
BY TrayAssumption DEF Tray!Off

\* An image is set: Explorer shows it, or it is recorded that it was refused.
LEMMA SetImageKeeps ==
  ASSUME IconTypes, IconIsShown, NEW image \in Tray!Images, Tray!SetImage(image)
  PROVE  IconTypes' /\ IconIsShown' /\ tray'.life = tray.life
<1>1. CASE image = tray.key
  BY <1>1 DEF Tray!SetImage, IconTypes, IconIsShown
<1>2. CASE image # tray.key /\ shell.shows = Tray!NoImage
  <2>1. /\ tray' = [tray EXCEPT !.icon = image, !.key = tray.key]
        /\ shell' = shell
        /\ seen' = [seen EXCEPT !.refused = (seen.refused \/ TRUE)]
    BY <1>2 DEF Tray!SetImage, Tray!Recorded
  <2>2. seen' = [seen EXCEPT !.refused = TRUE]
    BY <2>1
  <2>3. IconTypes'
    BY <2>1, <2>2 DEF IconTypes
  <2>4. seen'.refused /\ tray'.life = tray.life
    BY <2>1, <2>2 DEF IconTypes
  <2> QED BY <2>1, <2>3, <2>4 DEF IconIsShown
<1>3. CASE image # tray.key /\ shell.shows # Tray!NoImage
  <2>1. /\ tray' = [tray EXCEPT !.icon = image, !.key = image]
        /\ shell' = [shell EXCEPT !.shows = image]
        /\ seen' = [seen EXCEPT !.refused = (seen.refused \/ FALSE)]
    BY <1>3 DEF Tray!SetImage, Tray!Recorded
  <2>2. seen' = [seen EXCEPT !.refused = seen.refused]
    <3>1. seen.refused \in BOOLEAN
      BY DEF IconTypes
    <3>2. (seen.refused \/ FALSE) = seen.refused
      BY <3>1, Zenon
    <3> QED BY <2>1, <3>2, Zenon
  <2>3. IconTypes'
    BY <2>1, <2>2 DEF IconTypes
  <2>4. tray'.life = tray.life /\ tray'.icon = image /\ tray'.key = image /\ shell'.shows = image
    BY <2>1 DEF IconTypes
  <2>5. tray.life # "gone"
    BY <1>3 DEF IconIsShown
  <2> QED BY <2>3, <2>4, <2>5 DEF IconIsShown
<1> QED BY <1>1, <1>2, <1>3

\* A size is asked for, a window is told, a job begins or ends: what Explorer
\* shows stays.
LEMMA QuietKeeps ==
  ASSUME TrayTypes, IconIsShown, UNCHANGED <<tray, shell>>,
         \/ UNCHANGED seen
         \/ \E b \in BOOLEAN : seen' = [seen EXCEPT !.lost = b]
         \/ Tray!Move,
         JobTypes', NewsTypes'
  PROVE  TrayTypes' /\ IconIsShown' /\ tray'.life = tray.life
<1>1. IconTypes
  BY TraySplit
<1>2. seen' \in [refused: BOOLEAN, lost: BOOLEAN, moves: 0 .. MaxMoves] /\ seen'.refused = seen.refused
  <2>1. CASE UNCHANGED seen
    BY <1>1, <2>1 DEF IconTypes
  <2>2. ASSUME NEW b \in BOOLEAN, seen' = [seen EXCEPT !.lost = b]
        PROVE  seen' \in [refused: BOOLEAN, lost: BOOLEAN, moves: 0 .. MaxMoves]
               /\ seen'.refused = seen.refused
    BY <1>1, <2>2 DEF IconTypes
  <2>3. CASE Tray!Move
    <3>1. seen' = [seen EXCEPT !.moves = seen.moves + 1] /\ seen.moves \in 0 .. MaxMoves
          /\ seen.moves + 1 \in 0 .. MaxMoves
      BY <1>1, <2>3, TrayAssumption DEF Tray!Move, IconTypes
    <3> QED BY <1>1, <3>1 DEF IconTypes
  <2> QED BY <2>1, <2>2, <2>3
<1>3. IconTypes'
  BY <1>1, <1>2 DEF IconTypes
<1> QED BY <1>2, <1>3, TraySplit DEF IconIsShown

\* Explorer changes: it shows what it was given, or nothing.
LEMMA ShellKeeps ==
  ASSUME TrayTypes, IconIsShown, UNCHANGED tray, JobTypes', NewsTypes',
         UNCHANGED seen \/ Tray!Move,
         shell' \in [up: BOOLEAN, shows: Tray!Images \cup {<<"blank">>, Tray!NoImage},
                     side: Sides, coming: Sides],
         \/ shell'.shows = shell.shows \/ shell'.shows = Tray!NoImage
         \/ shell'.shows = Tray!Shown(tray.icon) /\ tray.life # "gone"
  PROVE  TrayTypes' /\ IconIsShown' /\ tray'.life = tray.life
<1>1. IconTypes
  BY TraySplit
<1>2. seen' \in [refused: BOOLEAN, lost: BOOLEAN, moves: 0 .. MaxMoves] /\ seen'.refused = seen.refused
  <2>1. CASE UNCHANGED seen
    BY <1>1, <2>1 DEF IconTypes
  <2>2. CASE Tray!Move
    <3>1. seen' = [seen EXCEPT !.moves = seen.moves + 1] /\ seen.moves \in 0 .. MaxMoves
          /\ seen.moves + 1 \in 0 .. MaxMoves
      BY <1>1, <2>2, TrayAssumption DEF Tray!Move, IconTypes
    <3> QED BY <1>1, <3>1 DEF IconTypes
  <2> QED BY <2>1, <2>2
<1>3. IconTypes'
  BY <1>1, <1>2 DEF IconTypes
<1>4. IconIsShown'
  <2>1. /\ tray'.life = "gone" => shell'.shows = Tray!NoImage
        /\ seen'.refused \/ tray'.icon = tray'.key
    BY <1>2 DEF IconIsShown
  <2>2. shell'.shows \in Tray!Images => seen'.refused \/ shell'.shows = tray'.key
    BY <1>2, ImageFacts DEF IconIsShown, Tray!Shown
  <2> QED BY <2>1, <2>2 DEF IconIsShown
<1> QED BY <1>3, <1>4, TraySplit

\* The UI thread asks for the icon's size once more.
LEMMA ConvergeKeeps ==
  ASSUME JobTypes, job' = [job EXCEPT !["ui"] = [at |-> "measure", image |-> Tray!NoImage]]
  PROVE  JobTypes'
<1>1. [at |-> "measure", image |-> Tray!NoImage] \in [at: {"rest", "measure", "set", "tip"}, image: AnyImage]
  BY ImageFacts
<1>2. job'["loop"] = job["loop"] /\ job'["ui"].at = "measure"
  BY DEF JobTypes
<1> QED BY <1>1, <1>2 DEF JobTypes

\* The window's messages and the timer move only the job and the queue.
LEMMA WindowIsQuiet ==
  ASSUME TrayTypes, IconIsShown,
         \/ \E n \in {"display", "start"} : Tray!DisplayNews(n)
         \/ Tray!Probe \/ Tray!UIMeasures \/ Tray!Closes
         \/ \E told, waiting \in BOOLEAN : Tray!ThemeNews(told, waiting)
  PROVE  TrayTypes' /\ IconIsShown' /\ tray'.life = tray.life
<1> USE TraySplit
<1>1. ASSUME NEW n \in {"display", "start"}, Tray!DisplayNews(n)
      PROVE  TrayTypes' /\ IconIsShown' /\ tray'.life = tray.life
  <2>1. /\ UNCHANGED <<tray, shell, seen, note, theme, dark>> /\ news' = news \ {n} /\ probe' = 0
        /\ job' = [job EXCEPT !["ui"] = [at |-> "measure", image |-> Tray!NoImage]]
    BY <1>1 DEF Tray!DisplayNews, Tray!Converge
  <2>2. JobTypes'
    BY <2>1, ConvergeKeeps
  <2>3. NewsTypes'
    BY <2>1, ProbeFacts DEF NewsTypes
  <2> QED BY <2>1, <2>2, <2>3, QuietKeeps
<1>2. CASE Tray!Probe
  <2>1. /\ UNCHANGED <<tray, shell, seen, news, note, theme, dark>> /\ probe # Tray!Off
        /\ probe' = IF probe + 1 = ProbeLimit THEN Tray!Off ELSE probe + 1
        /\ job' = [job EXCEPT !["ui"] = [at |-> "measure", image |-> Tray!NoImage]]
    BY <1>2 DEF Tray!Probe
  <2>2. JobTypes'
    BY <2>1, ConvergeKeeps
  <2>3. probe' \in 0 .. ProbeLimit - 1 \cup {Tray!Off}
    BY <2>1, ProbeFacts DEF NewsTypes
  <2>4. NewsTypes'
    BY <2>1, <2>3 DEF NewsTypes
  <2> QED BY <2>1, <2>2, <2>4, QuietKeeps
<1>3. CASE Tray!UIMeasures
  <2>1. /\ UNCHANGED <<tray, shell, seen, probe, news, note, theme, dark>>
        /\ job' = [job EXCEPT !["ui"] = [at |-> "set", image |-> <<"none", Tray!Side>>]]
    BY <1>3 DEF Tray!UIMeasures
  <2>2. Tray!Side \in SidesOrLargest
    BY DEF Tray!Side, SidesOrLargest, IconTypes
  <2>3. JobTypes'
    <3>1. <<"none", Tray!Side>> \in AnyImage /\ <<"none", Tray!Side>>[2] \in SidesOrLargest
      BY <2>2, ImageFacts
    <3>2. PICK image \in AnyImage : image = <<"none", Tray!Side>> /\ image[2] \in SidesOrLargest
      BY <3>1
    <3>3. job'["loop"] = job["loop"] /\ job'["ui"] = [at |-> "set", image |-> image]
      BY <2>1, <3>2 DEF JobTypes
    <3> QED BY <2>1, <3>2, <3>3 DEF JobTypes
  <2>4. NewsTypes'
    BY <2>1 DEF NewsTypes
  <2> QED BY <2>1, <2>3, <2>4, QuietKeeps
<1>4. CASE Tray!Closes
  <2>1. UNCHANGED <<tray, shell, seen, job, note, theme, dark>> /\ probe' = Tray!Off /\ news' = {}
    BY <1>4 DEF Tray!Closes
  <2>2. JobTypes'
    BY <2>1 DEF JobTypes
  <2>3. NewsTypes'
    BY <2>1 DEF NewsTypes
  <2> QED BY <2>1, <2>2, <2>3, QuietKeeps
<1>5. ASSUME NEW told \in BOOLEAN, NEW waiting \in BOOLEAN, Tray!ThemeNews(told, waiting)
      PROVE  TrayTypes' /\ IconIsShown' /\ tray'.life = tray.life
  <2>1. /\ UNCHANGED <<tray, shell, theme, dark>> /\ news' = news \ {"theme"} /\ probe' = 0
        /\ job' = [job EXCEPT !["ui"] = [at |-> "measure", image |-> Tray!NoImage]]
        /\ note' \in {note, "asked"}
        /\ seen' = [seen EXCEPT !.lost = seen.lost \/ ~told \/ (note = "sent" /\ ~waiting)]
    BY <1>5 DEF Tray!ThemeNews, Tray!Converge
  <2>2. JobTypes'
    BY <2>1, ConvergeKeeps
  <2>3. NewsTypes'
    BY <2>1, ProbeFacts DEF NewsTypes
  <2>4. PICK b \in BOOLEAN : seen' = [seen EXCEPT !.lost = b]
    <3>1. seen.lost \/ ~told \/ (note = "sent" /\ ~waiting) \in BOOLEAN
      BY Zenon DEF IconTypes
    <3> QED BY <2>1, <3>1, Zenon
  <2> QED BY <2>1, <2>2, <2>3, <2>4, QuietKeeps
<1> QED BY <1>1, <1>2, <1>3, <1>4, <1>5

\* The loop asks for the size, sets the text; a refresh is asked for; the theme changes.
LEMMA LoopIsQuiet ==
  ASSUME TrayTypes, IconIsShown,
         \/ Tray!Measures \/ Tray!Tips \/ Tray!NoteSent \/ Tray!NoteEnds
         \/ \E closing \in BOOLEAN : Tray!ThemeChanges(closing)
         \/ Tray!Move /\ UNCHANGED <<tray, shell, probe, news, job, note, theme, dark>>
  PROVE  TrayTypes' /\ IconIsShown' /\ tray'.life = tray.life
<1> USE TraySplit
<1>1. CASE Tray!Measures
  <2>1. /\ UNCHANGED <<tray, shell, seen, probe, news, note, theme, dark>>
        /\ job' = [job EXCEPT !["loop"] = [at |-> "set", image |-> <<theme, Tray!Side>>]]
    BY <1>1 DEF Tray!Measures
  <2>2. Tray!Side \in SidesOrLargest /\ theme \in Tray!Themes
    BY DEF Tray!Side, SidesOrLargest, IconTypes, NewsTypes
  <2>3. JobTypes'
    <3>1. PICK image \in Tray!Images : image = <<theme, Tray!Side>>
      BY <2>2, ImageFacts
    <3>2. image \in AnyImage
      BY ImageFacts
    <3>3. job'["ui"] = job["ui"] /\ job'["loop"] = [at |-> "set", image |-> image]
      BY <2>1, <3>1 DEF JobTypes
    <3>4. job'["loop"].at = "set" /\ job'["loop"].image = image
      BY <3>3
    <3> QED BY <2>1, <3>1, <3>2, <3>3, <3>4 DEF JobTypes
  <2>4. NewsTypes'
    BY <2>1 DEF NewsTypes
  <2> QED BY <2>1, <2>3, <2>4, QuietKeeps
<1>2. CASE Tray!Tips
  <2>1. /\ UNCHANGED <<tray, shell, seen, probe, news, note, theme, dark>>
        /\ job' = [job EXCEPT !["loop"] = Tray!Rest]
    BY <1>2 DEF Tray!Tips
  <2>2. JobTypes'
    <3>1. Tray!Rest \in [at: {"rest", "measure", "set", "tip"}, image: AnyImage] /\ Tray!Rest.at = "rest"
      BY ImageFacts DEF Tray!Rest
    <3>2. job'["ui"] = job["ui"] /\ job'["loop"] = Tray!Rest
      BY <2>1 DEF JobTypes
    <3> HIDE DEF Tray!Rest
    <3> QED BY <2>1, <3>1, <3>2 DEF JobTypes
  <2>3. NewsTypes'
    BY <2>1 DEF NewsTypes
  <2> QED BY <2>1, <2>2, <2>3, QuietKeeps
<1>3. CASE Tray!NoteSent \/ Tray!NoteEnds
  <2>1. UNCHANGED <<tray, shell, seen, probe, news, job, theme, dark>> /\ note' \in {"sent", "none"}
    BY <1>3 DEF Tray!NoteSent, Tray!NoteEnds
  <2>2. JobTypes' /\ NewsTypes'
    BY <2>1 DEF JobTypes, NewsTypes
  <2> QED BY <2>1, <2>2, QuietKeeps
<1>4. ASSUME NEW closing \in BOOLEAN, Tray!ThemeChanges(closing)
      PROVE  TrayTypes' /\ IconIsShown' /\ tray'.life = tray.life
  <2>1. /\ UNCHANGED <<tray, shell, probe, job, note, dark>> /\ Tray!Move
        /\ theme' \in Tray!Themes /\ news' \in {news, news \cup {"theme"}}
    BY <1>4 DEF Tray!ThemeChanges, Tray!Told
  <2>2. JobTypes' /\ NewsTypes'
    BY <2>1 DEF JobTypes, NewsTypes
  <2> QED BY <2>1, <2>2, QuietKeeps
<1>5. CASE Tray!Move /\ UNCHANGED <<tray, shell, probe, news, job, note, theme, dark>>
  <2>1. JobTypes' /\ NewsTypes'
    BY <1>5 DEF JobTypes, NewsTypes
  <2> QED BY <1>5, <2>1, QuietKeeps
<1> QED BY <1>1, <1>2, <1>3, <1>4, <1>5

\* Explorer ends, comes back, is asked for an icon again, and lays its icons out.
LEMMA ExplorerKeeps ==
  ASSUME TrayTypes, IconIsShown,
         \/ Tray!LaysOut \/ Tray!ExplorerEnds
         \/ \E closing \in BOOLEAN : Tray!DisplayChanges(closing) \/ Tray!ExplorerStarts(closing)
         \/ Tray!TaskbarNews /\ tray.life # "gone"
  PROVE  TrayTypes' /\ IconIsShown' /\ tray'.life = tray.life
<1> USE TraySplit
<1>1. CASE Tray!LaysOut \/ Tray!ExplorerEnds
  <2>1. /\ UNCHANGED <<tray, probe, news, job, note, theme, dark>> /\ (UNCHANGED seen \/ Tray!Move)
        /\ \/ shell' = [shell EXCEPT !.side = shell.coming]
           \/ shell' = [shell EXCEPT !.up = FALSE, !.shows = Tray!NoImage]
    BY <1>1 DEF Tray!LaysOut, Tray!ExplorerEnds
  <2>2. JobTypes' /\ NewsTypes'
    BY <2>1 DEF JobTypes, NewsTypes
  <2>3. /\ shell' \in [up: BOOLEAN, shows: Tray!Images \cup {<<"blank">>, Tray!NoImage},
                       side: Sides, coming: Sides]
        /\ shell'.shows = shell.shows \/ shell'.shows = Tray!NoImage
    BY <2>1 DEF IconTypes
  <2> QED BY <2>1, <2>2, <2>3, ShellKeeps
<1>2. ASSUME NEW closing \in BOOLEAN, Tray!DisplayChanges(closing) \/ Tray!ExplorerStarts(closing)
      PROVE  TrayTypes' /\ IconIsShown' /\ tray'.life = tray.life
  <2>1. /\ UNCHANGED <<tray, probe, job, note, theme, dark>> /\ (UNCHANGED seen \/ Tray!Move)
        /\ news' \in {news, news \cup {"display"}, news \cup {"taskbar"}}
        /\ \/ \E s \in Sides : shell' = [shell EXCEPT !.coming = s]
           \/ shell' = [shell EXCEPT !.up = TRUE]
    BY <1>2 DEF Tray!DisplayChanges, Tray!ExplorerStarts, Tray!Told
  <2>2. JobTypes' /\ NewsTypes'
    BY <2>1 DEF JobTypes, NewsTypes
  <2>3. /\ shell' \in [up: BOOLEAN, shows: Tray!Images \cup {<<"blank">>, Tray!NoImage},
                       side: Sides, coming: Sides]
        /\ shell'.shows = shell.shows
    BY <2>1 DEF IconTypes
  <2> QED BY <2>1, <2>2, <2>3, ShellKeeps
<1>3. CASE Tray!TaskbarNews /\ tray.life # "gone"
  <2>1. /\ UNCHANGED <<tray, seen, note, theme, dark>> /\ news' = news \ {"taskbar"} /\ probe' = 0
        /\ job' = [job EXCEPT !["ui"] = [at |-> "measure", image |-> Tray!NoImage]]
        /\ shell' = shell \/ shell' = [shell EXCEPT !.shows = Tray!Shown(tray.icon)]
    BY <1>3 DEF Tray!TaskbarNews, Tray!Converge
  <2>2. JobTypes'
    BY <2>1, ConvergeKeeps
  <2>3. NewsTypes'
    BY <2>1, ProbeFacts DEF NewsTypes
  <2>4. Tray!Shown(tray.icon) \in Tray!Images \cup {<<"blank">>, Tray!NoImage}
    BY DEF Tray!Shown, IconTypes
  <2>5. /\ shell' \in [up: BOOLEAN, shows: Tray!Images \cup {<<"blank">>, Tray!NoImage},
                       side: Sides, coming: Sides]
        /\ shell'.shows = shell.shows \/ shell'.shows = Tray!Shown(tray.icon)
    BY <2>1, <2>4 DEF IconTypes
  <2> QED BY <1>3, <2>1, <2>2, <2>3, <2>5, ShellKeeps
<1> QED BY <1>1, <1>2, <1>3

\* The two threads set the icon.
LEMMA SettingKeeps ==
  ASSUME TrayTypes, IconIsShown,
         Tray!UISets \/ \E closing \in BOOLEAN : Tray!Sets(closing)
  PROVE  TrayTypes' /\ IconIsShown' /\ tray'.life = tray.life
<1> USE TraySplit
<1>1. CASE Tray!UISets
  <2>1. /\ job["ui"].at = "set" /\ job' = [job EXCEPT !["ui"] = Tray!Rest]
        /\ UNCHANGED <<probe, news, note, theme, dark>>
    BY <1>1 DEF Tray!UISets
  <2>2. JobTypes'
    <3>1. Tray!Rest \in [at: {"rest", "measure", "set", "tip"}, image: AnyImage] /\ Tray!Rest.at = "rest"
      BY ImageFacts DEF Tray!Rest
    <3>2. job'["loop"] = job["loop"] /\ job'["ui"] = Tray!Rest
      BY <2>1 DEF JobTypes
    <3> HIDE DEF Tray!Rest
    <3> QED BY <2>1, <3>1, <3>2 DEF JobTypes
  <2>3. NewsTypes'
    BY <2>1 DEF NewsTypes
  <2>4. CASE tray.key = Tray!NoImage
    <3>1. UNCHANGED <<tray, shell, seen>>
      BY <1>1, <2>4 DEF Tray!UISets
    <3> QED BY <2>2, <2>3, <3>1, QuietKeeps
  <2>5. CASE tray.key # Tray!NoImage
    <3>1. tray.key \in Tray!Images /\ job["ui"].image[2] \in SidesOrLargest
      BY <2>1, <2>5 DEF IconTypes, JobTypes
    <3>2. PICK image \in Tray!Images : image = <<tray.key[1], job["ui"].image[2]>>
      BY <3>1, ImageFacts
    <3>3. Tray!SetImage(image)
      BY <1>1, <2>5, <3>2 DEF Tray!UISets
    <3> QED BY <2>2, <2>3, <3>3, SetImageKeeps
  <2> QED BY <2>4, <2>5
<1>2. ASSUME NEW closing \in BOOLEAN, Tray!Sets(closing)
      PROVE  TrayTypes' /\ IconIsShown' /\ tray'.life = tray.life
  <2>1. /\ job["loop"].at = "set" /\ job' = [job EXCEPT !["loop"].at = "tip"]
        /\ UNCHANGED <<probe, note, theme>> /\ dark' = job["loop"].image[1]
        /\ news' \in {news, news \cup {"start"}}
        /\ Tray!SetImage(job["loop"].image)
    BY <1>2 DEF Tray!Sets
  <2>2. job["loop"].image \in Tray!Images /\ job["loop"].image[1] \in Tray!Themes
    BY <2>1, ImageFacts DEF JobTypes
  <2>3. JobTypes'
    <3>1. job'["ui"] = job["ui"] /\ job'["loop"].at = "tip" /\ job'["loop"].image = job["loop"].image
          /\ job' \in [{"loop", "ui"} -> [at: {"rest", "measure", "set", "tip"}, image: AnyImage]]
      BY <2>1 DEF JobTypes
    <3> QED BY <2>2, <3>1 DEF JobTypes
  <2>4. NewsTypes'
    BY <2>1, <2>2 DEF NewsTypes
  <2> QED BY <2>1, <2>2, <2>3, <2>4, SetImageKeeps
<1> QED BY <1>1, <1>2

\* The icon is added, and removed.
LEMMA LifeKeeps ==
  ASSUME TrayTypes, IconIsShown
  PROVE  /\ Tray!Registers => TrayTypes' /\ IconIsShown' /\ tray.life = "new" /\ tray'.life = "there"
         /\ Tray!Removes => TrayTypes' /\ IconIsShown' /\ tray'.life = "gone"
<1> USE TraySplit
<1>1. ASSUME Tray!Registers
      PROVE  TrayTypes' /\ IconIsShown' /\ tray.life = "new" /\ tray'.life = "there"
  <2>1. /\ UNCHANGED <<probe, news, job, note, theme, dark, seen>> /\ tray.life = "new"
        /\ tray' = [tray EXCEPT !.life = "there", !.started = shell.up]
        /\ shell' = shell \/ shell' = [shell EXCEPT !.shows = <<"blank">>]
    BY <1>1 DEF Tray!Registers, Tray!Shown
  <2>2. JobTypes' /\ NewsTypes'
    BY <2>1 DEF JobTypes, NewsTypes
  <2>3. IconTypes' /\ tray'.life = "there" /\ tray'.icon = tray.icon /\ tray'.key = tray.key
        /\ (shell'.shows = shell.shows \/ shell'.shows = <<"blank">>)
    BY <2>1 DEF IconTypes
  <2>4. IconIsShown'
    BY <2>1, <2>3, ImageFacts DEF IconIsShown
  <2> QED BY <2>1, <2>2, <2>3, <2>4
<1>2. ASSUME Tray!Removes PROVE TrayTypes' /\ IconIsShown' /\ tray'.life = "gone"
  <2>1. /\ UNCHANGED <<probe, news, job, note, theme, dark, seen>>
        /\ tray' = [tray EXCEPT !.life = "gone", !.icon = Tray!NoImage, !.key = Tray!NoImage]
        /\ shell' = [shell EXCEPT !.shows = Tray!NoImage]
    BY <1>2 DEF Tray!Removes, Tray!Removed
  <2>2. JobTypes' /\ NewsTypes'
    BY <2>1 DEF JobTypes, NewsTypes
  <2>3. IconTypes' /\ tray'.life = "gone" /\ tray'.icon = Tray!NoImage /\ tray'.key = Tray!NoImage
        /\ shell'.shows = Tray!NoImage
    BY <2>1 DEF IconTypes
  <2>4. IconIsShown'
    BY <2>3, ImageFacts DEF IconIsShown
  <2> QED BY <2>2, <2>3, <2>4
<1> QED BY <1>1, <1>2
-----------------------------------------------------------------------------
(* The clients *)

\* A step inside the program moves no client.
LEMMA InsideKeeps ==
  ASSUME PipeInv, Running, UNCHANGED <<pipeVars, scene>>, CallersAreServed'
  PROVE  PipeInv'
<1>1. ui # "gone" /\ life' = life /\ pipe' = pipe /\ client' = client /\ callers' = callers /\ scene' = scene
  BY DEF Running, pipeVars
<1>2. Pipe!TypeOK'
  BY <1>1 DEF PipeInv, Pipe!TypeOK
<1>3. /\ \A i \in DOMAIN callers' : client'[callers'[i]] = "calling"
      /\ scene' # "clients" => \A c \in Launches \cup Commands : client'[c] = "new"
      /\ scene' \in {"threads", "clients", "shell"}
  BY <1>1 DEF PipeInv
<1>4. (life' # "up" => scene' = "shell") /\ \A c \in Launches : client'[c] # "primary"
  BY <1>1 DEF PipeInv
<1> QED BY <1>2, <1>3, <1>4 DEF PipeInv

\* What leaves the channel and the UI thread alone leaves it to the same callers.
LEMMA SameServed ==
  ASSUME CallersAreServed, UNCHANGED <<requests, senders, serving, callers, scene>>,
         scene = "clients" => at'["monitor"] = "off",
         \/ UNCHANGED ui
         \/ ui \in {"idle", "closing"} /\ ui' \in {"closing", "lock"}
  PROVE  CallersAreServed'
BY DEF CallersAreServed, Places, Queued, Pending

\* The loop takes a caller's closure.
LEMMA TakeServes ==
  ASSUME LoopInv, CallersAreServed, Take, UNCHANGED <<callers, scene>>
  PROVE  CallersAreServed'
<1> SUFFICES ASSUME scene = "clients" PROVE CallersAreServed'
  BY DEF CallersAreServed
<1>1. Channel /\ serving = "none" /\ UNCHANGED <<ui, at>>
  BY TypesSplit DEF LoopInv, Take
<1>2. /\ 1 \in Places /\ serving' = Queued(1)
      /\ Len(requests') + Len(senders') = Len(requests) + Len(senders) - 1
      /\ \A i \in Places' : i \in Nat /\ i + 1 \in Places /\ Queued(i)' = Queued(i + 1)
      /\ \A i \in Places : i # 1 => i - 1 \in Places' /\ Queued(i - 1)' = Queued(i)
      /\ \A i \in DOMAIN senders' : \E j \in DOMAIN senders : senders'[i] = senders[j]
  BY <1>1, TakeFacts
<1>3. /\ \A i \in Places : Queued(i) \in ClientKinds \cup {"shutdown"}
      /\ \A i \in DOMAIN senders : senders[i].from \in {"other", "ui"}
      /\ at["monitor"] = "off" /\ ui # "reply"
      /\ ui = "call" => \E i \in Places : Queued(i) = "shutdown"
      /\ ui # "gone" => Pending = Len(callers) + IF ui = "call" THEN 1 ELSE 0
  BY <1>1 DEF CallersAreServed
<1>4. \A i \in Places' : Queued(i)' \in ClientKinds \cup {"shutdown"}
  BY <1>2, <1>3
<1>5. serving' \in ClientKinds \cup {"shutdown"}
  BY <1>2, <1>3
<1>6. \A i \in DOMAIN senders' : senders'[i].from \in {"other", "ui"}
  BY <1>2, <1>3
<1>7. ui' = "call" => serving' = "shutdown" \/ \E i \in Places' : Queued(i)' = "shutdown"
  BY <1>1, <1>2, <1>3
<1>8. Pending' = Pending
  <2>1. Pending = Len(requests) + Len(senders) + 0
    BY <1>1 DEF Pending, ClientKinds
  <2>2. Pending' = Len(requests') + Len(senders') + 1
    BY <1>5 DEF Pending
  <2>3. Len(requests) \in Nat /\ Len(senders) \in Nat
    BY <1>1, ChannelFacts
  <2> QED BY <1>2, <2>1, <2>2, <2>3
<1> QED BY <1>1, <1>3, <1>4, <1>5, <1>6, <1>7, <1>8 DEF CallersAreServed

\* onReady begins.
LEMMA StartupServes ==
  ASSUME LoopInv, CallersAreServed, BeginStartup, UNCHANGED <<callers, scene>>
  PROVE  CallersAreServed'
<1>1. /\ UNCHANGED <<requests, senders, ui, at>> /\ serving = "none" /\ serving' = "startup"
  BY DEF LoopInv, ServesInTurn, BeginStartup
<1>2. Pending' = Pending
  BY <1>1 DEF Pending, ClientKinds
<1> QED BY <1>1, <1>2 DEF CallersAreServed, Places, Queued

\* A line, or the exit's closure, is sent.
LEMMA SendServes ==
  ASSUME LoopInv, CallersAreServed, scene = "clients", UNCHANGED <<serving, at, scene>>, ui # "gone",
         \/ \E kind \in ClientKinds :
               Send("other", kind) /\ UNCHANGED ui /\ Len(callers') = Len(callers) + 1
         \/ Send("ui", "shutdown") /\ ui = "lock" /\ ui' = "call" /\ callers' = callers,
         Len(callers) \in Nat
  PROVE  CallersAreServed'
<1>1. Channel
  BY TypesSplit DEF LoopInv
<1>2. PICK t \in {"other", "ui"}, kind \in ClientKinds \cup {"shutdown"} :
         /\ Send(t, kind) /\ (t = "other" \/ ~Blocked(t))
         /\ \/ t = "other" /\ ui' = ui /\ Len(callers') = Len(callers) + 1
            \/ t = "ui" /\ kind = "shutdown" /\ ui = "lock" /\ ui' = "call" /\ callers' = callers
  BY DEF LoopInv, SendsInTurn
<1>3. t \in Threads /\ kind \in Kinds
  BY DEF Threads, Kinds, ClientKinds
<1>4. /\ Len(requests') + Len(senders') = Len(requests) + Len(senders) + 1
      /\ \A i \in Places : i \in Places' /\ Queued(i)' = Queued(i)
      /\ \A i \in Places' : i \in Places \/ Queued(i)' = kind
      /\ \E i \in Places' : Queued(i)' = kind
      /\ \A i \in DOMAIN senders' :
            (i \in DOMAIN senders /\ senders'[i] = senders[i]) \/ senders'[i].from = t
  BY <1>1, <1>2, <1>3, SendFacts
<1>5. \A i \in Places' : Queued(i)' \in ClientKinds \cup {"shutdown"}
  BY <1>2, <1>4 DEF CallersAreServed
<1>6. \A i \in DOMAIN senders' : senders'[i].from \in {"other", "ui"}
  BY <1>2, <1>4 DEF CallersAreServed
<1>7. ui' = "call" => serving' = "shutdown" \/ \E i \in Places' : Queued(i)' = "shutdown"
  BY <1>2, <1>4 DEF CallersAreServed
<1>8. Pending' = Pending + 1
  <2>1. PICK n \in Nat : n = IF serving \in ClientKinds \cup {"shutdown"} THEN 1 ELSE 0
    OBVIOUS
  <2>2. Pending = Len(requests) + Len(senders) + n /\ Pending' = Len(requests') + Len(senders') + n
    BY <2>1 DEF Pending
  <2>3. Len(requests) \in Nat /\ Len(senders) \in Nat
    BY <1>1, ChannelFacts
  <2> QED BY <1>4, <2>2, <2>3
<1>9. Pending' = Len(callers') + IF ui' = "call" THEN 1 ELSE 0
  <2>1. Pending = Len(callers) + IF ui = "call" THEN 1 ELSE 0
    BY DEF CallersAreServed
  <2> QED BY <1>2, <1>8, <2>1
<1> QED BY <1>2, <1>5, <1>6, <1>7, <1>9 DEF CallersAreServed

\* The callers are different clients.
LEMMA CallerFacts ==
  ASSUME PipeInv
  PROVE  /\ callers \in Seq(Pipe!Clients) /\ Len(callers) \in Nat /\ DOMAIN callers = 1 .. Len(callers)
         /\ client \in [Pipe!Clients -> Pipe!Places]
         /\ \A i, j \in DOMAIN callers : i # j => callers[i] # callers[j]
         /\ \A i \in DOMAIN callers : callers[i] \in Pipe!Clients /\ client[callers[i]] = "calling"
<1>1. /\ callers \in Seq(Pipe!Clients) /\ client \in [Pipe!Clients -> Pipe!Places]
      /\ \A i, j \in DOMAIN callers : i # j => callers[i] # callers[j]
      /\ \A i \in DOMAIN callers : client[callers[i]] = "calling"
  BY DEF PipeInv, Pipe!TypeOK
<1>2. Len(callers) \in Nat /\ DOMAIN callers = 1 .. Len(callers)
      /\ \A i \in 1 .. Len(callers) : callers[i] \in Pipe!Clients
  BY <1>1, SequenceFacts
<1> QED BY <1>1, <1>2

\* The first caller has its answer.
LEMMA AnswerKeeps ==
  ASSUME PipeInv, callers # <<>>, Pipe!Answer, scene = "clients", scene' = scene,
         ui # "gone" \/ ui' = "gone", life' # "up" => ui' = "gone",
         CallersAreServed'
  PROVE  PipeInv'
<1>1. /\ callers \in Seq(Pipe!Clients) /\ Len(callers) \in Nat /\ DOMAIN callers = 1 .. Len(callers)
      /\ client \in [Pipe!Clients -> Pipe!Places]
      /\ \A i, j \in DOMAIN callers : i # j => callers[i] # callers[j]
      /\ \A i \in DOMAIN callers : callers[i] \in Pipe!Clients /\ client[callers[i]] = "calling"
  BY CallerFacts
<1>2. /\ client' = [client EXCEPT ![Head(callers)] = "answered"] /\ callers' = Tail(callers)
      /\ life' = life /\ pipe' = pipe
  BY DEF Pipe!Answer, Pipe!Move
<1>3. /\ Head(callers) = callers[1] /\ callers' \in Seq(Pipe!Clients) /\ Len(callers) >= 1
      /\ \A i \in DOMAIN callers' : i \in Nat /\ i + 1 \in DOMAIN callers /\ callers'[i] = callers[i + 1]
      /\ DOMAIN callers' = 1 .. Len(callers')
  BY <1>1, <1>2, TailFacts, SequenceFacts
<1>4. /\ client' \in [Pipe!Clients -> Pipe!Places]
      /\ \A c \in Pipe!Clients : c # callers[1] => client'[c] = client[c]
      /\ 1 \in DOMAIN callers /\ client'[callers[1]] = "answered"
  BY <1>1, <1>2, <1>3 DEF Pipe!Places
<1>5. ASSUME NEW i \in DOMAIN callers' PROVE client'[callers'[i]] = "calling"
  <2>1. i + 1 \in DOMAIN callers /\ i + 1 # 1
    BY <1>3
  <2> QED BY <1>1, <1>3, <1>4, <2>1
<1>6. ASSUME NEW i \in DOMAIN callers', NEW j \in DOMAIN callers', i # j PROVE callers'[i] # callers'[j]
  <2>1. i + 1 \in DOMAIN callers /\ j + 1 \in DOMAIN callers /\ i + 1 # j + 1
    BY <1>3, <1>6
  <2> QED BY <1>1, <1>3, <2>1
<1>7. Pipe!TypeOK'
  BY <1>2, <1>3, <1>4, <1>6 DEF PipeInv, Pipe!TypeOK
<1>8. ASSUME NEW c \in Launches, client'[c] = "primary" PROVE ui' = "gone"
  <2>1. c \in Pipe!Clients
    BY DEF Pipe!Clients
  <2>2. client[c] = "primary"
    BY <1>4, <1>8, <2>1
  <2> QED BY <2>2 DEF PipeInv
<1> QED BY <1>2, <1>5, <1>7, <1>8 DEF PipeInv

\* A closure is over: a caller among clients has its answer.
LEMMA FinishServes ==
  ASSUME LoopInv, PipeInv, Running, FinishCall, UNCHANGED scene
  PROVE  PipeInv'
<1>1. /\ serving # "none" /\ serving' = "none" /\ UNCHANGED <<requests, senders, work, at>>
      /\ serving = "save" => ui' = "idle"
      /\ serving = "shutdown" => ui' = "gone"
      /\ serving \notin {"save", "shutdown"} => ui' = ui
      /\ ui # "gone" /\ life # "ended"
  BY DEF FinishCall, Finish, Running
<1>2. Channel /\ serving \in Kinds \cup {"none", "startup"} /\ CallersAreServed
  BY TypesSplit DEF LoopInv, Others, PipeInv
<1>3. Len(requests) \in Nat /\ Len(senders) \in Nat
  BY <1>2, ChannelFacts
<1>4. scene = "clients" => life = "up" /\ \A c \in Launches : client[c] # "primary"
  BY <1>1 DEF PipeInv, Pipe!TypeOK
<1>5. CASE scene = "clients" /\ serving \in ClientKinds
  <2>1. Pipe!Answer /\ ui' = ui
    BY <1>1, <1>5 DEF FinishCall, ClientKinds
  <2>2. /\ Pending = Len(callers) + IF ui = "call" THEN 1 ELSE 0
        /\ ui = "call" => \E i \in Places : Queued(i) = "shutdown"
    BY <1>1, <1>2, <1>5 DEF CallersAreServed, ClientKinds
  <2>3. Pending = Len(requests) + Len(senders) + 1 /\ Pending' = Len(requests) + Len(senders) + 0
    BY <1>1, <1>5 DEF Pending, ClientKinds
  <2>4. Len(callers) \in Nat /\ Len(callers) >= 1
    <3>1. ui = "call" => Len(requests) + Len(senders) >= 1
      BY <1>3, <2>2 DEF Places
    <3>2. Len(callers) \in Nat
      BY CallerFacts
    <3> QED BY <1>3, <2>2, <2>3, <3>1, <3>2
  <2>5. callers # <<>>
    BY <2>4
  <2>6. Len(callers') = Len(callers) - 1
    <3>1. callers' = Tail(callers) /\ callers \in Seq(Pipe!Clients)
      BY <2>1, CallerFacts DEF Pipe!Answer
    <3> QED BY <2>5, <3>1, TailFacts
  <2>7. CallersAreServed'
    <3>1. ui' # "gone" => Pending' = Len(callers') + IF ui' = "call" THEN 1 ELSE 0
      BY <1>3, <2>1, <2>2, <2>3, <2>4, <2>6
    <3>2. ui' = "call" => \E i \in Places' : Queued(i)' = "shutdown"
      BY <1>1, <2>1, <2>2 DEF Places, Queued
    <3>3. /\ \A i \in Places' : Queued(i)' \in ClientKinds \cup {"shutdown"}
          /\ \A i \in DOMAIN senders' : senders'[i].from \in {"other", "ui"}
          /\ at'["monitor"] = "off" /\ ui' # "reply"
      BY <1>1, <1>2, <1>5, <2>1 DEF CallersAreServed, Places, Queued
    <3> QED BY <1>1, <3>1, <3>2, <3>3 DEF CallersAreServed
  <2>8. life' = life
    BY <2>1 DEF Pipe!Answer
  <2> QED BY <1>1, <1>4, <1>5, <2>1, <2>5, <2>7, <2>8, AnswerKeeps
<1>6. CASE ~(scene = "clients" /\ serving \in ClientKinds)
  <2>1. /\ UNCHANGED <<life, client, callers>> /\ pipe' \in {pipe, "create"}
    BY <1>6 DEF FinishCall, Pipe!ServerStarts, pipeVars
  <2>2. Pipe!TypeOK'
    BY <2>1 DEF PipeInv, Pipe!TypeOK
  <2>3. CallersAreServed'
    <3> SUFFICES ASSUME scene = "clients" PROVE CallersAreServed'
      BY DEF CallersAreServed
    <3>1. serving \in {"shutdown", "startup"}
      BY <1>1, <1>2, <1>6 DEF CallersAreServed
    <3>2. CASE serving = "shutdown"
      BY <1>1, <1>2, <3>2 DEF CallersAreServed, Places, Queued
    <3>3. CASE serving = "startup"
      <4>1. Pending' = Pending /\ ui' = ui
        BY <1>1, <3>3 DEF Pending, ClientKinds
      <4> QED BY <1>1, <1>2, <2>1, <3>3, <4>1 DEF CallersAreServed, Places, Queued
    <3> QED BY <3>1, <3>2, <3>3
  <2>4. (life' # "up" => scene' = "shell") /\ \A c \in Launches : client'[c] # "primary"
    BY <1>1, <2>1 DEF PipeInv
  <2> QED BY <2>1, <2>2, <2>3, <2>4 DEF PipeInv
<1> QED BY <1>5, <1>6

\* The handler of a connection sends its line to the loop.
LEMMA CallKeeps ==
  ASSUME LoopInv, PipeInv, NEW c \in Launches \cup Commands, Call(c)
  PROVE  LoopInv' /\ PipeInv'
<1>1. /\ scene = "clients" /\ ui # "gone" /\ life # "ended" /\ client[c] = "connected"
      /\ client' = [client EXCEPT ![c] = "calling"] /\ callers' = Append(callers, c)
      /\ UNCHANGED <<life, pipe>> /\ Send("other", Line(c))
      /\ UNCHANGED <<startup, serving, work, ui, hide, at, stopped, scene>>
  BY DEF Call, Running, Pipe!Calls, Pipe!Move
<1>2. Line(c) \in ClientKinds /\ Line(c) \in Kinds \ {"save", "shutdown"}
  BY DEF Line, ClientKinds, Kinds
<1>3. LoopInv'
  BY <1>1, <1>2, OthersSendKeep
<1>4. /\ callers \in Seq(Pipe!Clients) /\ Len(callers) \in Nat /\ DOMAIN callers = 1 .. Len(callers)
      /\ client \in [Pipe!Clients -> Pipe!Places]
      /\ \A i, j \in DOMAIN callers : i # j => callers[i] # callers[j]
      /\ \A i \in DOMAIN callers : callers[i] \in Pipe!Clients /\ client[callers[i]] = "calling"
  BY CallerFacts
<1>5. c \in Pipe!Clients
  BY DEF Pipe!Clients
<1>6. /\ callers' \in Seq(Pipe!Clients) /\ Len(callers') = Len(callers) + 1
      /\ DOMAIN callers' = 1 .. Len(callers')
      /\ \A i \in 1 .. Len(callers) : callers'[i] = callers[i]
      /\ callers'[Len(callers) + 1] = c
  BY <1>1, <1>4, <1>5, AppendFacts, SequenceFacts
<1>7. /\ client' \in [Pipe!Clients -> Pipe!Places] /\ client'[c] = "calling"
      /\ \A d \in Pipe!Clients : d # c => client'[d] = client[d]
  BY <1>1, <1>4, <1>5 DEF Pipe!Places
<1>8. \A i \in DOMAIN callers : callers[i] # c
  BY <1>1, <1>4
<1>9. \A i \in DOMAIN callers' : (i \in DOMAIN callers /\ callers'[i] = callers[i]) \/
                                 (i = Len(callers) + 1 /\ callers'[i] = c)
  BY <1>4, <1>6
<1>10. /\ \A i \in DOMAIN callers' : client'[callers'[i]] = "calling"
       /\ \A i, j \in DOMAIN callers' : i # j => callers'[i] # callers'[j]
  BY <1>4, <1>7, <1>8, <1>9
<1>11. Pipe!TypeOK'
  BY <1>1, <1>6, <1>7, <1>10 DEF PipeInv, Pipe!TypeOK
<1>12. CallersAreServed'
  BY <1>1, <1>2, <1>4, <1>6, SendServes DEF PipeInv
<1>13. \A d \in Launches : client'[d] # "primary"
  <2>1. \A d \in Launches : client[d] # "primary" /\ d \in Pipe!Clients
    BY <1>1 DEF PipeInv, Pipe!Clients
  <2> QED BY <1>7, <2>1
<1>14. life' = "up"
  BY <1>1 DEF PipeInv
<1>15. PipeInv'
  BY <1>1, <1>10, <1>11, <1>12, <1>13, <1>14 DEF PipeInv
<1> QED BY <1>3, <1>15

\* The clients, the server of the pipe and the end of the process.
LEMMA OutsideKeeps ==
  ASSUME PipeInv, scene = "clients", UNCHANGED <<vars, scene>>,
         \/ \E c \in Launches \cup Commands : Pipe!Client(c) \/ Pipe!Breaks(c)
         \/ Pipe!CreateEnd \/ LateAnswer
         \/ ui = "gone" /\ (Pipe!Release \/ Pipe!Ends)
  PROVE  PipeInv'
<1>1. /\ UNCHANGED <<requests, senders, startup, serving, work, ui, hide, at, stopped>>
  BY DEF vars
<1>2. /\ callers \in Seq(Pipe!Clients) /\ Len(callers) \in Nat /\ DOMAIN callers = 1 .. Len(callers)
      /\ client \in [Pipe!Clients -> Pipe!Places]
      /\ \A i, j \in DOMAIN callers : i # j => callers[i] # callers[j]
      /\ \A i \in DOMAIN callers : callers[i] \in Pipe!Clients /\ client[callers[i]] = "calling"
  BY CallerFacts
<1>3. ASSUME ui = "gone" \/ callers' = callers PROVE CallersAreServed'
  BY <1>1, <1>3 DEF PipeInv, CallersAreServed, Places, Queued, Pending
<1>4. ASSUME NEW c \in Launches \cup Commands, Pipe!Client(c) \/ Pipe!Breaks(c) PROVE PipeInv'
  <2>1. c \in Pipe!Clients
    BY DEF Pipe!Clients
  <2>2. PICK place \in Pipe!Places :
           /\ client' = [client EXCEPT ![c] = place] /\ client[c] # "calling"
           /\ place = "primary" => life # "up"
           /\ pipe' \in {pipe, "create"} /\ UNCHANGED <<life, callers>>
    BY <1>4 DEF Pipe!Client, Pipe!Breaks, Pipe!Acquire, Pipe!CommandStarts, Pipe!Connect, Pipe!Refused,
                Pipe!Move, Pipe!MutexFree, Pipe!Places
  <2>3. /\ client' \in [Pipe!Clients -> Pipe!Places] /\ client'[c] = place
        /\ \A d \in Pipe!Clients : d # c => client'[d] = client[d]
    BY <1>2, <2>1, <2>2
  <2>4. Pipe!TypeOK'
    BY <2>2, <2>3 DEF PipeInv, Pipe!TypeOK
  <2>5. \A i \in DOMAIN callers' : client'[callers'[i]] = "calling"
    BY <1>2, <2>2, <2>3
  <2>6. ASSUME NEW d \in Launches, client'[d] = "primary" PROVE ui' = "gone"
    <3>1. d \in Pipe!Clients
      BY DEF Pipe!Clients
    <3> QED BY <1>1, <2>2, <2>3, <2>6, <3>1 DEF PipeInv
  <2> QED BY <1>1, <1>3, <2>2, <2>4, <2>5, <2>6 DEF PipeInv
<1>5. CASE Pipe!CreateEnd
  <2>1. UNCHANGED <<life, client, callers>> /\ pipe' = "listen"
    BY <1>5 DEF Pipe!CreateEnd
  <2>2. Pipe!TypeOK'
    BY <2>1 DEF PipeInv, Pipe!TypeOK
  <2> QED BY <1>1, <1>3, <2>1, <2>2 DEF PipeInv
<1>6. CASE LateAnswer
  BY <1>1, <1>3, <1>6, AnswerKeeps DEF LateAnswer
<1>7. CASE ui = "gone" /\ Pipe!Release
  <2>1. UNCHANGED <<pipe, client, callers>> /\ life' = "released"
    BY <1>7 DEF Pipe!Release
  <2>2. Pipe!TypeOK'
    BY <2>1 DEF PipeInv, Pipe!TypeOK
  <2> QED BY <1>1, <1>3, <1>7, <2>1, <2>2 DEF PipeInv
<1>8. CASE ui = "gone" /\ Pipe!Ends
  <2>1. /\ life' = "ended" /\ pipe' = "off" /\ callers' = <<>>
        /\ client' = [d \in Pipe!Clients |->
                         IF d \notin Pipe!Connected THEN client[d]
                         ELSE IF d \in Launches THEN "try" ELSE "gaveUp"]
    BY <1>8 DEF Pipe!Ends
  <2>2. client' \in [Pipe!Clients -> Pipe!Places]
    BY <1>2, <2>1 DEF Pipe!Places
  <2>3. Pipe!TypeOK'
    BY <2>1, <2>2 DEF PipeInv, Pipe!TypeOK
  <2> QED BY <1>1, <1>3, <1>8, <2>1, <2>3 DEF PipeInv
<1> QED BY <1>4, <1>5, <1>6, <1>7, <1>8
-----------------------------------------------------------------------------
(* Every step of the program keeps the invariant *)

\* While the loop and its threads rest, so does their invariant.
LEMMA LoopSame == LoopInv /\ UNCHANGED vars => LoopInv'
<1> SUFFICES ASSUME LoopInv, UNCHANGED <<requests, senders, startup, serving, work, ui, hide, at, stopped>>
             PROVE  LoopInv'
  BY DEF vars
<1>1. Channel /\ Others
  BY TypesSplit DEF LoopInv
<1>2. /\ Channel' /\ Places' = Places /\ \A i \in Places : Queued(i)' = Queued(i)
      /\ \A t \in Threads : Blocked(t)' = Blocked(t)
  BY <1>1, SameQueue DEF Queue
<1>3. TypeOK'
  BY <1>1, <1>2, TypesSplit DEF Others
<1>4. ServesInTurn' /\ SaveIsAwaited' /\ ExitStops'
  BY <1>2 DEF LoopInv, ServesInTurn, SaveIsAwaited, ExitStops
<1>5. SendsInTurn'
  BY <1>2 DEF LoopInv, SendsInTurn, Closing, Threads, Workers
<1> QED BY <1>3, <1>4, <1>5 DEF LoopInv

\* The icon stays where nothing is done to it and the exit goes no further.
LEMMA TraySame ==
  ASSUME TrayInv, UNCHANGED <<trayVars, scene>>,
         scene = "shell" => (Exiting' <=> Exiting) /\ life' = life
  PROVE  TrayInv'
<1>1. UNCHANGED <<tray, shell, probe, news, job, note, theme, dark, seen>>
  BY DEF trayVars
<1>2. TrayTypes'
  BY <1>1 DEF TrayInv, TrayTypes, Tray!TypeOK, Shapes
<1>3. IconIsShown' /\ IconGoesFirst'
  BY <1>1 DEF TrayInv, IconIsShown, IconGoesFirst
<1> QED BY <1>2, <1>3 DEF TrayInv

\* A step inside the program that leaves the exit where it is.
LEMMA InsideInv ==
  ASSUME IInv, Running, UNCHANGED <<pipeVars, trayVars, scene>>, LoopInv', CallersAreServed',
         Exiting' <=> Exiting
  PROVE  IInv'
<1>1. life' = life
  BY DEF pipeVars
<1> QED BY <1>1, InsideKeeps, TraySame DEF IInv

\* A step with Explorer.
LEMMA ShellInv ==
  ASSUME IInv, scene = "shell", Running, UNCHANGED <<pipeVars, scene>>,
         LoopInv', TrayTypes', IconIsShown', Exiting' <=> tray'.life = "gone"
  PROVE  IInv'
<1>1. CallersAreServed'
  BY DEF CallersAreServed
<1>2. PipeInv'
  BY <1>1, InsideKeeps DEF IInv
<1>3. life' # "ended"
  BY DEF Running, pipeVars
<1>4. IconGoesFirst'
  BY <1>3 DEF IconGoesFirst
<1> QED BY <1>2, <1>4 DEF IInv, TrayInv

\* Explorer is there or not, and an exit removes the icon before it begins.
LEMMA ShellFacts ==
  ASSUME IInv, scene = "shell"
  PROVE  TrayTypes /\ IconIsShown /\ (Exiting <=> tray.life = "gone") /\ LoopInv
BY DEF IInv, TrayInv, IconGoesFirst

\* The steps of the loop and of the hot keys' thread.
LEMMA LoopStepInv ==
  ASSUME IInv, Inside(Loop /\ Wanted /\ (startup = "before" => Starts))
  PROVE  IInv'
<1>1. /\ Running /\ ui # "gone" /\ Loop /\ Wanted /\ UNCHANGED <<pipeVars, trayVars, scene>>
      /\ UNCHANGED <<callers, scene>> /\ LoopInv /\ CallersAreServed
  BY DEF Inside, Running, pipeVars, IInv, PipeInv
<1>2. LoopInv'
  BY <1>1, LoopKeeps
<1>3. ui' = ui
  BY <1>1 DEF Loop, Take, BeginStartup, Choose, CloseStop, StopReturns, StartWorker, StartHotkeyThread,
              HotkeyRegisters, HotkeyCleansUp
<1>4. CallersAreServed'
  <2>1. scene = "clients" => at'["monitor"] = "off"
    BY <1>1 DEF Wanted, Workers
  <2>2. Take \/ BeginStartup \/ UNCHANGED <<requests, senders, serving>>
    BY <1>1 DEF Loop, Choose, CloseStop, StopReturns, StartWorker, StartHotkeyThread,
                HotkeyRegisters, HotkeyCleansUp
  <2> QED BY <1>1, <1>3, <2>1, <2>2, TakeServes, StartupServes, SameServed
<1>5. Exiting' <=> Exiting
  BY <1>3 DEF Exiting
<1> QED BY <1>1, <1>2, <1>4, <1>5, InsideInv

\* The icon is painted.
LEMMA PaintInv == ASSUME IInv, PaintStep PROVE IInv'
<1>1. CASE scene # "shell" /\ Inside(Paint)
  <2>1. /\ Running /\ ui # "gone" /\ Paint /\ UNCHANGED <<pipeVars, trayVars, scene>>
        /\ UNCHANGED <<callers, scene>> /\ LoopInv /\ CallersAreServed
        /\ UNCHANGED <<requests, senders, serving, ui, at>>
    BY <1>1 DEF Inside, Running, pipeVars, IInv, PipeInv, Paint
  <2>2. LoopInv'
    BY <2>1, ChooseKeeps
  <2>3. scene = "clients" => at'["monitor"] = "off"
    BY <2>1 DEF CallersAreServed
  <2>4. CallersAreServed'
    BY <2>1, <2>3, SameServed
  <2>5. Exiting' <=> Exiting
    BY <2>1 DEF Exiting
  <2> QED BY <2>1, <2>2, <2>4, <2>5, InsideInv
<1>2. CASE scene = "shell"
  <2>1. /\ Running /\ ui # "gone" /\ UNCHANGED <<pipeVars, scene>>
        /\ Paint \/ UNCHANGED vars
        /\ UNCHANGED trayVars \/ Tray!Measures \/ Tray!Sets(Closing) \/ Tray!Tips
    BY <1>2 DEF PaintStep, Shell, Running
  <2>2. TrayTypes /\ IconIsShown /\ (Exiting <=> tray.life = "gone") /\ LoopInv
    BY <1>2, ShellFacts
  <2>3. LoopInv' /\ ui' = ui
    BY <2>1, <2>2, LoopSame, ChooseKeeps DEF Paint, vars
  <2>4. TrayTypes' /\ IconIsShown' /\ tray'.life = tray.life
    <3>1. CASE UNCHANGED trayVars
      BY <2>2, <3>1 DEF TrayTypes, Tray!TypeOK, Shapes, IconIsShown, trayVars
    <3>2. CASE Tray!Measures \/ Tray!Tips
      BY <2>2, <3>2, LoopIsQuiet
    <3>3. CASE Tray!Sets(Closing)
      <4>1. Closing \in BOOLEAN
        BY DEF Closing
      <4> QED BY <2>2, <3>3, <4>1, SettingKeeps
    <3> QED BY <2>1, <3>1, <3>2, <3>3
  <2>5. Exiting' <=> tray'.life = "gone"
    BY <2>2, <2>3, <2>4 DEF Exiting
  <2> QED BY <1>2, <2>1, <2>3, <2>4, <2>5, ShellInv
<1> QED BY <1>1, <1>2 DEF PaintStep, Shell

\* A panic ends the process: the icon had been removed.
LEMMA CrashInv == ASSUME IInv, Crash PROVE IInv'
<1>1. /\ scene = "shell" /\ Running /\ tray.life = "gone" /\ life' = "ended"
      /\ UNCHANGED <<pipe, client, callers, scene>> /\ UNCHANGED trayVars /\ UNCHANGED vars
  BY DEF Crash, Tray!Crashes
<1>2. LoopInv'
  BY <1>1, LoopSame DEF IInv
<1>3. PipeInv'
  <2>1. Pipe!TypeOK' /\ scene' = "shell"
    BY <1>1 DEF IInv, PipeInv, Pipe!TypeOK
  <2>2. CallersAreServed'
    BY <2>1 DEF CallersAreServed
  <2>3. /\ \A i \in DOMAIN callers' : client'[callers'[i]] = "calling"
        /\ \A c \in Launches \cup Commands : client'[c] = "new"
    BY <1>1 DEF IInv, PipeInv
  <2>4. \A c \in Launches : client'[c] # "primary"
    BY <2>3
  <2> QED BY <2>1, <2>2, <2>3, <2>4 DEF PipeInv
<1>4. TrayTypes' /\ IconIsShown' /\ tray' = tray /\ ui' = ui
  BY <1>1, ShellFacts DEF TrayTypes, Tray!TypeOK, Shapes, IconIsShown, trayVars, vars
<1>5. IconGoesFirst'
  BY <1>1, <1>4, ShellFacts DEF IconGoesFirst, Exiting
<1> QED BY <1>2, <1>3, <1>4, <1>5 DEF IInv, TrayInv

\* A closure is over.
LEMMA FinishInv == ASSUME IInv, Running, FinishCall, UNCHANGED <<trayVars, scene>> PROVE IInv'
<1>1. LoopInv' /\ PipeInv'
  BY FinishKeeps, FinishServes DEF IInv, FinishCall, Running
<1>2. Exiting' <=> Exiting
  <2>1. /\ serving = "save" => ui = "reply" /\ ui' = "idle"
        /\ serving = "shutdown" => ui = "call" /\ ui' = "gone"
        /\ serving \notin {"save", "shutdown"} => ui' = ui
    BY DEF IInv, LoopInv, SaveIsAwaited, ExitStops, FinishCall, Finish, Running
  <2> QED BY <2>1 DEF Exiting
<1>3. scene = "shell" => life' = life
  BY DEF FinishCall, Pipe!ServerStarts, pipeVars
<1> QED BY <1>1, <1>2, <1>3, TraySame DEF IInv

\* The UI thread runs the monitor's task, closes, removes the icon and waits for
\* the exit's closure.
LEMMA UIInv == ASSUME IInv, UIStep \/ CloseStep PROVE IInv'
<1>0. LoopInv /\ CallersAreServed
  BY DEF IInv, PipeInv
<1>1. CASE Inside(UITask)
  <2>1. /\ Running /\ UITask /\ UNCHANGED <<pipeVars, trayVars, scene>> /\ UNCHANGED <<callers, scene>>
        /\ UNCHANGED <<requests, senders, serving, ui, at>>
    BY <1>1 DEF Inside, pipeVars, UITask
  <2>2. LoopInv'
    BY <1>0, <2>1, WorkersKeep
  <2>3. scene = "clients" => at'["monitor"] = "off"
    BY <1>0, <2>1 DEF CallersAreServed
  <2>4. CallersAreServed' /\ (Exiting' <=> Exiting)
    BY <1>0, <2>1, <2>3, SameServed DEF Exiting
  <2> QED BY <2>1, <2>2, <2>4, InsideInv
<1>2. CASE Inside(UICalls)
  <2>1. /\ Running /\ UICalls /\ UNCHANGED <<pipeVars, trayVars, scene>> /\ UNCHANGED <<callers, scene>>
        /\ UNCHANGED <<serving, at>> /\ ui = "lock" /\ ui' = "call" /\ Send("ui", "shutdown")
    BY <1>2 DEF Inside, pipeVars, UICalls
  <2>2. LoopInv'
    BY <1>0, <2>1, UICallsKeeps
  <2>3. CallersAreServed'
    <3>1. CASE scene = "clients"
      BY <1>0, <2>1, <3>1, SendServes, CallerFacts DEF IInv
    <3>2. CASE scene # "clients"
      BY <2>1, <3>2 DEF CallersAreServed
    <3> QED BY <3>1, <3>2
  <2>4. Exiting' <=> Exiting
    BY <2>1 DEF Exiting
  <2> QED BY <2>1, <2>2, <2>3, <2>4, InsideInv
<1>3. CASE scene # "shell" /\ Inside(UICloses \/ UIExits)
  <2>1. /\ Running /\ (UICloses \/ UIExits) /\ UNCHANGED <<pipeVars, trayVars, scene>>
        /\ UNCHANGED <<callers, scene>> /\ UNCHANGED <<requests, senders, serving, at>>
        /\ ui \in {"idle", "closing"} /\ ui' \in {"closing", "lock"}
    BY <1>3 DEF Inside, pipeVars, UICloses, UIExits, UIFree
  <2>2. LoopInv'
    BY <1>0, <2>1, ClosingKeeps
  <2>3. scene = "clients" => at'["monitor"] = "off"
    BY <1>0, <2>1 DEF CallersAreServed
  <2>4. CallersAreServed'
    BY <1>0, <2>1, <2>3, SameServed
  <2>5. PipeInv' /\ TrayInv'
    BY <1>3, <2>1, <2>4, InsideKeeps, TraySame DEF IInv
  <2> QED BY <2>2, <2>5 DEF IInv
<1>4. CASE Shell(UICloses, Tray!Closes)
  <2>1. /\ scene = "shell" /\ Running /\ UICloses /\ Tray!Closes /\ UNCHANGED <<pipeVars, scene>>
        /\ ui = "idle" /\ ui' = "closing"
    BY <1>4 DEF Shell, UICloses, UIFree
  <2>2. LoopInv'
    BY <1>0, <2>1, ClosingKeeps
  <2>3. TrayTypes' /\ IconIsShown' /\ tray'.life = tray.life
    BY <2>1, ShellFacts, WindowIsQuiet
  <2>4. Exiting' <=> tray'.life = "gone"
    BY <2>1, <2>3, ShellFacts DEF Exiting
  <2> QED BY <2>1, <2>2, <2>3, <2>4, ShellInv
<1>5. CASE Shell(UIExits, Tray!Removes)
  <2>1. /\ scene = "shell" /\ Running /\ UIExits /\ Tray!Removes /\ UNCHANGED <<pipeVars, scene>>
        /\ ui' = "lock"
    BY <1>5 DEF Shell, UIExits
  <2>2. LoopInv'
    BY <1>0, <2>1, ClosingKeeps
  <2>3. TrayTypes' /\ IconIsShown' /\ tray'.life = "gone"
    BY <2>1, ShellFacts, LifeKeeps
  <2>4. Exiting' <=> tray'.life = "gone"
    BY <2>1, <2>3 DEF Exiting
  <2> QED BY <2>1, <2>2, <2>3, <2>4, ShellInv
<1> QED BY <1>1, <1>2, <1>3, <1>4, <1>5 DEF UIStep, CloseStep, ExitStep, UI, Inside

\* Explorer and the window, which is there until the UI thread closes.
LEMMA ShellStepInv ==
  ASSUME IInv,
         \/ ShellStep \/ Shell(UNCHANGED vars, ShellMoves)
         \/ Shell(Toggles, Tray!Move /\ UNCHANGED <<tray, shell, probe, news, job, note, theme, dark>>)
  PROVE  IInv'
<1>1. scene = "shell" /\ Running /\ UNCHANGED <<pipeVars, scene>>
  BY DEF ShellStep, NoteStep, Shell
<1>2. TrayTypes /\ IconIsShown /\ (Exiting <=> tray.life = "gone") /\ LoopInv
  BY <1>1, ShellFacts
<1>3. LoopInv' /\ ui' = ui
  <2>1. \/ UNCHANGED vars
        \/ \E kind \in {"refresh", "reconcile"} :
              Send("other", kind) /\ UNCHANGED <<startup, serving, work, ui, hide, at, stopped>>
    BY DEF ShellStep, NoteStep, Shell, Toggles, OtherSends
  <2>2. {"refresh", "reconcile"} \subseteq Kinds \ {"save", "shutdown"}
    BY DEF Kinds
  <2> QED BY <1>2, <2>1, <2>2, LoopSame, OthersSendKeep DEF vars
<1>4. Closing \in BOOLEAN /\ (startup = "done") \in BOOLEAN /\ Blocked("other") \in BOOLEAN
  BY DEF Closing, Blocked
<1>5. TrayTypes' /\ IconIsShown' /\ (tray'.life = tray.life \/ (tray.life = "new" /\ tray'.life = "there"))
  <2>1. CASE Shell(UNCHANGED vars, WindowStep)
    <3>1. /\ ~Closing
          /\ \/ Tray!Registers \/ Tray!TaskbarNews \/ Tray!Probe \/ Tray!UIMeasures \/ Tray!UISets
             \/ \E n \in {"display", "start"} : Tray!DisplayNews(n)
             \/ Tray!ThemeNews(startup = "done", Blocked("other"))
      BY <2>1 DEF Shell, WindowStep
    <3>2. tray.life # "gone"
      BY <1>2, <3>1 DEF Closing, Exiting
    <3>3. CASE Tray!ThemeNews(startup = "done", Blocked("other"))
      BY <1>2, <1>4, <3>3, WindowIsQuiet
    <3> QED BY <1>2, <3>1, <3>2, <3>3, LifeKeeps, ExplorerKeeps, WindowIsQuiet, SettingKeeps
  <2>2. CASE Shell(UNCHANGED vars, Tray!LaysOut)
    BY <1>2, <2>2, ExplorerKeeps DEF Shell
  <2>3. CASE NoteStep
    BY <1>2, <2>3, LoopIsQuiet DEF NoteStep, Shell
  <2>4. CASE Shell(UNCHANGED vars, ShellMoves)
    BY <1>2, <1>4, <2>4, LoopIsQuiet, ExplorerKeeps DEF Shell, ShellMoves
  <2>5. CASE Shell(Toggles, Tray!Move /\ UNCHANGED <<tray, shell, probe, news, job, note, theme, dark>>)
    BY <1>2, <2>5, LoopIsQuiet DEF Shell
  <2> QED BY <2>1, <2>2, <2>3, <2>4, <2>5 DEF ShellStep
<1>6. Exiting' <=> tray'.life = "gone"
  BY <1>2, <1>3, <1>5 DEF Exiting
<1> QED BY <1>1, <1>3, <1>5, <1>6, ShellInv

\* The threads and the user inside the program.
LEMMA ThreadsInv ==
  ASSUME IInv,
         \/ Inside(CloseDialog) \/ Inside(Monitor)
         \/ Inside(\E t \in Workers : GivesUp(t) \/ Leaves(t))
         \/ scene = "threads" /\ Inside(Senders)
  PROVE  IInv'
<1>1. /\ Running /\ ui # "gone" /\ UNCHANGED <<pipeVars, trayVars, scene>> /\ UNCHANGED <<callers, scene>>
      /\ LoopInv /\ CallersAreServed
      /\ \/ CloseDialog \/ MonitorReleased \/ MonitorActs \/ \E t \in Workers : GivesUp(t) \/ Leaves(t)
         \/ scene = "threads" /\ Senders
  BY DEF Inside, Running, pipeVars, IInv, PipeInv, Monitor
<1>2. LoopInv'
  BY <1>1, ChooseKeeps, WorkersKeep, MonitorActsKeeps, GivesUpKeeps, SendersKeep
<1>3. Exiting' <=> Exiting
  BY <1>1 DEF Exiting, CloseDialog, MonitorReleased, MonitorActs, GivesUp, Leaves, Senders,
              MonitorTrigger, WorkerSends, OtherSends, UIPosts, UIFree
<1>4. CallersAreServed'
  <2> SUFFICES ASSUME scene = "clients" PROVE CallersAreServed'
    BY <1>1 DEF CallersAreServed
  <2>1. at["monitor"] = "off" /\ \A i \in DOMAIN senders : senders[i].from \in {"other", "ui"}
    BY <1>1 DEF CallersAreServed
  <2>2. CloseDialog \/ \E t \in Workers : Leaves(t) /\ t # "monitor"
    BY <1>1, <2>1 DEF MonitorReleased, MonitorActs, GivesUp, Leaves
  <2>3. UNCHANGED <<requests, senders, serving, ui>> /\ at'["monitor"] = at["monitor"]
    <3>1. at \in [Workers -> {"off", "wait", "ask", "act", "register", "cleanup"}] /\ "monitor" \in Workers
      BY <1>1, TypesSplit DEF LoopInv, Others, Workers
    <3> QED BY <2>2, <3>1 DEF CloseDialog, Leaves
  <2> QED BY <1>1, <2>1, <2>3, SameServed
<1> QED BY <1>1, <1>2, <1>3, <1>4, InsideInv

\* Other processes.
LEMMA ProcessesInv ==
  ASSUME IInv,
         \/ \E c \in Launches \cup Commands :
               Outside(Pipe!Client(c)) \/ Outside(Pipe!Breaks(c)) \/ Call(c)
         \/ Outside(Pipe!CreateEnd) \/ Outside(LateAnswer)
         \/ ui = "gone" /\ (Outside(Pipe!Release) \/ Outside(Pipe!Ends))
  PROVE  IInv'
<1>1. scene = "clients" /\ UNCHANGED <<trayVars, scene>>
  BY DEF Outside, Call
<1>2. TrayInv'
  BY <1>1, TraySame DEF IInv
<1>3. ASSUME NEW c \in Launches \cup Commands, Call(c) PROVE IInv'
  BY <1>2, <1>3, CallKeeps DEF IInv
<1>4. CASE \/ \E c \in Launches \cup Commands : Outside(Pipe!Client(c)) \/ Outside(Pipe!Breaks(c))
           \/ Outside(Pipe!CreateEnd) \/ Outside(LateAnswer)
           \/ ui = "gone" /\ (Outside(Pipe!Release) \/ Outside(Pipe!Ends))
  <2>1. UNCHANGED vars
    BY <1>4 DEF Outside
  <2>2. PipeInv'
    BY <1>1, <1>4, <2>1, OutsideKeeps DEF IInv, Outside
  <2> QED BY <1>2, <2>1, <2>2, LoopSame DEF IInv
<1> QED BY <1>3, <1>4

\* Every step keeps the invariant.
LEMMA NextIInv == ASSUME IInv, [Next]_allVars PROVE IInv'
<1>1. CASE UNCHANGED allVars
  <2>1. UNCHANGED <<pipeVars, trayVars, scene>> /\ UNCHANGED vars
    BY <1>1 DEF allVars
  <2>2. LoopInv' /\ TrayInv'
    BY <2>1, LoopSame, TraySame DEF IInv, vars, pipeVars, Exiting
  <2>3. PipeInv'
    <3>1. Pipe!TypeOK' /\ CallersAreServed'
      BY <2>1 DEF IInv, PipeInv, Pipe!TypeOK, CallersAreServed, Places, Queued, Pending, vars, pipeVars
    <3> QED BY <2>1, <3>1 DEF IInv, PipeInv, vars, pipeVars
  <2> QED BY <2>2, <2>3 DEF IInv
<1>2. CASE LoopStep
  BY <1>2, LoopStepInv, PaintInv, CrashInv, FinishInv DEF LoopStep
<1>3. CASE ~LoopStep /\ Next
  BY <1>3, UIInv, ShellStepInv, ThreadsInv, ProcessesInv DEF Next
<1> QED BY <1>1, <1>2, <1>3

\* The program begins with nothing sent, shown or waiting.
LEMMA InitIInv == Init => IInv
<1> SUFFICES ASSUME Init PROVE IInv
  OBVIOUS
<1>1. /\ requests = <<>> /\ senders = <<>> /\ startup = "before" /\ serving = "none" /\ work = <<>>
      /\ ui = "idle" /\ hide = FALSE
      /\ at = [t \in Workers |-> "off"] /\ stopped = [t \in Workers |-> FALSE]
      /\ life = "up" /\ pipe = "off" /\ client = [c \in Pipe!Clients |-> "new"] /\ callers = <<>>
      /\ scene \in {"threads", "clients", "shell"}
  BY DEF Init, Pipe!Init
<1>2. /\ <<>> \in Seq(Kinds) /\ <<>> \in Seq(Sender) /\ <<>> \in Seq(Steps) /\ <<>> \in Seq(Pipe!Clients)
      /\ Len(<<>>) = 0 /\ DOMAIN <<>> = {}
  OBVIOUS
<1>3. LoopInv
  <2>1. Channel
    BY <1>1, <1>2, LoopAssumption DEF Channel
  <2>2. Others
    BY <1>1, <1>2 DEF Others
  <2>3. Places = {} /\ \A t \in Threads : ~Blocked(t)
    BY <1>1, <1>2 DEF Places, Blocked
  <2>4. ServesInTurn /\ SaveIsAwaited /\ ExitStops
    BY <1>1, <2>3 DEF ServesInTurn, SaveIsAwaited, ExitStops, Workers
  <2>5. SendsInTurn
    BY <1>1, <2>3 DEF SendsInTurn, Closing, Threads, Workers
  <2> QED BY <2>1, <2>2, <2>4, <2>5, TypesSplit DEF LoopInv
<1>4. PipeInv
  <2>1. Pipe!TypeOK
    BY <1>1, <1>2 DEF Pipe!TypeOK, Pipe!Places
  <2>2. CallersAreServed
    <3>1. Places = {} /\ Pending = Len(callers)
      BY <1>1, <1>2 DEF Places, Pending, ClientKinds
    <3> QED BY <1>1, <1>2, <3>1 DEF CallersAreServed, Workers
  <2> QED BY <1>1, <1>2, <2>1, <2>2 DEF PipeInv, Pipe!Clients
<1>5. TrayInv
  <2>1. /\ tray = [life |-> "new", started |-> FALSE, icon |-> Tray!NoImage, key |-> Tray!NoImage]
        /\ \E up \in BOOLEAN, s \in Sides :
              shell = [up |-> up, shows |-> Tray!NoImage, side |-> s, coming |-> s]
        /\ probe = Tray!Off /\ news = {} /\ note = "none"
        /\ job = [t \in {"loop", "ui"} |-> Tray!Rest]
        /\ theme \in Tray!Themes /\ dark = "none"
        /\ seen = [refused |-> FALSE, lost |-> FALSE, moves |-> 0]
    BY DEF Init, Tray!Init
  <2>2. JobTypes
    <3>1. Tray!Rest \in [at: {"rest", "measure", "set", "tip"}, image: AnyImage] /\ Tray!Rest.at = "rest"
      BY ImageFacts DEF Tray!Rest
    <3>2. job["loop"] = Tray!Rest /\ job["ui"] = Tray!Rest
      BY <2>1
    <3> HIDE DEF Tray!Rest
    <3> QED BY <2>1, <3>1, <3>2 DEF JobTypes
  <2>3. IconTypes
    BY <2>1, TrayAssumption DEF IconTypes
  <2>4. NewsTypes
    BY <2>1 DEF NewsTypes
  <2>5. IconIsShown
    BY <2>1, ImageFacts DEF IconIsShown
  <2>6. IconGoesFirst
    BY <1>1, <2>1 DEF IconGoesFirst, Exiting
  <2> QED BY <2>2, <2>3, <2>4, <2>5, <2>6, TraySplit DEF TrayInv
<1> QED BY <1>3, <1>4, <1>5 DEF IInv

\* The program keeps its invariant, whatever its threads, its clients and Explorer
\* do: the channel and its senders, the callers and the icon agree (app.go,
\* ipc.go, icon_windows.go).
THEOREM Invariance == Spec => []IInv
BY InitIInv, NextIInv, PTL DEF Spec

\* Whoever waits in a circle with the request loop found the channel full, or is
\* the UI thread with the manager's save (app.go, trayicon.PostAndWait): an exit
\* makes no circle, as the wait for the UI thread ends with its closing.
THEOREM CirclesAreKnown == Spec => []OnlyKnownCycles
<1>1. IInv => OnlyKnownCycles
  <2> SUFFICES ASSUME IInv, CircularWait PROVE Len(requests) = Capacity \/ ui = "reply"
    BY DEF OnlyKnownCycles
  <2>1. Channel /\ SendsInTurn
    BY TypesSplit DEF IInv, LoopInv
  <2>2. ASSUME NEW t \in Threads, Blocked(t) PROVE Len(requests) = Capacity
    <3>1. senders # <<>>
      BY <2>2 DEF Blocked
    <3> QED BY <2>1, <3>1 DEF Channel
  <2>3. CASE \E t \in Workers : Blocked(t)
    BY <2>2, <2>3 DEF Threads
  <2>4. CASE hide /\ UIWaits
    <3>1. ui # "call"
      BY <2>1, <2>4 DEF SendsInTurn, Closing
    <3> QED BY <2>2, <2>4, <3>1 DEF UIWaits, Threads
  <2> QED BY <2>3, <2>4 DEF CircularWait
<1> QED BY <1>1, Invariance, PTL

\* When another launch has taken the mutex, and when the UI thread is gone, every
\* thread of the program has been stopped (app.go:195-212, main.go:66-83); its icon
\* went before, and until then Explorer shows the image the program last set
\* (icon_windows.go).
THEOREM NothingIsLeftBehind == Spec => []Handover
<1>1. IInv => Handover
  <2> SUFFICES ASSUME IInv PROVE Handover
    OBVIOUS
  <2>1. TypeOK /\ Pipe!TypeOK /\ Tray!TypeOK
    BY DEF IInv, LoopInv, PipeInv, TrayInv, TrayTypes
  <2>2. (ui = "gone" \/ \E c \in Launches : client[c] = "primary") =>
           ui = "gone" /\ \A t \in Workers : at[t] = "off"
    BY DEF IInv, LoopInv, ExitStops, PipeInv
  <2>3. scene = "shell" =>
           /\ ui = "gone" => tray.life = "gone"
           /\ tray.life = "gone" => shell.shows = Tray!NoImage
           /\ shell.shows \in Tray!Images => seen.refused \/ shell.shows = tray.key
           /\ life = "ended" => Exiting
    BY DEF IInv, TrayInv, IconGoesFirst, IconIsShown, Exiting
  <2> QED BY <2>1, <2>2, <2>3 DEF Handover
<1> QED BY <1>1, Invariance, PTL
=============================================================================
