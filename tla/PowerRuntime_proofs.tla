------------------------ MODULE PowerRuntime_proofs ------------------------
(***************************************************************************)
(* Safety of the power side of the program: of PowerRuntime, and, in the   *)
(* second part, of the idle monitor whose sessions it starts and stops.    *)
(*                                                                         *)
(* PowerRuntime holds for every set of timeouts, options, files and        *)
(* automation states, whatever the length of the queue.  The invariants of *)
(* the model are inductive together; the two extra conjuncts say what the  *)
(* battery loop and the dead closures contribute.                          *)
(***************************************************************************)
EXTENDS PowerRuntime, IdleMonitor, TLAPS

Workers == {"none", "system", "display"}

\* syncBatteryLoop is called wherever its condition can change.
LoopCoversDemand == loop = LoopWanted(cfg, auto)

\* Once the runner is gone, every closure it left in the queue is dead.
NoLiveWithoutRunner ==
    ~runner => \A i \in 1..Len(requests) :
                  requests[i].kind = "state" => requests[i].live = FALSE

IInv ==
    /\ TypeOK
    /\ ManualExclusive
    /\ RuntimeMatchesDemand
    /\ SessionIsCurrent
    /\ BlockedFollowsPolicy
    /\ LoopCoversDemand
    /\ NoLiveWithoutRunner
    /\ NoAutoWithoutRunner

-----------------------------------------------------------------------------
(* The types of the configuration helpers *)

\* A timeout is a positive number of minutes; 0 stands for none.
LEMMA TimeoutFacts ==
  /\ 0 \notin Timeouts
  /\ \A t \in Timeouts : t \in Nat /\ t > 0
BY TimeoutsAssumption

\* Every way to write the configuration gives a configuration (the setters of
\* hotkey.go, the conflict fix), and none leaves both features on.
LEMMA ConfigTypes ==
  ASSUME NEW c \in Config
  PROVE  /\ \A on, display \in BOOLEAN :
              /\ SetNoSleepConfig(c, on, display) \in Config
              /\ ~(c.noSleep /\ c.idle > 0) =>
                   ~(SetNoSleepConfig(c, on, display).noSleep
                       /\ SetNoSleepConfig(c, on, display).idle > 0)
         /\ \A minutes \in {0} \cup Timeouts :
              /\ SetIdleTimeoutConfig(c, minutes) \in Config
              /\ ~(SetIdleTimeoutConfig(c, minutes).noSleep
                       /\ SetIdleTimeoutConfig(c, minutes).idle > 0)
         /\ ResolveConflict(c) \in Config
         /\ ~(ResolveConflict(c).noSleep /\ ResolveConflict(c).idle > 0)
<1>1. \A on, display \in BOOLEAN :
        /\ SetNoSleepConfig(c, on, display) \in Config
        /\ ~(c.noSleep /\ c.idle > 0) =>
             ~(SetNoSleepConfig(c, on, display).noSleep
                 /\ SetNoSleepConfig(c, on, display).idle > 0)
  <2> TAKE on, display \in BOOLEAN
  <2>1. CASE on = TRUE
    <3>1. SetNoSleepConfig(c, on, display)
            = [c EXCEPT !.noSleep = TRUE, !.screen = display, !.idle = 0]
      BY <2>1 DEF SetNoSleepConfig
    <3>2. SetNoSleepConfig(c, on, display).idle = 0
      BY <3>1 DEF Config
    <3>3. SetNoSleepConfig(c, on, display) \in Config
      BY <3>1 DEF Config
    <3> QED BY <3>2, <3>3
  <2>2. CASE on = FALSE
    <3>1. SetNoSleepConfig(c, on, display) = [c EXCEPT !.noSleep = FALSE]
      BY <2>2 DEF SetNoSleepConfig
    <3> QED BY <3>1 DEF Config
  <2> QED BY <2>1, <2>2
<1>2. \A minutes \in {0} \cup Timeouts :
        /\ SetIdleTimeoutConfig(c, minutes) \in Config
        /\ ~(SetIdleTimeoutConfig(c, minutes).noSleep
                 /\ SetIdleTimeoutConfig(c, minutes).idle > 0)
  BY TimeoutFacts DEF Config, SetIdleTimeoutConfig
<1>3. /\ ResolveConflict(c) \in Config
      /\ ~(ResolveConflict(c).noSleep /\ ResolveConflict(c).idle > 0)
  BY DEF Config, ResolveConflict
<1> QED BY <1>1, <1>2, <1>3

\* The derived conditions are Booleans, and a requested idle session has one
\* of the configured timeouts.
LEMMA DerivedTypes ==
  ASSUME NEW c \in Config, NEW a \in AutoState
  PROVE  /\ Wants(c, a) \in BOOLEAN
         /\ KeepScreen(c, a) \in BOOLEAN
         /\ LoopWanted(c, a) \in BOOLEAN
         /\ IdleRequested(c, a) \in BOOLEAN
         /\ IdleRequested(c, a) => IdleMinutes(c, a) \in Timeouts
         /\ Mode(KeepScreen(c, a)) \in {"system", "display"}
         /\ NoSession(c) \in Session
<1>1. Wants(c, a) \in BOOLEAN /\ KeepScreen(c, a) \in BOOLEAN
  BY DEF Config, AutoState, Wants, KeepScreen
<1>2. LoopWanted(c, a) \in BOOLEAN
  BY <1>1 DEF Config, LoopWanted
<1>3. /\ IdleRequested(c, a) \in BOOLEAN
      /\ IdleRequested(c, a) => IdleMinutes(c, a) \in Timeouts
  BY TimeoutFacts DEF Config, AutoState, IdleRequested, IdleMinutes
<1>4. NoSession(c) \in Session
  BY DEF Config, Session, NoSession
<1> QED BY <1>1, <1>2, <1>3, <1>4 DEF Mode
-----------------------------------------------------------------------------
(* What a reconcile establishes, whatever ran before it *)

\* reconcileRuntime leaves services that match the configuration, automation
\* state and battery verdict it was given, from any earlier state.
LEMMA ReconcileEstablishes ==
  ASSUME NEW c \in Config, NEW a \in AutoState, NEW b \in BOOLEAN,
         NEW w \in Workers,
         session \in Session, failed \in BOOLEAN,
         Reconcile(c, a, b, w),
         cfg' = c, auto' = a, blocked' = b
  PROVE  /\ session' \in Session
         /\ loop' \in BOOLEAN
         /\ worker' \in Workers
         /\ enabled' \in BOOLEAN
         /\ failed' \in BOOLEAN
         /\ RuntimeMatchesDemand'
         /\ SessionIsCurrent'
         /\ LoopCoversDemand'
<1> USE DerivedTypes
<1>1. loop' \in BOOLEAN /\ LoopCoversDemand'
  BY DEF Reconcile, LoopCoversDemand
<1>2. CASE Wants(c, a) /\ ~b
  <2>1. session' = NoSession(c) /\ EnableKeepAwake(w, KeepScreen(c, a))
    BY <1>2 DEF Reconcile, StopMonitor
  <2>2. session'.minutes = 0 /\ session' \in Session
    BY <2>1 DEF NoSession
  <2>3. /\ worker' \in Workers /\ enabled' \in BOOLEAN /\ failed' \in BOOLEAN
        /\ enabled' \/ failed'
        /\ enabled' => worker' = Mode(KeepScreen(c, a))
    BY <2>1 DEF EnableKeepAwake, Workers, Mode
  <2> QED
    BY <1>1, <1>2, <2>2, <2>3
       DEF RuntimeMatchesDemand, SessionIsCurrent, Held, Monitoring
<1>3. CASE ~(Wants(c, a) /\ ~b)
  <2>1. DisableKeepAwake /\ StartMonitor(c, a)
    BY <1>3 DEF Reconcile
  <2>2. worker' = "none" /\ enabled' = FALSE /\ failed' = failed
    BY <2>1 DEF DisableKeepAwake
  <2>3. CASE IdleRequested(c, a)
    <3>0. session' = [minutes |-> IdleMinutes(c, a), option |-> c.option,
                      round |-> ~session.round]
      BY <2>1, <2>3 DEF StartMonitor
    <3>1. /\ session' \in Session
          /\ session'.minutes = IdleMinutes(c, a)
          /\ session'.option = c.option
          /\ session'.minutes > 0
      <4>1. IdleMinutes(c, a) \in Timeouts
        BY <2>3
      <4>4. IdleMinutes(c, a) > 0
        BY <4>1, TimeoutFacts
      <4>2. c.option \in Options
        BY DEF Config
      <4>3. (~session.round) \in BOOLEAN
        OBVIOUS
      <4> QED BY <3>0, <4>1, <4>2, <4>3, <4>4 DEF Session
    <3>2. RuntimeMatchesDemand' /\ SessionIsCurrent'
      BY <1>3, <2>2, <2>3, <3>1
         DEF RuntimeMatchesDemand, SessionIsCurrent, Held, Monitoring
    <3> QED BY <1>1, <2>2, <3>1, <3>2 DEF Workers
  <2>4. CASE ~IdleRequested(c, a)
    <3>1. session' \in Session /\ session'.minutes = 0
      BY <2>1, <2>4 DEF StartMonitor, NoSession
    <3>2. RuntimeMatchesDemand' /\ SessionIsCurrent'
      BY <1>3, <2>2, <2>4, <3>1
         DEF RuntimeMatchesDemand, SessionIsCurrent, Held, Monitoring
    <3> QED BY <1>1, <2>2, <3>1, <3>2 DEF Workers
  <2> QED BY <2>3, <2>4
<1> QED BY <1>2, <1>3
-----------------------------------------------------------------------------
(* The queue *)

\* stopAutomation keeps the length of the queue and the types in it, and
\* leaves no live closure behind.
LEMMA RetireAllFacts ==
  ASSUME NEW q \in Seq(Request)
  PROVE  /\ RetireAll(q) \in Seq(Request)
         /\ \A i \in 1..Len(RetireAll(q)) :
               RetireAll(q)[i].kind = "state" => RetireAll(q)[i].live = FALSE
<1>1. \A r \in Request :
        Retire(r) \in Request /\ (Retire(r).kind = "state" => Retire(r).live = FALSE)
  BY DEF Request, Retire
<1>2. \A i \in 1..Len(q) : q[i] \in Request
  OBVIOUS
<1>3. Len(q) \in Nat
  OBVIOUS
<1>4. RetireAll(q) \in Seq(Request)
  BY <1>1, <1>2, <1>3 DEF RetireAll
<1>5. /\ Len(RetireAll(q)) = Len(q)
      /\ \A i \in 1..Len(q) : RetireAll(q)[i] = Retire(q[i])
  BY <1>3, <1>4 DEF RetireAll
<1> QED BY <1>1, <1>2, <1>4, <1>5

\* Appending keeps the queue typed; what the runner posts needs a runner.
LEMMA AppendFacts ==
  ASSUME NEW q \in Seq(Request), NEW r \in Request
  PROVE  /\ Append(q, r) \in Seq(Request)
         /\ (\A i \in 1..Len(q) : q[i].kind = "state" => q[i].live = FALSE)
              /\ r.kind # "state"
            => \A i \in 1..Len(Append(q, r)) :
                 Append(q, r)[i].kind = "state" => Append(q, r)[i].live = FALSE
OBVIOUS

\* Running the closure at the head leaves a typed queue of the others.
LEMMA TailFacts ==
  ASSUME NEW q \in Seq(Request), q # << >>
  PROVE  /\ Head(q) \in Request
         /\ Head(q) = q[1]
         /\ 1 \in 1..Len(q)
         /\ Tail(q) \in Seq(Request)
         /\ (\A i \in 1..Len(q) : q[i].kind = "state" => q[i].live = FALSE)
            => \A i \in 1..Len(Tail(q)) :
                 Tail(q)[i].kind = "state" => Tail(q)[i].live = FALSE
<1>1. Head(q) \in Request /\ Head(q) = q[1] /\ Tail(q) \in Seq(Request)
  OBVIOUS
<1>2. Len(q) \in Nat /\ Len(q) > 0 /\ Len(Tail(q)) = Len(q) - 1
  OBVIOUS
<1>3. \A i \in 1..Len(Tail(q)) : Tail(q)[i] = q[i + 1] /\ i + 1 \in 1..Len(q)
  BY <1>2
<1> QED BY <1>1, <1>2, <1>3
-----------------------------------------------------------------------------
(* The inductive invariant *)

\* The state onReady leaves behind satisfies every part of it.
THEOREM InitIInv == Init => IInv
<1> SUFFICES ASSUME Init PROVE IInv
  OBVIOUS
<1>1. cfg \in Config /\ ManualExclusive
  BY ConfigTypes, FilesAssumption DEF Init, ManualExclusive
<1>2. NoAuto \in AutoState
  BY DefaultAssumption DEF NoAuto, AutoState
<1>3. auto = NoAuto /\ auto \in AutoState
  BY <1>2 DEF Init
<1>4. /\ runner \in BOOLEAN /\ blocked \in BOOLEAN
      /\ requests \in Seq(Request) /\ Len(requests) = 0
      /\ power \in Power /\ seen = power
  BY <1>1 DEF Init, Blocks, Config
<1>5. loop \in BOOLEAN /\ LoopCoversDemand
  BY <1>1, <1>3, DerivedTypes DEF Init, LoopCoversDemand
<1> DEFINE stayAwake == Wants(cfg, auto) /\ ~blocked
<1>6. /\ failed \in BOOLEAN
      /\ enabled = (stayAwake /\ ~failed)
      /\ worker = IF enabled THEN Mode(KeepScreen(cfg, auto)) ELSE "none"
      /\ failed => stayAwake
  BY FailAssumption DEF Init
<1>7. session = IF IdleRequested(cfg, auto) /\ ~stayAwake
                THEN [minutes |-> IdleMinutes(cfg, auto),
                      option |-> cfg.option, round |-> TRUE]
                ELSE NoSession(cfg)
  BY DEF Init
<1> HIDE DEF stayAwake
<1>8. /\ session \in Session
      /\ Monitoring <=> IdleRequested(cfg, auto) /\ ~stayAwake
      /\ SessionIsCurrent
  <2>1. CASE IdleRequested(cfg, auto) /\ ~stayAwake
    <3>1. /\ IdleMinutes(cfg, auto) \in Timeouts
          /\ IdleMinutes(cfg, auto) > 0
      BY <1>1, <1>3, <2>1, DerivedTypes, TimeoutFacts
    <3>2. cfg.option \in Options
      BY <1>1 DEF Config
    <3>3. session = [minutes |-> IdleMinutes(cfg, auto),
                     option |-> cfg.option, round |-> TRUE]
      BY <1>7, <2>1
    <3> QED BY <2>1, <3>1, <3>2, <3>3
            DEF Session, Monitoring, SessionIsCurrent
  <2>2. CASE ~(IdleRequested(cfg, auto) /\ ~stayAwake)
    <3>1. session = NoSession(cfg) /\ session \in Session
      BY <1>1, <1>3, <1>7, <2>2, DerivedTypes
    <3>2. session.minutes = 0
      BY <3>1 DEF NoSession
    <3> QED BY <2>2, <3>1, <3>2 DEF Monitoring, SessionIsCurrent
  <2> QED BY <2>1, <2>2
<1>9. /\ worker \in Workers /\ enabled \in BOOLEAN
      /\ Held => stayAwake
      /\ stayAwake => enabled \/ failed
      /\ enabled => worker = Mode(KeepScreen(cfg, auto))
  BY <1>1, <1>3, <1>6, DerivedTypes DEF Workers, Held
<1>10. RuntimeMatchesDemand
  BY <1>8, <1>9 DEF RuntimeMatchesDemand, stayAwake
<1>11. TypeOK
  BY <1>1, <1>3, <1>4, <1>5, <1>6, <1>8, <1>9 DEF TypeOK, Workers
<1>12. BlockedFollowsPolicy
  BY DEF Init, BlockedFollowsPolicy
<1>13. NoLiveWithoutRunner /\ NoAutoWithoutRunner
  BY <1>3, <1>4 DEF NoLiveWithoutRunner, NoAutoWithoutRunner
<1> QED BY <1>1, <1>5, <1>8, <1>10, <1>11, <1>12, <1>13 DEF IInv

\* A user command that changes the configuration and reconciles keeps it.
LEMMA CommandStep ==
  ASSUME IInv,
         cfg' \in Config,
         ~(cfg'.noSleep /\ cfg'.idle > 0),
         cfg'.onBattery = cfg.onBattery,
         Reconcile(cfg', auto, blocked, worker),
         UNCHANGED <<auto, runner, blocked, requests, power, seen>>
  PROVE  IInv'
<1>1. /\ session \in Session /\ failed \in BOOLEAN /\ worker \in Workers
      /\ auto \in AutoState /\ blocked \in BOOLEAN
  BY DEF IInv, TypeOK, Workers
<1>2. /\ session' \in Session /\ loop' \in BOOLEAN /\ worker' \in Workers
      /\ enabled' \in BOOLEAN /\ failed' \in BOOLEAN
      /\ RuntimeMatchesDemand' /\ SessionIsCurrent' /\ LoopCoversDemand'
  BY <1>1, ReconcileEstablishes
<1>3. TypeOK'
  BY <1>2 DEF IInv, TypeOK, Workers
<1>4. ManualExclusive'
  BY DEF ManualExclusive
<1>5. BlockedFollowsPolicy'
  BY DEF IInv, BlockedFollowsPolicy, Blocks
<1>6. NoLiveWithoutRunner' /\ NoAutoWithoutRunner'
  BY DEF IInv, NoLiveWithoutRunner, NoAutoWithoutRunner
<1> QED BY <1>2, <1>3, <1>4, <1>5, <1>6 DEF IInv

\* A restart of the automation, on a reload or a rule change, keeps it: the
\* state the old runner requested is dropped and its closures are dead.
LEMMA RestartStep ==
  ASSUME IInv, NEW w \in Workers,
         cfg' \in Config,
         ~(cfg'.noSleep /\ cfg'.idle > 0),
         blocked' \in BOOLEAN, seen' \in Power,
         BlockedFollowsPolicy',
         RestartRunner(cfg'),
         Reconcile(cfg', auto', blocked', w),
         UNCHANGED power
  PROVE  IInv'
<1>1. session \in Session /\ failed \in BOOLEAN /\ requests \in Seq(Request)
  BY DEF IInv, TypeOK
<1>2. auto' = NoAuto /\ auto' \in AutoState
  BY DefaultAssumption DEF RestartRunner, NoAuto, AutoState
<1>3. /\ session' \in Session /\ loop' \in BOOLEAN /\ worker' \in Workers
      /\ enabled' \in BOOLEAN /\ failed' \in BOOLEAN
      /\ RuntimeMatchesDemand' /\ SessionIsCurrent' /\ LoopCoversDemand'
  BY <1>1, <1>2, ReconcileEstablishes
<1>4. /\ requests' \in Seq(Request)
      /\ NoLiveWithoutRunner'
  BY <1>1, RetireAllFacts DEF RestartRunner, NoLiveWithoutRunner
<1>5. runner' \in BOOLEAN
  BY DEF RestartRunner, Config
<1>6. power' \in Power
  BY DEF IInv, TypeOK
<1>7. TypeOK'
  BY <1>2, <1>3, <1>4, <1>5, <1>6 DEF TypeOK, Workers
<1>8. ManualExclusive' /\ NoAutoWithoutRunner'
  BY <1>2 DEF ManualExclusive, NoAutoWithoutRunner
<1> QED BY <1>3, <1>4, <1>7, <1>8 DEF IInv

\* Every handler, broadcast and queued closure keeps the invariant.
THEOREM NextIInv == IInv /\ [Next]_vars => IInv'
<1> SUFFICES ASSUME IInv, [Next]_vars PROVE IInv'
  OBVIOUS
<1>1. /\ cfg \in Config /\ auto \in AutoState /\ blocked \in BOOLEAN
      /\ session \in Session /\ worker \in Workers /\ failed \in BOOLEAN
      /\ requests \in Seq(Request) /\ power \in Power /\ runner \in BOOLEAN
  BY DEF IInv, TypeOK, Workers
<1>2. ASSUME NEW on \in BOOLEAN, NEW display \in BOOLEAN,
             SetNoSleep(on, display)
      PROVE  IInv'
  <2>1. /\ cfg' \in Config
        /\ ~(cfg'.noSleep /\ cfg'.idle > 0)
    BY <1>1, <1>2, ConfigTypes DEF SetNoSleep, IInv, ManualExclusive
  <2>2. cfg'.onBattery = cfg.onBattery
    BY <1>1, <1>2 DEF SetNoSleep, SetNoSleepConfig, Config
  <2> QED BY <1>2, <2>1, <2>2, CommandStep DEF SetNoSleep
<1>3. ASSUME NEW minutes \in {0} \cup Timeouts, SetIdleTimeout(minutes)
      PROVE  IInv'
  <2>1. /\ cfg' \in Config
        /\ ~(cfg'.noSleep /\ cfg'.idle > 0)
    BY <1>1, <1>3, ConfigTypes DEF SetIdleTimeout
  <2>2. cfg'.onBattery = cfg.onBattery
    BY <1>1, <1>3 DEF SetIdleTimeout, SetIdleTimeoutConfig, Config
  <2> QED BY <1>3, <2>1, <2>2, CommandStep DEF SetIdleTimeout
<1>4. ASSUME NEW option \in Options, SetIdleOption(option)
      PROVE  IInv'
  <2>1. cfg' = [cfg EXCEPT !.option = option]
    BY <1>4 DEF SetIdleOption
  <2>2. /\ cfg' \in Config /\ cfg'.noSleep = cfg.noSleep
        /\ cfg'.idle = cfg.idle /\ cfg'.onBattery = cfg.onBattery
    BY <1>1, <2>1 DEF Config
  <2>3. ~(cfg'.noSleep /\ cfg'.idle > 0)
    BY <2>2 DEF IInv, ManualExclusive
  <2> QED BY <1>4, <2>2, <2>3, CommandStep DEF SetIdleOption
<1>5. CASE ToggleTheme
  <2>1. cfg' = [cfg EXCEPT !.theme = ~cfg.theme]
    BY <1>5 DEF ToggleTheme
  <2>2. (~cfg.theme) \in BOOLEAN
    OBVIOUS
  <2>3. /\ cfg' \in Config
        /\ cfg'.noSleep = cfg.noSleep /\ cfg'.screen = cfg.screen
        /\ cfg'.idle = cfg.idle /\ cfg'.option = cfg.option
        /\ cfg'.onBattery = cfg.onBattery /\ cfg'.rules = cfg.rules
    BY <1>1, <2>1, <2>2 DEF Config
  <2>4. /\ Wants(cfg', auto') = Wants(cfg, auto)
        /\ KeepScreen(cfg', auto') = KeepScreen(cfg, auto)
        /\ IdleRequested(cfg', auto') = IdleRequested(cfg, auto)
        /\ IdleMinutes(cfg', auto') = IdleMinutes(cfg, auto)
    BY <1>5, <2>3
       DEF ToggleTheme, Wants, KeepScreen, IdleRequested, IdleMinutes
  <2>5. loop' \in BOOLEAN /\ LoopCoversDemand'
    BY <1>1, <1>5, <2>3, DerivedTypes DEF ToggleTheme, LoopCoversDemand
  <2>6. TypeOK'
    BY <1>5, <2>3, <2>5 DEF ToggleTheme, IInv, TypeOK
  <2>7. RuntimeMatchesDemand' /\ SessionIsCurrent'
    BY <1>5, <2>3, <2>4
       DEF ToggleTheme, IInv, RuntimeMatchesDemand, SessionIsCurrent, Held,
           Monitoring
  <2>8. BlockedFollowsPolicy' /\ ManualExclusive'
    BY <1>5, <2>3
       DEF ToggleTheme, IInv, BlockedFollowsPolicy, Blocks, ManualExclusive
  <2>9. NoLiveWithoutRunner' /\ NoAutoWithoutRunner'
    BY <1>5 DEF ToggleTheme, IInv, NoLiveWithoutRunner, NoAutoWithoutRunner
  <2> QED BY <2>5, <2>6, <2>7, <2>8, <2>9 DEF IInv
<1>6. ASSUME NEW rules \in BOOLEAN, SetRules(rules)
      PROVE  IInv'
  <2>1. cfg' = [cfg EXCEPT !.rules = rules]
    BY <1>6 DEF SetRules
  <2>2. /\ cfg' \in Config /\ cfg'.noSleep = cfg.noSleep
        /\ cfg'.idle = cfg.idle /\ cfg'.onBattery = cfg.onBattery
    BY <1>1, <2>1 DEF Config
  <2>3. ~(cfg'.noSleep /\ cfg'.idle > 0)
    BY <2>2 DEF IInv, ManualExclusive
  <2>4. /\ RestartRunner(cfg') /\ Reconcile(cfg', auto', blocked, worker)
        /\ UNCHANGED <<blocked, power, seen>>
    BY <1>6 DEF SetRules
  <2>5. BlockedFollowsPolicy'
    BY <2>2, <2>4 DEF IInv, BlockedFollowsPolicy, Blocks
  <2>6. Reconcile(cfg', auto', blocked', worker)
    BY <2>4
  <2>7. seen' \in Power /\ blocked' \in BOOLEAN
    BY <2>4 DEF IInv, TypeOK
  <2> QED BY <1>1, <2>2, <2>3, <2>4, <2>5, <2>6, <2>7, RestartStep
<1>7. ASSUME NEW new \in Files, Reload(new)
      PROVE  IInv'
  <2>1. cfg' \in Config /\ ~(cfg'.noSleep /\ cfg'.idle > 0)
    BY <1>7, ConfigTypes, FilesAssumption DEF Reload
  <2>2. /\ RestartRunner(cfg') /\ Reconcile(cfg', auto', blocked', "none")
        /\ UNCHANGED power /\ seen' = power /\ blocked' = Blocks(cfg', power)
    BY <1>7 DEF Reload
  <2>3. blocked' \in BOOLEAN /\ seen' \in Power
    BY <1>1, <2>1, <2>2 DEF Blocks, Config
  <2>4. BlockedFollowsPolicy'
    BY <2>2 DEF BlockedFollowsPolicy
  <2>5. "none" \in Workers
    BY DEF Workers
  <2> QED BY <2>1, <2>2, <2>3, <2>4, <2>5, RestartStep
<1>8. ASSUME NEW again \in BOOLEAN, RefreshBattery(again)
      PROVE  IInv'
  <2>1. /\ seen' = power /\ blocked' = Blocks(cfg, power)
        /\ UNCHANGED <<cfg, auto, runner, requests, power>>
    BY <1>8 DEF RefreshBattery
  <2>2. blocked' \in BOOLEAN /\ seen' \in Power
    BY <1>1, <2>1 DEF Blocks, Config
  <2>3. BlockedFollowsPolicy' /\ ManualExclusive'
    BY <2>1 DEF IInv, BlockedFollowsPolicy, ManualExclusive
  <2>4. NoLiveWithoutRunner' /\ NoAutoWithoutRunner'
    BY <2>1 DEF IInv, NoLiveWithoutRunner, NoAutoWithoutRunner
  <2>5. CASE blocked' # blocked \/ again
    <3>1. Reconcile(cfg, auto, blocked', worker)
      BY <1>8, <2>5 DEF RefreshBattery
    <3>2. /\ session' \in Session /\ loop' \in BOOLEAN /\ worker' \in Workers
          /\ enabled' \in BOOLEAN /\ failed' \in BOOLEAN
          /\ RuntimeMatchesDemand' /\ SessionIsCurrent' /\ LoopCoversDemand'
      BY <1>1, <2>1, <2>2, <3>1, ReconcileEstablishes
    <3>3. TypeOK'
      BY <2>1, <2>2, <3>2 DEF IInv, TypeOK, Workers
    <3> QED BY <2>3, <2>4, <3>2, <3>3 DEF IInv
  <2>6. CASE ~(blocked' # blocked \/ again)
    <3>1. UNCHANGED <<loop, session, worker, enabled, failed, blocked>>
      BY <1>8, <2>6 DEF RefreshBattery
    <3>2. TypeOK'
      BY <2>1, <2>2, <3>1 DEF IInv, TypeOK
    <3>3. RuntimeMatchesDemand' /\ SessionIsCurrent' /\ LoopCoversDemand'
      BY <2>1, <3>1
         DEF IInv, RuntimeMatchesDemand, SessionIsCurrent, LoopCoversDemand,
             Held, Monitoring
    <3> QED BY <2>3, <2>4, <3>2, <3>3 DEF IInv
  <2> QED BY <2>5, <2>6
<1>9. ASSUME NEW p \in Power, PowerChange(p)
      PROVE  IInv'
  BY <1>9 DEF PowerChange, IInv, TypeOK, ManualExclusive,
       RuntimeMatchesDemand, SessionIsCurrent, BlockedFollowsPolicy,
       LoopCoversDemand, NoLiveWithoutRunner, NoAutoWithoutRunner, Held,
       Monitoring
<1>10. ASSUME NEW r \in Request, Post(r), r.kind = "state" => runner
       PROVE  IInv'
  <2>1. /\ requests' = Append(requests, r)
        /\ UNCHANGED <<cfg, auto, runner, blocked, loop, session, worker,
                       enabled, power, seen, failed>>
    BY <1>10 DEF Post
  <2>2. requests' \in Seq(Request)
    BY <1>1, <2>1, AppendFacts
  <2>3. NoLiveWithoutRunner'
    BY <1>1, <1>10, <2>1, AppendFacts DEF IInv, NoLiveWithoutRunner
  <2>4. TypeOK'
    BY <2>1, <2>2 DEF IInv, TypeOK
  <2> QED
    BY <2>1, <2>3, <2>4
       DEF IInv, ManualExclusive, RuntimeMatchesDemand, SessionIsCurrent,
           BlockedFollowsPolicy, LoopCoversDemand, NoAutoWithoutRunner, Held,
           Monitoring
<1>11. CASE RunState
  <2>1. /\ requests # << >> /\ requests' = Tail(requests)
        /\ Head(requests).kind = "state"
        /\ UNCHANGED <<cfg, runner, blocked, power, seen>>
    BY <1>11 DEF RunState
  <2>2. /\ Head(requests) \in Request /\ Head(requests) = requests[1]
        /\ 1 \in 1..Len(requests) /\ requests' \in Seq(Request)
        /\ NoLiveWithoutRunner'
    BY <1>1, <2>1, TailFacts DEF IInv, NoLiveWithoutRunner
  <2>3. BlockedFollowsPolicy' /\ ManualExclusive'
    BY <2>1 DEF IInv, BlockedFollowsPolicy, ManualExclusive
  <2>4. CASE Head(requests).live
    <3>1. auto' = Head(requests).state /\ Reconcile(cfg, auto', blocked, worker)
      BY <1>11, <2>4 DEF RunState
    <3>2. auto' \in AutoState
      BY <2>1, <2>2, <3>1 DEF Request
    <3>3. /\ session' \in Session /\ loop' \in BOOLEAN /\ worker' \in Workers
          /\ enabled' \in BOOLEAN /\ failed' \in BOOLEAN
          /\ RuntimeMatchesDemand' /\ SessionIsCurrent' /\ LoopCoversDemand'
      BY <1>1, <2>1, <3>1, <3>2, ReconcileEstablishes
    <3>4. TypeOK'
      BY <2>1, <2>2, <3>2, <3>3 DEF IInv, TypeOK, Workers
    <3>5. runner'
      BY <2>1, <2>2, <2>4, <1>1 DEF IInv, NoLiveWithoutRunner
    <3> QED
      BY <2>2, <2>3, <3>3, <3>4, <3>5 DEF IInv, NoAutoWithoutRunner
  <2>5. CASE ~Head(requests).live
    <3>1. UNCHANGED <<auto, loop, session, worker, enabled, failed>>
      BY <1>11, <2>5 DEF RunState
    <3>2. TypeOK'
      BY <2>1, <2>2, <3>1 DEF IInv, TypeOK
    <3> QED
      BY <2>1, <2>2, <2>3, <3>1, <3>2
         DEF IInv, RuntimeMatchesDemand, SessionIsCurrent, LoopCoversDemand,
             NoAutoWithoutRunner, Held, Monitoring
  <2> QED BY <2>4, <2>5
<1>12. CASE RunDismiss
  <2>1. /\ requests # << >> /\ requests' = Tail(requests)
        /\ UNCHANGED <<cfg, auto, runner, blocked, loop, worker, enabled,
                       power, seen, failed>>
    BY <1>12 DEF RunDismiss
  <2>2. requests' \in Seq(Request) /\ NoLiveWithoutRunner'
    BY <1>1, <2>1, TailFacts DEF IInv, NoLiveWithoutRunner
  <2>3. /\ session' \in Session
        /\ Monitoring' <=> Monitoring
        /\ SessionIsCurrent'
    <3>1. CASE Monitoring /\ IdleRequested(cfg, auto)
      <4>1. session' = [minutes |-> IdleMinutes(cfg, auto),
                        option |-> cfg.option, round |-> ~session.round]
        BY <1>12, <3>1 DEF RunDismiss, StartMonitor
      <4>2. IdleMinutes(cfg, auto) \in Timeouts /\ IdleMinutes(cfg, auto) > 0
        BY <1>1, <3>1, DerivedTypes, TimeoutFacts
      <4>3. cfg.option \in Options
        BY <1>1 DEF Config
      <4>4. (~session.round) \in BOOLEAN
        OBVIOUS
      <4>5. session' \in Session
        BY <4>1, <4>2, <4>3, <4>4 DEF Session
      <4> QED
        BY <2>1, <3>1, <4>1, <4>2, <4>5 DEF Monitoring, SessionIsCurrent
    <3>2. CASE ~(Monitoring /\ IdleRequested(cfg, auto))
      <4>1. session' = session
        BY <1>12, <3>2 DEF RunDismiss
      <4> QED
        BY <1>1, <2>1, <4>1 DEF IInv, Monitoring, SessionIsCurrent
    <3> QED BY <3>1, <3>2
  <2>4. TypeOK'
    BY <2>1, <2>2, <2>3 DEF IInv, TypeOK
  <2>5. RuntimeMatchesDemand'
    BY <2>1, <2>3 DEF IInv, RuntimeMatchesDemand, Held
  <2> QED
    BY <2>1, <2>2, <2>3, <2>4, <2>5
       DEF IInv, ManualExclusive, BlockedFollowsPolicy, LoopCoversDemand,
           NoAutoWithoutRunner
<1>13. CASE UNCHANGED vars
  BY <1>13 DEF vars, IInv, TypeOK, ManualExclusive,
       RuntimeMatchesDemand, SessionIsCurrent, BlockedFollowsPolicy,
       LoopCoversDemand, NoLiveWithoutRunner, NoAutoWithoutRunner, Held,
       Monitoring
<1>14. CASE ToggleNoSleep
  <2>1. (~cfg.noSleep) \in BOOLEAN /\ cfg.screen \in BOOLEAN
    BY <1>1 DEF Config
  <2> QED BY <1>2, <1>14, <2>1 DEF ToggleNoSleep
<1>15. ASSUME NEW state \in AutoStates, PostState(state)
       PROVE  IInv'
  <2>1. [kind |-> "state", state |-> state, live |-> TRUE] \in Request
    BY AutoAssumption DEF Request
  <2> QED BY <1>10, <1>15, <2>1 DEF PostState
<1>16. CASE PostDismiss
  <2>1. /\ [kind |-> "dismiss"] \in Request
        /\ [kind |-> "dismiss"].kind # "state"
    BY DEF Request
  <2> QED BY <1>10, <1>16, <2>1 DEF PostDismiss
<1>17. CASE BatteryTick
  BY <1>8, <1>17 DEF BatteryTick
<1>18. ASSUME NEW resume \in BOOLEAN, PowerEvent(resume)
       PROVE  IInv'
  BY <1>8, <1>18 DEF PowerEvent
<1> QED
  BY <1>2, <1>3, <1>4, <1>5, <1>6, <1>7, <1>9, <1>11, <1>12, <1>13, <1>14,
     <1>15, <1>16, <1>17, <1>18 DEF Next
-----------------------------------------------------------------------------
(* Theorems of the specification *)

\* The conjunction of the model's invariants holds in every reachable state.
THEOREM Invariance == Spec => []IInv
BY InitIInv, NextIInv, PTL DEF Spec

\* Every variable keeps its type, the queue included.
THEOREM TypeCorrect == Spec => []TypeOK
<1>1. IInv => TypeOK
  BY DEF IInv
<1> QED BY <1>1, Invariance, PTL

\* The services always are the ones configuration, automation and battery
\* call for, and the battery verdict is that of the current policy.
THEOREM DemandMet ==
  Spec => [](RuntimeMatchesDemand /\ SessionIsCurrent /\ BlockedFollowsPolicy)
<1>1. IInv => RuntimeMatchesDemand /\ SessionIsCurrent /\ BlockedFollowsPolicy
  BY DEF IInv
<1> QED BY <1>1, Invariance, PTL

\* Stay Awake and the idle monitor never run together.
THEOREM Exclusion == Spec => []MutualExclusion
<1>1. IInv => MutualExclusion
  BY DEF IInv, RuntimeMatchesDemand, MutualExclusion
<1> QED BY <1>1, Invariance, PTL

\* Session, verdict and automation state are those of the configuration, the
\* battery status and the rule set of now.
THEOREM Currency == Spec => []StateIsCurrent
<1>1. IInv => StateIsCurrent
  BY DEF IInv, StateIsCurrent
<1> QED BY <1>1, Invariance, PTL

\* Both features are never on in the configuration in memory.
THEOREM ManualExclusion == Spec => []ManualExclusive
<1>1. IInv => ManualExclusive
  BY DEF IInv
<1> QED BY <1>1, Invariance, PTL

-----------------------------------------------------------------------------
(***************************************************************************)
(* The idle monitor that a session runs (IdleMonitor), for any timeout,    *)
(* width of a tick, tolerance, device, and number of inputs, restarts and  *)
(* faults: it acts on idleness of its own window only, passes over only    *)
(* what is periodic, and a warning on the screen is one of a session that  *)
(* goes on.                                                                *)
(***************************************************************************)
\* The monitor's window is not longer than the time since it began, and what a
\* poll sampled lies within it.
WindowKept ==
    /\ sinceStart <= sinceWindow
    /\ pc = "evaluate" => idle <= sinceStart
    /\ FreshWindow

\* The time stamp never makes anyone idle who has given input since.
IdleIsReal ==
    /\ Capped(ElapsedTicks(age)) <= quiet
    /\ pc = "evaluate" /\ ~enhanced => idle <= sampledQuiet
    /\ ActsWhenIdle

\* What is on the screen once the UI thread has caught up
UpNext == IF tasks = <<>> THEN screen ELSE tasks[Len(tasks)] = "show"

\* A warning that is up, or about to be, is one of a session that warned, with
\* nobody stopping it, unless the user has closed it or a poll overtook a stop;
\* and none is about to be when the action is taken.
WarningOwned ==
    /\ UpNext /\ ~dismissed /\ ~raced => warned /\ stopping = "no"
    /\ stopping # "no" => ~dismissed
    /\ pc = "off" => stopping # "no"
    /\ Acts => ~UpNext

\* The lag of the rounded average, and how far the one but last interval, of
\* whichever two it was, may lie above it
Lag   == Tolerance \div (count + 1)
Above == IF Tolerance = 0 THEN 0 ELSE Tolerance + 1

InWindow(g) == g \in MinInterval..MaxInterval

\* The last interval of a pattern is near the average and the one before it a
\* little further from it; the last three are near each other.
LastNear ==
    LET n == Len(gaps)
    IN  count >= 1 =>
          /\ n >= 1 /\ InWindow(gaps[n])
          /\ gaps[n] - baseline <= Tolerance - Lag
          /\ baseline - gaps[n] <= Tolerance - Lag

LastTwoNear ==
    LET n == Len(gaps)
    IN  count >= 2 /\ Required >= 2 =>
          /\ n >= 2 /\ InWindow(gaps[n - 1])
          /\ gaps[n - 1] - baseline <= Above
          /\ baseline - gaps[n - 1] <= Tolerance
          /\ Distance(gaps[n - 1], gaps[n]) <= Spread

LastThreeNear ==
    count >= 3 /\ Required = 3 =>
       /\ Len(gaps) = 3 /\ InWindow(gaps[1])
       /\ Distance(gaps[1], gaps[2]) <= Spread
       /\ Distance(gaps[1], gaps[3]) <= Spread

\* Only a whole pattern makes the idle time a logical one.
PatternWhole == logical => enhanced /\ count >= Required

PatternKept == LastNear /\ LastTwoNear /\ LastThreeNear /\ PatternWhole

IdleInv == IdleTypes /\ WindowKept /\ IdleIsReal /\ WarningOwned /\ PatternKept

-----------------------------------------------------------------------------
(* Numbers *)

\* What the assumption says of each constant
LEMMA Constants ==
  /\ Threshold \in Nat /\ Threshold >= 1
  /\ MinInterval \in Nat /\ MaxInterval \in Nat /\ MinInterval >= 1
  /\ WarningOffset \in Nat /\ Tolerance \in Nat
  /\ MaxInputs \in Nat /\ MaxRestarts \in Nat /\ MaxFaults \in Nat
  /\ CountCap \in Nat /\ CountCap >= Required
  /\ Required \in {1, 2, 3}
  /\ Wrap \in Nat /\ Wrap \div 2 \in Nat /\ Wrap \div 2 >= 2
  /\ Wrap \div 2 <= Wrap - 2
  /\ Threshold < Wrap \div 2
  /\ \A g \in Gaps : g \in Nat /\ g >= 1 /\ g < Wrap
<1>1. Threshold \in Nat /\ Threshold >= 1 /\ Width \in Nat
  BY IdleAssumption
<1>2. Wrap \in Int
  BY <1>1 DEF Wrap
<1>3. Wrap \div 2 \in Int /\ 2 * (Wrap \div 2) <= Wrap /\ Wrap < 2 * (Wrap \div 2) + 2
  BY <1>2
<1>4. Threshold < Wrap \div 2
  BY IdleAssumption
<1>5. Wrap \in Nat /\ Wrap \div 2 \in Nat /\ Wrap \div 2 >= 2 /\ Wrap \div 2 <= Wrap - 2
  BY <1>1, <1>2, <1>3, <1>4
<1>6. \A g \in Gaps : g \in Nat /\ g >= 1 /\ g < Wrap
  BY <1>5, IdleAssumption
<1>7. Required \in {1, 2, 3}
  BY IdleAssumption
<1>8. /\ MinInterval \in Nat /\ MaxInterval \in Nat /\ MinInterval >= 1
      /\ WarningOffset \in Nat /\ Tolerance \in Nat
      /\ MaxInputs \in Nat /\ MaxRestarts \in Nat /\ MaxFaults \in Nat
      /\ CountCap \in Nat /\ CountCap >= Required
  BY IdleAssumption
<1> QED BY <1>1, <1>4, <1>5, <1>6, <1>7, <1>8

\* A difference of ticks is never negative, nor as long as half a turn.
LEMMA TickFacts ==
  ASSUME NEW n \in Int
  PROVE  ElapsedTicks(n) \in 0 .. Wrap \div 2 - 1 /\ ElapsedTicks(n) \in Ages
<1> DEFINE w == Wrap
           h == Wrap \div 2
<1>1. w \in Nat \ {0} /\ h \in Nat /\ h >= 2 /\ h <= w - 2
  BY Constants
<1> HIDE DEF w, h
<1>2. n % w \in 0 .. w - 1
  BY <1>1
<1>3. ElapsedTicks(n) = IF n % w < h THEN n % w ELSE 0
  BY DEF ElapsedTicks, w, h
<1>4. ElapsedTicks(n) \in 0 .. h - 1 /\ ElapsedTicks(n) \in 0 .. w - 1
  BY <1>1, <1>2, <1>3
<1> QED BY <1>4 DEF w, h, Ages

\* The age of an input counts while it is below half a turn, and grows by one.
LEMMA AgeFacts ==
  ASSUME NEW a \in Ages
  PROVE  /\ ElapsedTicks(a) = IF a < Wrap \div 2 THEN a ELSE 0
         /\ (a + 1) % Wrap = (IF a + 1 = Wrap THEN 0 ELSE a + 1)
         /\ (a + 1) % Wrap \in Ages
<1> DEFINE w == Wrap
           h == Wrap \div 2
<1>1. w \in Nat \ {0} /\ h \in Nat /\ a \in 0 .. w - 1
  BY Constants DEF Ages
<1>2. ElapsedTicks(a) = IF a % w < h THEN a % w ELSE 0
  BY DEF ElapsedTicks, w, h
<1> HIDE DEF w, h
<1>3. a % w = a
  BY <1>1
<1>4. (a + 1) % w = (IF a + 1 = w THEN 0 ELSE a + 1)
  BY <1>1
<1>5. (a + 1) % w \in 0 .. w - 1
  BY <1>1, <1>4
<1> QED BY <1>2, <1>3, <1>4, <1>5 DEF w, h, Ages

\* No time is longer than the threshold, and one that grows stays in order.
LEMMA CappedFacts ==
  /\ \A n \in Nat : Capped(n) \in 0 .. Threshold /\ Capped(n) <= n
  /\ \A n, m \in Nat : n <= m => Capped(n) <= Capped(m)
  /\ \A n \in 0 .. Threshold : Capped(n) = n
  /\ Capped(Threshold + 1) = Threshold
BY Constants DEF Capped

\* The average of n = count intervals and one more, m of them in all, rounded
\* down: it moves by a share of the difference.
LEMMA AverageStep ==
  ASSUME NEW b \in Nat, NEW x \in Nat, NEW c \in Nat, c >= 1, NEW T \in Nat,
         x - b <= T, b - x <= T
  PROVE  LET q == (b * c + x) \div (c + 1)
             f == T \div (c + 1)
         IN  /\ q \in Nat /\ f \in Nat
             /\ q - b <= f /\ b - q <= f + 1
             /\ x - q <= T - f /\ q - x <= T - f
             /\ T = 0 => q = b
             /\ \A u \in Nat : b <= u /\ x <= u => q <= u
<1> DEFINE m == c + 1
           n == b * c + x
           q == n \div m
           f == T \div m
           e == x - b
           d == q - b
<1>1. m \in Nat /\ m >= 2 /\ n \in Nat /\ e \in Int /\ n = m * b + e
  OBVIOUS
<1>2. q \in Int /\ m * q <= n /\ n < m * q + m
  <2> HIDE DEF m, n
  <2> QED BY <1>1
<1>3. f \in Int /\ m * f <= T /\ T < m * f + m
  <2> HIDE DEF m, n
  <2> QED BY <1>1
<1>4. d \in Int /\ q = b + d
  BY <1>2
<1> HIDE DEF m, n, q, f, d
<1>5. m * q = m * b + m * d
  BY <1>1, <1>4
<1>6. m * d <= e /\ e < m * d + m
  BY <1>1, <1>2, <1>4, <1>5
<1>7. e <= T /\ -T <= e
  BY DEF e
<1> HIDE DEF e
<1>8. f >= 0
  BY <1>1, <1>3
<1>9. d <= f
  <2>1. m * d < m * f + m
    BY <1>1, <1>3, <1>4, <1>6, <1>7
  <2>2. m * d < m * (f + 1)
    BY <2>1, <1>1, <1>3, <1>4
  <2>3. d < f + 1
    BY <2>2, <1>1, <1>3, <1>4
  <2> QED BY <2>3, <1>3, <1>4
<1>10. -d <= f + 1
  <2>1. -(m * f + m) < m * d + m
    BY <1>1, <1>3, <1>4, <1>6, <1>7
  <2>2. m * (-(f + 1)) < m * (d + 1)
    BY <2>1, <1>1, <1>3, <1>4
  <2>3. -(f + 1) < d + 1
    BY <2>2, <1>1, <1>3, <1>4
  <2> QED BY <2>3, <1>3, <1>4
<1>11. e - d <= T - f
  <2> SUFFICES ASSUME e - d > T - f PROVE FALSE
    BY <1>1, <1>3, <1>4
  <2> DEFINE k == T - e
  <2>1. k \in Nat /\ d + 1 <= f - k
    BY <1>1, <1>3, <1>4, <1>7
  <2>2. m * (d + 1) <= m * (f - k)
    BY <2>1, <1>1, <1>3, <1>4
  <2>3. m * f - k < m * (d + 1)
    BY <1>1, <1>3, <1>4, <1>6
  <2>4. m * f - k < m * f - m * k
    BY <2>1, <2>2, <2>3, <1>1, <1>3, <1>4
  <2>5. m * k < k
    BY <2>1, <2>4, <1>1, <1>3
  <2> HIDE DEF k
  <2> QED BY <2>1, <2>5, <1>1
<1>12. d - e <= T - f
  <2> SUFFICES ASSUME d - e > T - f PROVE FALSE
    BY <1>1, <1>3, <1>4
  <2> DEFINE k == e + T
  <2>1. k \in Nat /\ k - f + 1 <= d
    BY <1>1, <1>3, <1>4, <1>7
  <2>2. m * (k - f + 1) <= m * d
    BY <2>1, <1>1, <1>3, <1>4
  <2>3. m * d <= k - m * f
    BY <1>1, <1>3, <1>4, <1>6
  <2>4. m * k - m * f + m <= k - m * f
    BY <2>1, <2>2, <2>3, <1>1, <1>3, <1>4
  <2>5. m * k + m <= k
    BY <2>1, <2>4, <1>1, <1>3
  <2> HIDE DEF k
  <2> QED BY <2>1, <2>5, <1>1
<1>13. x - q <= T - f /\ q - x <= T - f
  BY <1>11, <1>12, <1>3, <1>4 DEF e
<1>14. q - b <= f /\ b - q <= f + 1
  BY <1>9, <1>10, <1>3, <1>4
<1>15. T = 0 => q = b
  <2> SUFFICES ASSUME T = 0 PROVE d = 0
    BY <1>4
  <2>1. e = 0
    BY <1>7, <1>1
  <2>2. m * d <= 0 /\ 0 < m * d + m
    BY <2>1, <1>6
  <2>3. d <= 0 /\ d > -1
    BY <2>2, <1>1, <1>4
  <2> QED BY <2>3, <1>4
<1>16. ASSUME NEW u \in Nat, b <= u, x <= u PROVE q <= u
  <2>1. m * b + e <= m * u
    <3>1. c * b <= c * u
      BY <1>16
    <3>2. m * b + e = c * b + x /\ m * u = c * u + u
      BY DEF m, e
    <3> QED BY <3>1, <3>2, <1>16
  <2>2. m * q <= m * u
    BY <2>1, <1>1, <1>2
  <2> QED BY <2>2, <1>1, <1>2
<1>17. q >= 0
  <2>1. 0 < m * (q + 1)
    BY <1>1, <1>2
  <2> QED BY <2>1, <1>1, <1>2
<1> QED BY <1>2, <1>3, <1>8, <1>13, <1>14, <1>15, <1>16, <1>17 DEF q, f, n, m

\* A larger weight has a smaller lag.
LEMMA LagShrinks ==
  ASSUME NEW T \in Nat, NEW m \in Nat, NEW k \in Nat, m >= 1, m <= k
  PROVE  T \div k \in Nat /\ T \div m \in Nat /\ T \div k <= T \div m /\ T \div m <= T
<1> DEFINE f == T \div m
           g == T \div k
<1>1. f \in Int /\ m * f <= T /\ T < m * f + m
  OBVIOUS
<1>2. g \in Int /\ k * g <= T /\ T < k * g + k
  OBVIOUS
<1> HIDE DEF f, g
<1>3. f >= 0 /\ g >= 0
  BY <1>1, <1>2
<1>4. m * g <= k * g
  BY <1>2, <1>3
<1>5. m * g < m * (f + 1)
  BY <1>1, <1>2, <1>4
<1>6. g < f + 1
  BY <1>1, <1>2, <1>5
<1>7. f <= m * f
  BY <1>1, <1>3
<1> QED BY <1>1, <1>2, <1>3, <1>6, <1>7 DEF f, g

-----------------------------------------------------------------------------
(* What leaves the parts of the invariant alone *)

\* A pattern is judged by the inputs seen and nothing else.
LEMMA PatternStays ==
  ASSUME PatternKept, UNCHANGED <<count, baseline, gaps, enhanced>>,
         logical' = logical \/ ~logical'
  PROVE  PatternKept'
BY DEF PatternKept, LastNear, LastTwoNear, LastThreeNear, PatternWhole, Lag

\* A posted task decides what will be on the screen, a task done does not.
LEMMA TaskFacts ==
  ASSUME tasks \in Seq({"show", "hide", "awaited"})
  PROVE  /\ \A t \in {"show", "hide", "awaited"} :
              tasks' = Append(tasks, t) => tasks' \in Seq({"show", "hide", "awaited"}) /\ (UpNext' <=> t = "show")
         /\ UNCHANGED <<tasks, screen>> => UpNext' = UpNext
         /\ UNCHANGED tasks /\ ~screen' /\ UpNext' => UpNext
<1>1. ASSUME NEW t \in {"show", "hide", "awaited"}, tasks' = Append(tasks, t)
      PROVE  tasks' \in Seq({"show", "hide", "awaited"}) /\ (UpNext' <=> t = "show")
  <2>1. tasks' \in Seq({"show", "hide", "awaited"}) /\ Len(tasks') = Len(tasks) + 1 /\ tasks'[Len(tasks) + 1] = t
    BY <1>1
  <2>2. tasks' # <<>>
    BY <2>1
  <2> QED BY <2>1, <2>2 DEF UpNext
<1>2. UNCHANGED <<tasks, screen>> => UpNext' = UpNext
  BY DEF UpNext
<1>3. UNCHANGED tasks /\ ~screen' /\ UpNext' => UpNext
  BY DEF UpNext
<1> QED BY <1>1, <1>2, <1>3

-----------------------------------------------------------------------------
(* The steps *)

\* A reading fails or does not, within the bound on failures.
LEMMA FaultFacts ==
  ASSUME IdleTypes, Fault \/ UNCHANGED faults
  PROVE  faults' \in 0 .. MaxFaults
<1>1. faults \in 0 .. MaxFaults /\ MaxFaults \in Nat
  BY Constants DEF IdleTypes
<1> QED BY <1>1 DEF Fault

\* It holds when the program starts.
LEMMA InitIdleInv == IdleInit => IdleInv
<1> SUFFICES ASSUME IdleInit PROVE IdleInv
  OBVIOUS
<1>1. IdleTypes
  <2>1. Threshold \in Ages /\ device \in 0 .. Wrap
    BY Constants DEF IdleInit, Ages
  <2>2. Threshold \in 0 .. Threshold /\ 0 \in Ages /\ 0 \in 0 .. Threshold /\ 0 \in 0 .. CountCap
        /\ 0 \in 0 .. MaxInterval /\ 0 \in 0 .. MaxInputs /\ 0 \in 0 .. MaxRestarts /\ 0 \in 0 .. MaxFaults
    BY Constants DEF Ages
  <2>3. Len(<<>>) <= Required /\ <<>> \in Seq(Ages) /\ <<>> \in Seq({"show", "hide", "awaited"})
    BY Constants
  <2> QED BY <2>1, <2>2, <2>3 DEF IdleInit, IdleTypes
<1>2. WindowKept
  BY DEF IdleInit, WindowKept, FreshWindow
<1>3. IdleIsReal
  <2>1. ElapsedTicks(age) \in Nat /\ ElapsedTicks(age) <= Threshold
    BY <1>1, AgeFacts, Constants DEF IdleInit, IdleTypes
  <2>2. Capped(ElapsedTicks(age)) <= quiet
    BY <2>1, Constants DEF IdleInit, Capped
  <2> QED BY <2>2 DEF IdleInit, IdleIsReal, ActsWhenIdle, Acts
<1>4. WarningOwned
  BY DEF IdleInit, WarningOwned, UpNext, Acts
<1>5. PatternKept
  BY DEF IdleInit, PatternKept, LastNear, LastTwoNear, LastThreeNear, PatternWhole
<1> QED BY <1>1, <1>2, <1>3, <1>4, <1>5 DEF IdleInv

\* Time goes on: whoever was idle is idle for longer, and so is the window.
LEMMA ElapseStep == IdleInv /\ Elapse => IdleInv'
<1> SUFFICES ASSUME IdleInv, Elapse PROVE IdleInv'
  OBVIOUS
<1>1. /\ UNCHANGED <<pc, stopping, enhanced, seenInput, count, baseline, logical, warned, triggered,
                     available, idle, tasks, screen, dismissed, raced, inputs, restarts,
                     sampledQuiet, gaps>>
      /\ pc \notin {"observe", "sample", "evaluate"}
      /\ sinceStart' = Capped(sinceStart + 1) /\ sinceWindow' = Capped(sinceWindow + 1)
  BY DEF Elapse, ui, periodic
<1>2. age \in Ages /\ seenAge \in Ages /\ quiet \in 0 .. Threshold /\ sinceStart \in 0 .. Threshold
      /\ sinceWindow \in 0 .. Threshold /\ device \in 0 .. Wrap /\ Threshold \in Nat
  BY Constants DEF IdleInv, IdleTypes
<1>3. (age' = 0 /\ quiet' = 0) \/ (age' = (age + 1) % Wrap /\ quiet' = Capped(quiet + 1))
  BY DEF Elapse
<1>4. age' \in Ages /\ seenAge' \in Ages
  <2>1. 0 \in Ages
    BY Constants DEF Ages
  <2> QED BY <1>2, <1>3, <2>1, AgeFacts DEF Elapse
<1>5. Capped(ElapsedTicks(age')) <= quiet' /\ quiet' \in 0 .. Threshold
  <2>1. CASE age' = 0 /\ quiet' = 0
    <3>1. ElapsedTicks(0) = 0
      BY <1>4, <2>1, AgeFacts, Constants
    <3> QED BY <2>1, <3>1, Constants DEF Capped
  <2>2. CASE age' = (age + 1) % Wrap /\ quiet' = Capped(quiet + 1)
    <3>1. Capped(ElapsedTicks(age)) <= quiet
      BY DEF IdleInv, IdleIsReal
    <3>2. ElapsedTicks(age) = IF age < Wrap \div 2 THEN age ELSE 0
      BY <1>2, AgeFacts
    <3>3. age' = IF age + 1 = Wrap THEN 0 ELSE age + 1
      BY <1>2, <2>2, AgeFacts
    <3>4. ElapsedTicks(age') = IF age' < Wrap \div 2 THEN age' ELSE 0
      BY <1>4, AgeFacts
    <3>5. ElapsedTicks(age') = 0 \/ ElapsedTicks(age') = ElapsedTicks(age) + 1
      BY <1>2, <3>2, <3>3, <3>4, Constants DEF Ages
    <3>6. ElapsedTicks(age) \in Nat
      BY <1>2, <3>2, Constants DEF Ages
    <3> QED BY <1>2, <2>2, <3>1, <3>5, <3>6 DEF Capped
  <2> QED BY <1>3, <2>1, <2>2
<1>6. sinceStart' \in 0 .. Threshold /\ sinceWindow' \in 0 .. Threshold /\ sinceStart' <= sinceWindow'
  BY <1>1, <1>2 DEF IdleInv, WindowKept, Capped
<1>7. device' \in 0 .. Wrap
  BY <1>2, Constants DEF Elapse
<1>8. faults' \in 0 .. MaxFaults /\ due' \in BOOLEAN
  <2>1. Fault \/ UNCHANGED faults
    BY DEF Elapse
  <2> QED BY <2>1, FaultFacts DEF Elapse, IdleInv
<1>9. IdleTypes'
  BY <1>1, <1>4, <1>5, <1>6, <1>7, <1>8 DEF IdleInv, IdleTypes
<1>10. WindowKept'
  BY <1>1, <1>2, <1>6 DEF IdleInv, WindowKept, FreshWindow, Capped
<1>11. IdleIsReal'
  BY <1>1, <1>5 DEF IdleInv, IdleIsReal, ActsWhenIdle, Acts
<1>12. WarningOwned'
  BY <1>1, TaskFacts DEF IdleInv, IdleTypes, WarningOwned, Acts
<1>13. PatternKept'
  BY <1>1, PatternStays DEF IdleInv
<1> QED BY <1>9, <1>10, <1>11, <1>12, <1>13 DEF IdleInv

\* Input of the user makes the time stamp new, or one that lies ahead and says
\* nothing about idleness.
LEMMA UserInputStep == ASSUME NEW ahead \in BOOLEAN PROVE IdleInv /\ UserInput(ahead) => IdleInv'
<1> SUFFICES ASSUME IdleInv, UserInput(ahead) PROVE IdleInv'
  OBVIOUS
<1>1. /\ UNCHANGED <<pc, due, stopping, enhanced, seenInput, seenAge, sinceStart, count, baseline, logical,
                     warned, triggered, available, idle, tasks, screen, dismissed, raced, device,
                     restarts, faults, sampledQuiet, sinceWindow, gaps>>
      /\ inputs < MaxInputs /\ inputs' = inputs + 1
      /\ age' = (IF ahead THEN Wrap - 1 ELSE 0) /\ quiet' = 0
  BY DEF UserInput, ui, monitor, periodic
<1>2. age' \in Ages /\ ElapsedTicks(age') = 0
  <2>1. age' \in Ages
    BY <1>1, Constants DEF Ages
  <2> QED BY <1>1, <2>1, AgeFacts, Constants
<1>3. IdleTypes'
  BY <1>1, <1>2, Constants DEF IdleInv, IdleTypes
<1>4. WindowKept'
  BY <1>1 DEF IdleInv, WindowKept, FreshWindow
<1>5. IdleIsReal'
  <2>1. Capped(0) = 0
    BY Constants DEF Capped
  <2> QED BY <1>1, <1>2, <2>1 DEF IdleInv, IdleIsReal, ActsWhenIdle, Acts
<1>6. WarningOwned'
  BY <1>1, TaskFacts DEF IdleInv, IdleTypes, WarningOwned, Acts
<1>7. PatternKept'
  BY <1>1, PatternStays DEF IdleInv
<1> QED BY <1>3, <1>4, <1>5, <1>6, <1>7 DEF IdleInv

\* The loop takes a tick or the stop, or goes on from the window to the action.
LEMMA LoopMoveStep == IdleInv /\ (Poll \/ BeginAction \/ Leave) => IdleInv'
<1> SUFFICES ASSUME IdleInv, Poll \/ BeginAction \/ Leave PROVE IdleInv'
  OBVIOUS
<1>1. /\ UNCHANGED <<stopping, age, device, inputs, quiet, enhanced, seenInput, seenAge, sinceStart, count,
                     baseline, logical, warned, triggered, available, idle, tasks, screen, dismissed,
                     raced, restarts, faults, sampledQuiet, sinceWindow, gaps>>
      /\ due' \in BOOLEAN
      /\ \/ pc = "wait" /\ pc' = "observe"
         \/ pc = "hiding" /\ pc' = "acting"
         \/ pc = "wait" /\ stopping # "no" /\ pc' = "off"
  BY DEF Poll, BeginAction, Leave, machine, ui, monitor, periodic, IdleInv, IdleTypes
<1>2. IdleTypes'
  BY <1>1 DEF IdleInv, IdleTypes
<1>3. WindowKept'
  BY <1>1 DEF IdleInv, WindowKept, FreshWindow
<1>4. IdleIsReal'
  BY <1>1 DEF IdleInv, IdleIsReal, ActsWhenIdle, Acts
<1>5. WarningOwned'
  BY <1>1, TaskFacts DEF IdleInv, IdleTypes, WarningOwned, Acts
<1>6. PatternKept'
  BY <1>1, PatternStays DEF IdleInv
<1> QED BY <1>2, <1>3, <1>4, <1>5, <1>6 DEF IdleInv

\* The idle time that is sampled lies in the window, and in the standard mode
\* is not longer than the time since any input.
LEMMA SampleStep == ASSUME NEW readable \in BOOLEAN PROVE IdleInv /\ Sample(readable) => IdleInv'
<1> SUFFICES ASSUME IdleInv, Sample(readable) PROVE IdleInv'
  OBVIOUS
<1>1. /\ UNCHANGED <<stopping, due, age, device, inputs, quiet, enhanced, seenInput, seenAge, sinceStart,
                     count, baseline, logical, warned, triggered, tasks, screen, dismissed, raced,
                     restarts, sinceWindow, gaps>>
      /\ pc = "sample" /\ pc' \in {"wait", "evaluate"}
      /\ available' \in {available, FALSE}
      /\ Fault \/ UNCHANGED faults
  BY DEF Sample, machine, ui, monitor, periodic
<1>2. \/ idle' = idle /\ sampledQuiet' = sampledQuiet /\ pc' = "wait"
      \/ idle' = EffectiveIdle /\ sampledQuiet' = quiet /\ pc' = "evaluate"
  BY DEF Sample
<1>3. /\ EffectiveIdle \in 0 .. Threshold /\ EffectiveIdle <= sinceStart
      /\ ~enhanced => EffectiveIdle <= quiet
  <2>1. ElapsedTicks(age) \in Nat
    <3>1. age \in Ages
      BY DEF IdleInv, IdleTypes
    <3>2. age \in Int
      BY <3>1, Constants DEF Ages
    <3> QED BY <3>2, TickFacts, Constants
  <2>2. Capped(ElapsedTicks(age)) \in 0 .. Threshold /\ Capped(ElapsedTicks(age)) <= quiet
    BY <2>1, CappedFacts DEF IdleInv, IdleIsReal
  <2> HIDE DEF Capped, ElapsedTicks
  <2>3. sinceStart \in 0 .. Threshold /\ quiet \in 0 .. Threshold /\ Threshold \in Nat
    BY Constants DEF IdleInv, IdleTypes
  <2> QED BY <2>2, <2>3 DEF EffectiveIdle
<1>4. IdleTypes'
  <2>1. faults' \in 0 .. MaxFaults
    BY <1>1, FaultFacts DEF IdleInv
  <2> QED BY <1>1, <1>2, <1>3, <2>1 DEF IdleInv, IdleTypes
<1>5. WindowKept'
  BY <1>1, <1>2, <1>3 DEF IdleInv, WindowKept, FreshWindow
<1>6. IdleIsReal'
  BY <1>1, <1>2, <1>3 DEF IdleInv, IdleIsReal, ActsWhenIdle, Acts
<1>7. WarningOwned'
  BY <1>1, TaskFacts DEF IdleInv, IdleTypes, WarningOwned, Acts
<1>8. PatternKept'
  BY <1>1, PatternStays DEF IdleInv
<1> QED BY <1>4, <1>5, <1>6, <1>7, <1>8 DEF IdleInv

\* A warning is posted by a session that has warned from then on; the action
\* begins with the Hide that takes it away, after a whole window of idleness.
LEMMA EvaluateStep == IdleInv /\ Evaluate => IdleInv'
<1> SUFFICES ASSUME IdleInv, Evaluate PROVE IdleInv'
  OBVIOUS
<1>1. /\ UNCHANGED <<stopping, due, age, device, inputs, quiet, enhanced, seenInput, seenAge, sinceStart,
                     count, baseline, logical, screen, dismissed, restarts, faults, sinceWindow, gaps>>
      /\ pc = "evaluate" /\ pc' \in {"wait", "hiding"}
      /\ available' = FALSE /\ idle' = 0
      /\ sampledQuiet' = IF pc' = "hiding" THEN sampledQuiet ELSE 0
      /\ Warn \/ Trigger \/ Resume
  BY DEF Evaluate, Warn, Trigger, Resume, machine, periodic
<1>2. idle <= sinceStart /\ sinceStart <= sinceWindow /\ (~enhanced => idle <= sampledQuiet)
      /\ {idle, sinceStart, sinceWindow, sampledQuiet} \subseteq 0 .. Threshold /\ Threshold \in Nat
      /\ tasks \in Seq({"show", "hide", "awaited"})
  BY <1>1, Constants DEF IdleInv, IdleTypes, WindowKept, IdleIsReal
<1>3. pc' = "hiding" => idle >= Threshold
  BY <1>1 DEF Warn, Trigger, Resume
<1>4. warned \in BOOLEAN /\ triggered \in BOOLEAN /\ raced \in BOOLEAN
  BY DEF IdleInv, IdleTypes
<1>5. /\ warned' \in BOOLEAN /\ triggered' \in BOOLEAN /\ raced' \in BOOLEAN
      /\ tasks' = tasks \/ \E t \in {"show", "hide", "awaited"} : tasks' = Append(tasks, t)
      /\ tasks' = tasks => pc' = "wait" /\ (warned => warned') /\ (raced' <=> raced)
      /\ tasks' = Append(tasks, "show") => pc' = "wait" /\ warned' /\ (raced' <=> stopping # "no")
  <2>0. /\ \A t \in {"show", "hide", "awaited"} : Append(tasks, t) # tasks
        /\ \A t \in {"hide", "awaited"} : Append(tasks, "show") # Append(tasks, t)
    <3>1. ASSUME NEW t \in {"show", "hide", "awaited"}
          PROVE  Len(Append(tasks, t)) = Len(tasks) + 1 /\ Append(tasks, t)[Len(tasks) + 1] = t
      BY <1>2
    <3> QED BY <1>2, <3>1
  <2>1. CASE Warn
    BY <1>4, <2>0, <2>1 DEF Warn, PostTask
  <2>2. CASE Trigger
    BY <1>4, <2>0, <2>2 DEF Trigger, PostTask
  <2>3. CASE Resume
    BY <1>4, <2>0, <2>3 DEF Resume, PostTask
  <2> QED BY <1>1, <2>1, <2>2, <2>3
<1>10. IdleTypes'
  <2>3. tasks' \in Seq({"show", "hide", "awaited"})
    BY <1>2, <1>5, TaskFacts
  <2>4. 0 \in 0 .. Threshold /\ sampledQuiet' \in 0 .. Threshold
    BY <1>1, <1>2
  <2>5. {warned', triggered', raced'} \subseteq BOOLEAN
    BY <1>5
  <2> QED BY <1>1, <2>3, <2>4, <2>5 DEF IdleInv, IdleTypes
<1>6. WindowKept'
  BY <1>1, <1>2, <1>3 DEF IdleInv, WindowKept, FreshWindow
<1>7. IdleIsReal'
  BY <1>1, <1>2, <1>3 DEF IdleInv, IdleIsReal, ActsWhenIdle, Acts
<1>8. WarningOwned'
  <2>1. CASE tasks' = tasks
    <3>1. UpNext' <=> UpNext
      BY <1>1, <1>2, <2>1, TaskFacts
    <3> QED BY <1>1, <1>5, <2>1, <3>1 DEF IdleInv, WarningOwned, Acts
  <2>2. CASE tasks' = Append(tasks, "show")
    BY <1>1, <1>5, <2>2 DEF IdleInv, WarningOwned, Acts
  <2>3. ASSUME NEW t \in {"hide", "awaited"}, tasks' = Append(tasks, t) PROVE WarningOwned'
    <3>1. ~UpNext'
      BY <1>2, <2>3, TaskFacts
    <3> QED BY <1>1, <3>1 DEF IdleInv, WarningOwned, Acts
  <2> QED BY <1>5, <2>1, <2>2, <2>3
<1>9. PatternKept'
  BY <1>1, PatternStays DEF IdleInv
<1> QED BY <1>10, <1>6, <1>7, <1>8, <1>9 DEF IdleInv

\* A fresh window begins after the action.
LEMMA EndActionStep == IdleInv /\ EndAction => IdleInv'
<1> SUFFICES ASSUME IdleInv, EndAction PROVE IdleInv'
  OBVIOUS
<1>1. /\ UNCHANGED <<stopping, due, age, device, inputs, quiet, enhanced, seenInput, seenAge, count,
                     baseline, available, idle, tasks, screen, dismissed, raced, restarts, faults, gaps>>
      /\ pc = "acting" /\ pc' = "wait"
      /\ sinceStart' = 0 /\ sinceWindow' = 0 /\ sampledQuiet' = 0
      /\ warned' = FALSE /\ triggered' = FALSE /\ logical' = FALSE
  BY DEF EndAction, ResetSession, machine, ui
<1>2. 0 \in 0 .. Threshold
  BY Constants
<1>3. IdleTypes'
  BY <1>1, <1>2 DEF IdleInv, IdleTypes
<1>4. WindowKept'
  BY <1>1 DEF IdleInv, WindowKept, FreshWindow
<1>5. IdleIsReal'
  BY <1>1 DEF IdleInv, IdleIsReal, ActsWhenIdle, Acts
<1>6. WarningOwned'
  BY <1>1, TaskFacts DEF IdleInv, IdleTypes, WarningOwned, Acts
<1>7. PatternKept'
  BY <1>1, PatternStays DEF IdleInv
<1> QED BY <1>3, <1>4, <1>5, <1>6, <1>7 DEF IdleInv

\* A stop posts the Hide before the monitor is told.
LEMMA StopMonitorStep ==
  ASSUME NEW how \in {"stop", "restart"} PROVE IdleInv /\ Stop(how) => IdleInv'
<1> SUFFICES ASSUME IdleInv, Stop(how) PROVE IdleInv'
  OBVIOUS
<1>1. /\ UNCHANGED <<pc, due, age, device, inputs, quiet, enhanced, seenInput, seenAge, sinceStart, count,
                     baseline, logical, warned, triggered, available, idle, screen, raced, faults,
                     sampledQuiet, sinceWindow, gaps>>
      /\ pc # "off" /\ stopping' = how /\ dismissed' = FALSE
      /\ tasks' = Append(tasks, "hide")
      /\ restarts' \in 0 .. MaxRestarts
  BY Constants DEF Stop, PostTask, machine, monitor, periodic, IdleInv, IdleTypes
<1>2. tasks' \in Seq({"show", "hide", "awaited"}) /\ ~UpNext'
  BY <1>1, TaskFacts DEF IdleInv, IdleTypes
<1>3. IdleTypes'
  BY <1>1, <1>2 DEF IdleInv, IdleTypes
<1>4. WindowKept'
  BY <1>1 DEF IdleInv, WindowKept, FreshWindow
<1>5. IdleIsReal'
  BY <1>1 DEF IdleInv, IdleIsReal, ActsWhenIdle, Acts
<1>6. WarningOwned'
  BY <1>1, <1>2 DEF IdleInv, WarningOwned, Acts
<1>7. PatternKept'
  BY <1>1, PatternStays DEF IdleInv
<1> QED BY <1>3, <1>4, <1>5, <1>6, <1>7 DEF IdleInv

\* A new monitor starts when the Hide of the stop is the last word on the
\* window, or was overtaken.
LEMMA StartMonitorStep == IdleInv /\ Start => IdleInv'
<1> SUFFICES ASSUME IdleInv, Start PROVE IdleInv'
  OBVIOUS
<1>1. /\ UNCHANGED <<enhanced, age, device, inputs, quiet, available, idle, tasks, screen, dismissed,
                     raced, restarts, faults, sampledQuiet>>
      /\ pc = "off" /\ stopping = "restart" /\ stopping' = "no" /\ pc' = "wait" /\ due' = FALSE
      /\ seenInput' = FALSE /\ seenAge' = 0 /\ sinceStart' = 0 /\ sinceWindow' = 0
      /\ count' = 0 /\ baseline' = 0 /\ logical' = FALSE /\ warned' = FALSE /\ triggered' = FALSE
      /\ gaps' = <<>>
  BY DEF Start, Fresh, ui
<1>2. IdleTypes'
  <2>1. 0 \in Ages /\ 0 \in 0 .. Threshold /\ 0 \in 0 .. CountCap /\ 0 \in 0 .. MaxInterval
    BY Constants DEF Ages
  <2>2. Len(<<>>) <= Required /\ <<>> \in Seq(Ages)
    BY Constants
  <2> QED BY <1>1, <2>1, <2>2 DEF IdleInv, IdleTypes
<1>3. WindowKept'
  BY <1>1 DEF IdleInv, WindowKept, FreshWindow
<1>4. IdleIsReal'
  BY <1>1 DEF IdleInv, IdleIsReal, ActsWhenIdle, Acts
<1>5. WarningOwned'
  BY <1>1, TaskFacts DEF IdleInv, IdleTypes, WarningOwned, Acts
<1>6. PatternKept'
  BY <1>1 DEF PatternKept, LastNear, LastTwoNear, LastThreeNear, PatternWhole
<1> QED BY <1>2, <1>3, <1>4, <1>5, <1>6 DEF IdleInv

\* The UI thread does what was posted first: what will be up does not change,
\* but for a window that does not come about.
LEMMA UITaskStep == IdleInv /\ UITask => IdleInv'
<1> SUFFICES ASSUME IdleInv, UITask PROVE IdleInv'
  OBVIOUS
<1>1. /\ UNCHANGED <<pc, stopping, due, age, device, inputs, quiet, enhanced, seenInput, seenAge, sinceStart,
                     count, baseline, logical, warned, triggered, available, idle, dismissed, raced,
                     restarts, sampledQuiet, sinceWindow, gaps>>
      /\ tasks # <<>> /\ tasks' = Tail(tasks)
      /\ screen' \in BOOLEAN /\ (screen' => Head(tasks) = "show")
      /\ Fault \/ UNCHANGED faults
  BY DEF UITask, Fault, machine, monitor, periodic
<1>2. tasks' \in Seq({"show", "hide", "awaited"}) /\ (UpNext' => UpNext)
  <2>1. tasks \in Seq({"show", "hide", "awaited"}) /\ Len(tasks) \in Nat /\ Len(tasks) >= 1 /\ Head(tasks) = tasks[1]
    BY <1>1 DEF IdleInv, IdleTypes
  <2>2. tasks' \in Seq({"show", "hide", "awaited"}) /\ Len(tasks') = Len(tasks) - 1
        /\ \A i \in 1 .. Len(tasks') : tasks'[i] = tasks[i + 1]
    BY <1>1, <2>1
  <2>3. CASE Len(tasks) = 1
    <3>1. tasks' = <<>>
      BY <2>2, <2>3
    <3> QED BY <1>1, <2>1, <2>2, <2>3, <3>1 DEF UpNext
  <2>4. CASE Len(tasks) # 1
    <3>1. tasks' # <<>> /\ tasks'[Len(tasks')] = tasks[Len(tasks)]
      BY <2>1, <2>2, <2>4
    <3> QED BY <1>1, <2>2, <3>1 DEF UpNext
  <2> QED BY <2>3, <2>4
<1>3. IdleTypes'
  <2>1. faults' \in 0 .. MaxFaults
    BY <1>1, FaultFacts DEF IdleInv
  <2> QED BY <1>1, <1>2, <2>1 DEF IdleInv, IdleTypes
<1>4. WindowKept'
  BY <1>1 DEF IdleInv, WindowKept, FreshWindow
<1>5. IdleIsReal'
  BY <1>1 DEF IdleInv, IdleIsReal, ActsWhenIdle, Acts
<1>6. WarningOwned'
  BY <1>1, <1>2 DEF IdleInv, WarningOwned, Acts
<1>7. PatternKept'
  BY <1>1, PatternStays DEF IdleInv
<1> QED BY <1>3, <1>4, <1>5, <1>6, <1>7 DEF IdleInv

\* The user closes the window, which is input as well.
LEMMA DismissStep == IdleInv /\ Dismiss => IdleInv'
<1> SUFFICES ASSUME IdleInv, Dismiss PROVE IdleInv'
  OBVIOUS
<1>1. /\ UNCHANGED <<pc, stopping, due, enhanced, seenInput, seenAge, sinceStart, count, baseline, logical,
                     warned, triggered, available, idle, tasks, raced, device, restarts, faults,
                     sampledQuiet, sinceWindow, gaps>>
      /\ screen' = FALSE /\ dismissed' \in BOOLEAN /\ (dismissed' <=> stopping = "no")
      /\ inputs < MaxInputs /\ inputs' = inputs + 1 /\ age' = 0 /\ quiet' = 0
  BY DEF Dismiss, monitor, periodic
<1>2. 0 \in Ages /\ ElapsedTicks(0) = 0 /\ Capped(0) = 0
  <2>1. 0 \in Ages
    BY Constants DEF Ages
  <2> QED BY <2>1, AgeFacts, Constants DEF Capped
<1>3. IdleTypes'
  <2>1. inputs' \in 0 .. MaxInputs /\ 0 \in 0 .. Threshold
    <3>1. inputs \in 0 .. MaxInputs /\ MaxInputs \in Nat /\ Threshold \in Nat
      BY Constants DEF IdleInv, IdleTypes
    <3> QED BY <1>1, <3>1
  <2>2. {screen', dismissed', raced'} \subseteq BOOLEAN
    BY <1>1 DEF IdleInv, IdleTypes
  <2> QED BY <1>1, <1>2, <2>1, <2>2 DEF IdleInv, IdleTypes
<1>4. WindowKept'
  BY <1>1 DEF IdleInv, WindowKept, FreshWindow
<1>5. IdleIsReal'
  BY <1>1, <1>2 DEF IdleInv, IdleIsReal, ActsWhenIdle, Acts
<1>6. WarningOwned'
  BY <1>1, TaskFacts DEF IdleInv, IdleTypes, WarningOwned, Acts
<1>7. PatternKept'
  BY <1>1, PatternStays DEF IdleInv
<1> QED BY <1>3, <1>4, <1>5, <1>6, <1>7 DEF IdleInv

-----------------------------------------------------------------------------
(* The pattern *)

\* The intervals remembered after one more
GapsWith(interval) ==
    IF Len(gaps) = Required THEN Append(Tail(gaps), interval) ELSE Append(gaps, interval)

\* The new interval is the last one, and those before it move up.
LEMMA GapFacts ==
  ASSUME gaps \in Seq(Ages), Len(gaps) <= Required, NEW x \in Ages
  PROVE  LET g == GapsWith(x)
             n == Len(gaps)
             m == Len(g)
         IN  /\ g \in Seq(Ages) /\ m \in Nat /\ m >= 1 /\ m <= Required
             /\ g[m] = x
             /\ Required >= 2 /\ n >= 1 => m >= 2 /\ g[m - 1] = gaps[n]
             /\ Required = 3 /\ n >= 2 => m = 3 /\ g[1] = gaps[n - 1] /\ g[2] = gaps[n]
<1> DEFINE n == Len(gaps)
           g == GapsWith(x)
<1>1. n \in Nat /\ n <= Required /\ Required \in {1, 2, 3}
  BY Constants
<1>2. CASE n = Required
  <2> DEFINE t == Tail(gaps)
  <2>1. t \in Seq(Ages) /\ Len(t) = n - 1 /\ \A i \in 1 .. n - 1 : t[i] = gaps[i + 1]
    BY <1>1, <1>2
  <2>2. g = Append(t, x)
    BY <1>2 DEF GapsWith
  <2> HIDE DEF t, g
  <2>3. g \in Seq(Ages) /\ Len(g) = n /\ g[n] = x /\ \A i \in 1 .. n - 1 : g[i] = t[i]
    BY <2>1, <2>2, <1>1, <1>2
  <2>4. \A i \in 1 .. n - 1 : g[i] = gaps[i + 1]
    BY <2>1, <2>3
  <2> HIDE DEF n
  <2>5. Required >= 2 => n >= 2 /\ g[n - 1] = gaps[n]
    BY <1>1, <1>2, <2>4
  <2>6. Required = 3 => n = 3 /\ g[1] = gaps[n - 1] /\ g[2] = gaps[n]
    BY <1>1, <1>2, <2>4
  <2> QED BY <1>1, <1>2, <2>3, <2>5, <2>6 DEF g, n
<1>3. CASE n # Required
  <2>1. g = Append(gaps, x)
    BY <1>3 DEF GapsWith
  <2> HIDE DEF g
  <2>2. g \in Seq(Ages) /\ Len(g) = n + 1 /\ g[n + 1] = x /\ \A i \in 1 .. n : g[i] = gaps[i]
    BY <2>1
  <2> HIDE DEF n
  <2>3. n < Required
    BY <1>1, <1>3
  <2>4. n >= 1 => g[n] = gaps[n] /\ (n + 1) - 1 = n
    BY <1>1, <2>2
  <2>5. Required = 3 /\ n >= 2 => n = 2 /\ g[1] = gaps[n - 1] /\ g[2] = gaps[n]
    BY <1>1, <2>2, <2>3
  <2> QED BY <1>1, <2>2, <2>3, <2>4, <2>5 DEF g, n
<1> QED BY <1>2, <1>3

\* One more interval: what is passed over as periodic completes a pattern.
LEMMA PatternStep ==
  ASSUME IdleTypes, PatternKept, NEW x \in Ages, UNCHANGED enhanced,
         count' = Classify(x).count, baseline' = Classify(x).baseline,
         gaps' = (IF ~enhanced THEN gaps ELSE GapsWith(x)),
         logical' => Classify(x).ignored
  PROVE  /\ PatternKept'
         /\ count' \in 0 .. CountCap /\ baseline' \in 0 .. MaxInterval
         /\ gaps' \in Seq(Ages) /\ Len(gaps') <= Required
<1>0. /\ count \in Nat /\ count <= CountCap /\ baseline \in Nat /\ baseline <= MaxInterval
      /\ x \in Nat /\ gaps \in Seq(Ages) /\ Len(gaps) <= Required /\ Len(gaps) \in Nat
      /\ \A i \in 1 .. Len(gaps) : gaps[i] \in Nat
  <2>1. /\ count \in Nat /\ count <= CountCap /\ baseline \in Nat /\ baseline <= MaxInterval
        /\ gaps \in Seq(Ages) /\ Len(gaps) <= Required
    BY Constants DEF IdleTypes
  <2>2. \A a \in Ages : a \in Nat
    BY Constants DEF Ages
  <2>3. Len(gaps) \in Nat /\ \A i \in 1 .. Len(gaps) : gaps[i] \in Ages
    BY <2>1
  <2> QED BY <2>1, <2>2, <2>3
<1>1. CASE ~enhanced
  <2>1. count' = 0 /\ baseline' = 0 /\ ~logical' /\ gaps' = gaps
    BY <1>1 DEF Classify
  <2>2. PatternKept'
    BY <2>1 DEF PatternKept, LastNear, LastTwoNear, LastThreeNear, PatternWhole
  <2>3. 0 \in 0 .. CountCap /\ 0 \in 0 .. MaxInterval
    BY Constants
  <2> QED BY <1>0, <2>1, <2>2, <2>3
<1> DEFINE g == GapsWith(x)
           m == Len(g)
           n == Len(gaps)
<1>2. /\ g \in Seq(Ages) /\ m \in Nat /\ m >= 1 /\ m <= Required
      /\ g[m] = x
      /\ Required >= 2 /\ n >= 1 => m >= 2 /\ g[m - 1] = gaps[n]
      /\ Required = 3 /\ n >= 2 => m = 3 /\ g[1] = gaps[n - 1] /\ g[2] = gaps[n]
  BY <1>0, GapFacts
<1>3. CASE enhanced /\ (x < MinInterval \/ x > MaxInterval)
  <2>1. count' = 0 /\ baseline' = 0 /\ ~logical' /\ gaps' = g
    BY <1>3 DEF Classify
  <2>2. PatternKept'
    BY <2>1 DEF PatternKept, LastNear, LastTwoNear, LastThreeNear, PatternWhole
  <2>3. 0 \in 0 .. CountCap /\ 0 \in 0 .. MaxInterval
    BY Constants
  <2> HIDE DEF g
  <2> QED BY <1>2, <2>1, <2>2, <2>3
<1>4. CASE enhanced /\ InWindow(x) /\ (count = 0 \/ Distance(x, baseline) > Tolerance)
  <2>1. count' = 1 /\ baseline' = x /\ ~logical' /\ gaps' = g
    BY <1>0, <1>4, Constants DEF Classify, InWindow
  <2> HIDE DEF g
  <2>2. LastNear'
    <3>1. Tolerance \div 2 \in Nat /\ Tolerance \div 2 <= Tolerance
      BY Constants, LagShrinks
    <3>2. Lag' = Tolerance \div 2
      BY <2>1 DEF Lag
    <3>3. x - baseline' <= Tolerance - Lag' /\ baseline' - x <= Tolerance - Lag'
      BY <1>0, <2>1, <3>1, <3>2, Constants
    <3> QED BY <1>2, <1>4, <2>1, <3>3 DEF LastNear, InWindow
  <2>3. LastTwoNear' /\ LastThreeNear' /\ PatternWhole'
    BY <2>1 DEF LastTwoNear, LastThreeNear, PatternWhole
  <2>4. 1 \in 0 .. CountCap /\ x \in 0 .. MaxInterval
    BY <1>0, <1>4, Constants DEF InWindow
  <2> QED BY <1>2, <2>1, <2>2, <2>3, <2>4 DEF PatternKept
<1>5. CASE enhanced /\ InWindow(x) /\ count # 0 /\ Distance(x, baseline) <= Tolerance
  <2> DEFINE q == (baseline * count + x) \div (count + 1)
             f == Tolerance \div (count + 1)
             c == IF count = CountCap THEN count ELSE count + 1
  <2>1. count' = c /\ baseline' = q /\ gaps' = g /\ (logical' => count + 1 >= Required)
    <3>1. enhanced /\ ~(x < MinInterval \/ x > MaxInterval)
          /\ ~(count = 0 \/ Distance(x, baseline) > Tolerance)
      <4>1. Distance(x, baseline) \in Nat /\ Tolerance \in Nat
        BY <1>0, Constants DEF Distance
      <4>2. ~(x < MinInterval \/ x > MaxInterval)
        BY <1>0, <1>5, Constants DEF InWindow
      <4> QED BY <1>5, <4>1, <4>2
    <3>2. Classify(x) = [count |-> c, baseline |-> q, ignored |-> count + 1 >= Required]
      BY <3>1 DEF Classify
    <3> DEFINE whole == count + 1 >= Required
    <3>3. Classify(x) = [count |-> c, baseline |-> q, ignored |-> whole]
      BY <3>2
    <3> HIDE DEF q, c, g, whole
    <3>4. Classify(x).count = c /\ Classify(x).baseline = q
      BY <3>3
    <3>5. Classify(x).ignored = whole
      BY <3>3
    <3>6. logical' => whole
      BY <3>5
    <3>7. count' = c /\ baseline' = q /\ gaps' = g
      BY <1>5, <3>4 DEF g
    <3> QED BY <3>6, <3>7 DEF whole
  <2>2. count >= 1 /\ x - baseline <= Tolerance /\ baseline - x <= Tolerance
        /\ x <= MaxInterval /\ x >= MinInterval /\ Tolerance \in Nat /\ MaxInterval \in Nat
    BY <1>0, <1>5, Constants DEF InWindow, Distance
  <2>3. /\ q \in Nat /\ f \in Nat
        /\ q - baseline <= f /\ baseline - q <= f + 1
        /\ x - q <= Tolerance - f /\ q - x <= Tolerance - f
        /\ Tolerance = 0 => q = baseline
        /\ \A u \in Nat : baseline <= u /\ x <= u => q <= u
    BY <1>0, <2>2, AverageStep
  <2>4. c \in Nat /\ c >= 1 /\ c <= CountCap /\ count <= c /\ (c >= 3 => count >= 2)
        /\ (count + 1 >= Required => c >= Required)
    BY <1>0, <2>2, Constants
  <2>5. Lag = f /\ f <= Tolerance
    <3>1. count + 1 \in Nat /\ count + 1 >= 1 /\ count + 1 <= count + 1
      BY <1>0
    <3>2. f <= Tolerance
      BY <2>2, <3>1, LagShrinks
    <3> QED BY <3>2 DEF Lag
  <2>6. Lag' = Tolerance \div (c + 1) /\ Lag' \in Nat /\ Lag' <= f
    <3>1. Lag' = Tolerance \div (c + 1)
      BY <2>1 DEF Lag
    <3> HIDE DEF c
    <3>2. count + 1 \in Nat /\ c + 1 \in Nat /\ count + 1 >= 1 /\ count + 1 <= c + 1
      BY <1>0, <2>4
    <3>3. Tolerance \div (c + 1) \in Nat /\ Tolerance \div (c + 1) <= f
      BY <2>2, <3>2, LagShrinks
    <3> QED BY <3>1, <3>3
  <2> HIDE DEF g, q, f, c
  <2>7. LastNear'
    <3>1. x - baseline' <= Tolerance - Lag' /\ baseline' - x <= Tolerance - Lag'
      BY <1>0, <2>1, <2>2, <2>3, <2>6
    <3> QED BY <1>2, <1>5, <2>1, <3>1 DEF LastNear, InWindow
  <2>8. /\ n >= 1 /\ InWindow(gaps[n]) /\ gaps[n] \in Nat
        /\ gaps[n] - baseline <= Tolerance - f
        /\ baseline - gaps[n] <= Tolerance - f
    <3>1. n >= 1 /\ InWindow(gaps[n]) /\ gaps[n] - baseline <= Tolerance - f /\ baseline - gaps[n] <= Tolerance - f
      BY <2>2, <2>5 DEF PatternKept, LastNear
    <3> QED BY <1>0, <3>1
  <2>9. LastTwoNear'
    <3> SUFFICES ASSUME Required >= 2 PROVE LastTwoNear'
      BY DEF LastTwoNear
    <3> DEFINE p == gaps[n]
    <3>1. m >= 2 /\ g[m - 1] = p /\ g[m] = x
      BY <1>2, <2>8
    <3>2. p \in Nat /\ InWindow(p) /\ p - baseline <= Tolerance - f /\ baseline - p <= Tolerance - f
      BY <2>8
    <3> HIDE DEF p
    <3>3. p - q <= Above /\ q - p <= Tolerance
      BY <1>0, <2>2, <2>3, <3>2 DEF Above
    <3>4. Distance(p, x) <= Spread
      BY <1>0, <2>2, <2>3, <3>2 DEF Distance, Spread
    <3> QED BY <2>1, <3>1, <3>2, <3>3, <3>4 DEF LastTwoNear, InWindow, Above, Spread, Distance
  <2>10. LastThreeNear'
    <3> SUFFICES ASSUME c >= 3, Required = 3 PROVE LastThreeNear'
      BY <2>1 DEF LastThreeNear
    <3> DEFINE p == gaps[n]
               o == gaps[n - 1]
    <3>1. /\ n >= 2 /\ InWindow(o) /\ o - baseline <= Above /\ baseline - o <= Tolerance
          /\ Distance(o, p) <= Spread
      BY <2>4 DEF PatternKept, LastTwoNear
    <3>2. o \in Nat
      BY <1>0, <3>1
    <3>3. m = 3 /\ g[1] = o /\ g[2] = p /\ g[3] = x
      BY <1>2, <3>1
    <3> HIDE DEF o, p
    <3>4. Distance(o, x) <= Spread
      BY <1>0, <2>2, <3>1, <3>2 DEF Distance, Spread, Above
    <3> QED BY <2>1, <3>1, <3>3, <3>4 DEF LastThreeNear, InWindow, Spread, Distance
  <2>11. PatternWhole'
    BY <1>5, <2>1, <2>4 DEF PatternWhole
  <2>12. c \in 0 .. CountCap /\ q \in 0 .. MaxInterval
    BY <1>0, <2>2, <2>3, <2>4
  <2> QED BY <1>2, <2>1, <2>7, <2>9, <2>10, <2>11, <2>12 DEF PatternKept
<1>6. enhanced \in BOOLEAN /\ Distance(x, baseline) \in Nat
  BY <1>0 DEF IdleTypes, Distance
<1> QED
  <2>1. InWindow(x) \/ x < MinInterval \/ x > MaxInterval
    BY <1>0, Constants DEF InWindow
  <2>2. Distance(x, baseline) > Tolerance \/ Distance(x, baseline) <= Tolerance
    BY <1>6, Constants
  <2> QED BY <1>1, <1>3, <1>4, <1>5, <2>1, <2>2

\* A new time stamp is judged; one that ends the session takes its warning
\* away with it.
LEMMA ObserveInputStep == ASSUME NEW readable \in BOOLEAN PROVE IdleInv /\ ObserveInput(readable) => IdleInv'
<1> SUFFICES ASSUME IdleInv, ObserveInput(readable) PROVE IdleInv'
  OBVIOUS
<1>1. /\ UNCHANGED <<stopping, due, enhanced, age, device, inputs, quiet, idle, screen, dismissed, raced,
                     restarts, sampledQuiet, sinceWindow>>
      /\ pc = "observe" /\ pc' \in {"sample", "wait"}
      /\ available' \in BOOLEAN
      /\ (seenInput' = TRUE /\ seenAge' = age) \/ UNCHANGED <<seenInput, seenAge>>
      /\ Fault \/ UNCHANGED faults
  BY DEF ObserveInput, ObserveSame, ObserveChange
<1>2. /\ sinceStart' \in {sinceStart, 0}
      /\ PatternKept'
      /\ count' \in 0 .. CountCap /\ baseline' \in 0 .. MaxInterval
      /\ gaps' \in Seq(Ages) /\ Len(gaps') <= Required
      /\ logical' \in BOOLEAN /\ warned' \in BOOLEAN /\ triggered' \in BOOLEAN
      /\ \/ tasks' = tasks /\ (warned' <=> warned)
         \/ tasks' = Append(tasks, "hide")
  <2>0. logical \in BOOLEAN /\ warned \in BOOLEAN /\ triggered \in BOOLEAN
    BY DEF IdleInv, IdleTypes
  <2>1. CASE ObserveSame(readable)
    <3>1. UNCHANGED <<sinceStart, count, baseline, logical, warned, triggered, tasks, gaps>>
      BY <2>1 DEF ObserveSame, periodic
    <3>2. PatternKept'
      BY <1>1, <3>1, PatternStays DEF IdleInv
    <3> QED BY <2>0, <3>1, <3>2 DEF IdleInv, IdleTypes
  <2>2. CASE ObserveChange
    <3> DEFINE x == ElapsedTicks(seenAge - age)
    <3>1. x \in Ages
      <4>1. seenAge \in Int /\ age \in Int
        BY Constants DEF IdleInv, IdleTypes, Ages
      <4>2. seenAge - age \in Int
        BY <4>1
      <4> QED BY <4>2, TickFacts
    <3>2. /\ count' = Classify(x).count /\ baseline' = Classify(x).baseline
          /\ gaps' = (IF ~enhanced THEN gaps ELSE GapsWith(x))
      BY <2>2 DEF ObserveChange, GapsWith
    <3>3. \/ Classify(x).ignored /\ logical' = TRUE /\ UNCHANGED <<sinceStart, warned, triggered, tasks>>
          \/ /\ ~Classify(x).ignored
             /\ sinceStart' = 0 /\ warned' = FALSE /\ triggered' = FALSE /\ logical' = FALSE
             /\ IF warned THEN tasks' = Append(tasks, "hide") ELSE tasks' = tasks
      BY <2>2 DEF ObserveChange, ResetSession, PostTask
    <3> HIDE DEF x
    <3>4. /\ PatternKept'
          /\ count' \in 0 .. CountCap /\ baseline' \in 0 .. MaxInterval
          /\ gaps' \in Seq(Ages) /\ Len(gaps') <= Required
      <4>1. UNCHANGED enhanced
        BY <1>1
      <4>2. logical' => Classify(x).ignored
        BY <3>3
      <4>3. IdleTypes /\ PatternKept
        BY DEF IdleInv
      <4> QED BY <3>1, <3>2, <4>1, <4>2, <4>3, PatternStep
    <3>5. logical' \in BOOLEAN /\ warned' \in BOOLEAN /\ triggered' \in BOOLEAN
      BY <2>0, <3>3
    <3>6. sinceStart' \in {sinceStart, 0}
          /\ ((tasks' = tasks /\ (warned' <=> warned)) \/ tasks' = Append(tasks, "hide"))
      BY <2>0, <3>3
    <3> QED BY <3>4, <3>5, <3>6
  <2> QED BY <2>1, <2>2 DEF ObserveInput
<1>3. sinceStart \in 0 .. Threshold /\ sinceWindow \in 0 .. Threshold /\ Threshold \in Nat
      /\ tasks \in Seq({"show", "hide", "awaited"})
  BY Constants DEF IdleInv, IdleTypes
<1>4. IdleTypes'
  <2>1. faults' \in 0 .. MaxFaults
    BY <1>1, FaultFacts DEF IdleInv
  <2>2. tasks' \in Seq({"show", "hide", "awaited"})
    BY <1>2, <1>3, TaskFacts
  <2>3. sinceStart' \in 0 .. Threshold
    BY <1>2, <1>3
  <2>4. /\ count' \in 0 .. CountCap /\ baseline' \in 0 .. MaxInterval
        /\ gaps' \in Seq(Ages) /\ Len(gaps') <= Required
        /\ {logical', warned', triggered', available'} \subseteq BOOLEAN
    BY <1>1, <1>2
  <2>5. seenInput' \in BOOLEAN /\ seenAge' \in Ages
    BY <1>1 DEF IdleInv, IdleTypes
  <2> QED BY <1>1, <2>1, <2>2, <2>3, <2>4, <2>5 DEF IdleInv, IdleTypes
<1>5. WindowKept'
  BY <1>1, <1>2, <1>3 DEF IdleInv, WindowKept, FreshWindow
<1>6. IdleIsReal'
  BY <1>1 DEF IdleInv, IdleIsReal, ActsWhenIdle, Acts
<1>7. WarningOwned'
  <2>1. CASE tasks' = tasks /\ (warned' <=> warned)
    <3>1. UpNext' <=> UpNext
      BY <1>1, <1>3, <2>1, TaskFacts
    <3> QED BY <1>1, <2>1, <3>1 DEF IdleInv, WarningOwned, Acts
  <2>2. CASE tasks' = Append(tasks, "hide")
    <3>1. ~UpNext'
      BY <1>3, <2>2, TaskFacts
    <3> QED BY <1>1, <3>1 DEF IdleInv, WarningOwned, Acts
  <2> QED BY <1>2, <2>1, <2>2
<1> QED BY <1>2, <1>4, <1>5, <1>6, <1>7 DEF IdleInv

\* Every step keeps the invariant.
LEMMA NextIdleInv == IdleInv /\ [IdleNext]_idleVars => IdleInv'
<1> SUFFICES ASSUME IdleInv, [IdleNext]_idleVars PROVE IdleInv'
  OBVIOUS
<1>1. CASE Elapse
  BY <1>1, ElapseStep
<1>2. CASE \E ahead \in BOOLEAN : UserInput(ahead)
  BY <1>2, UserInputStep
<1>3. CASE Poll \/ BeginAction \/ Leave
  BY <1>3, LoopMoveStep
<1>4. CASE \E readable \in BOOLEAN : ObserveInput(readable) \/ Sample(readable)
  BY <1>4, ObserveInputStep, SampleStep
<1>5. CASE Evaluate
  BY <1>5, EvaluateStep
<1>6. CASE EndAction
  BY <1>6, EndActionStep
<1>7. CASE \E how \in {"stop", "restart"} : Stop(how)
  BY <1>7, StopMonitorStep
<1>8. CASE Start
  BY <1>8, StartMonitorStep
<1>9. CASE UITask
  BY <1>9, UITaskStep
<1>10. CASE Dismiss
  BY <1>10, DismissStep
<1>11. CASE UNCHANGED idleVars
  <2>1. UNCHANGED <<pc, stopping, due, age, device, inputs, quiet, enhanced, seenInput, seenAge, sinceStart,
                    count, baseline, logical, warned, triggered, available, idle, tasks, screen,
                    dismissed, raced, restarts, faults, sampledQuiet, sinceWindow, gaps>>
    BY <1>11 DEF idleVars, machine, monitor, ui, periodic
  <2>2. IdleTypes'
    BY <2>1 DEF IdleInv, IdleTypes
  <2>3. WindowKept'
    BY <2>1 DEF IdleInv, WindowKept, FreshWindow
  <2>4. IdleIsReal'
    BY <2>1 DEF IdleInv, IdleIsReal, ActsWhenIdle, Acts
  <2>5. WarningOwned'
    BY <2>1, TaskFacts DEF IdleInv, IdleTypes, WarningOwned, Acts
  <2>6. PatternKept'
    BY <2>1, PatternStays DEF IdleInv
  <2> QED BY <2>2, <2>3, <2>4, <2>5, <2>6 DEF IdleInv
<1> QED BY <1>1, <1>2, <1>3, <1>4, <1>5, <1>6, <1>7, <1>8, <1>9, <1>10, <1>11 DEF IdleNext, Loop

\* The invariant holds in every reachable state, for any instance.
THEOREM IdleInvariance == IdleSpec => []IdleInv
<1>1. IdleInit => IdleInv
  BY InitIdleInv
<1>2. IdleInv /\ [IdleNext]_idleVars => IdleInv'
  BY NextIdleInv
<1> QED BY <1>1, <1>2, PTL DEF IdleSpec

-----------------------------------------------------------------------------
(* The properties *)

\* A pattern that is whole is one the monitor may pass over.
LEMMA WholeIsPeriodic == IdleTypes /\ PatternKept => IgnoredIsPeriodic
<1> SUFFICES ASSUME IdleTypes, PatternKept, logical
             PROVE  /\ enhanced /\ Len(gaps) = Required
                    /\ \A i, j \in DOMAIN gaps :
                          /\ gaps[i] \in MinInterval .. MaxInterval
                          /\ Distance(gaps[i], gaps[j]) <= Spread
  BY DEF IgnoredIsPeriodic
<1> DEFINE n == Len(gaps)
<1>1. enhanced /\ count >= Required /\ Required \in {1, 2, 3} /\ count \in Nat
      /\ n \in Nat /\ n <= Required /\ DOMAIN gaps = 1 .. n
      /\ \A i \in 1 .. n : gaps[i] \in Nat
  BY Constants DEF IdleTypes, PatternKept, PatternWhole, Ages
<1>2. n >= 1 /\ gaps[n] \in MinInterval .. MaxInterval
  BY <1>1 DEF PatternKept, LastNear, InWindow
<1>3. Required >= 2 => n >= 2 /\ gaps[n - 1] \in MinInterval .. MaxInterval
                       /\ Distance(gaps[n - 1], gaps[n]) <= Spread
  BY <1>1 DEF PatternKept, LastTwoNear, InWindow
<1>4. Required = 3 => /\ n = 3 /\ gaps[1] \in MinInterval .. MaxInterval
                      /\ Distance(gaps[1], gaps[2]) <= Spread
                      /\ Distance(gaps[1], gaps[3]) <= Spread
  BY <1>1 DEF PatternKept, LastThreeNear, InWindow
<1> HIDE DEF n
<1>5. n = Required
  <2>1. Required >= 2 => n >= 2
    BY <1>3
  <2>2. Required = 3 => n = 3
    BY <1>4
  <2> QED BY <1>1, <1>2, <2>1, <2>2
<1>6. \A a, b \in Nat : Distance(a, b) = Distance(b, a) /\ Distance(a, a) = 0
  BY DEF Distance
<1>7. Spread \in Nat
  BY Constants DEF Spread
<1>8. \A i \in 1 .. n : gaps[i] \in MinInterval .. MaxInterval
  BY <1>1, <1>2, <1>3, <1>4, <1>5
<1>9. ASSUME NEW i \in 1 .. n, NEW j \in 1 .. n PROVE Distance(gaps[i], gaps[j]) <= Spread
  <2>1. CASE i = j
    BY <1>1, <1>6, <1>7, <2>1
  <2>2. CASE i < j
    <3>1. Distance(gaps[i], gaps[j]) <= Spread
      <4>1. (n = 2 /\ i = 1 /\ j = 2) \/ (n = 3 /\ i = 1 /\ j \in {2, 3}) \/ (n = 3 /\ i = 2 /\ j = 3)
        BY <1>1, <2>2
      <4> QED BY <1>3, <1>4, <1>5, <4>1
    <3> QED BY <3>1
  <2>3. CASE j < i
    <3>1. Distance(gaps[j], gaps[i]) <= Spread
      <4>1. (n = 2 /\ j = 1 /\ i = 2) \/ (n = 3 /\ j = 1 /\ i \in {2, 3}) \/ (n = 3 /\ j = 2 /\ i = 3)
        BY <1>1, <2>3
      <4> QED BY <1>3, <1>4, <1>5, <4>1
    <3> QED BY <1>1, <1>6, <3>1
  <2> QED BY <1>1, <2>1, <2>2, <2>3
<1> QED BY <1>1, <1>5, <1>8, <1>9 DEF n

\* The action is taken after a whole window of the monitor's own, in the
\* standard mode one without any input, and input is passed over only when the
\* last intervals are a pattern (EffectiveIdle, evaluateSample,
\* classifyInputReset), for any timeout, tolerance and width of a tick.
THEOREM ActsOnRealIdleness == IdleSpec => []ActsOnIdleness
<1>1. IdleInv => ActsOnIdleness
  BY WholeIsPeriodic DEF IdleInv, WindowKept, IdleIsReal, ActsOnIdleness
<1> QED BY <1>1, IdleInvariance, PTL

\* A warning that is up when the UI thread has nothing left to do is one of a
\* session that warned and goes on (onWarning, stopMonitor and the tasks they
\* post), or a poll of the stopped monitor overtook the Hide.
THEOREM WarningIsLive == IdleSpec => []WarningIsLiveUnlessRaced
<1>1. IdleInv => WarningIsLiveUnlessRaced
  BY DEF IdleInv, WarningOwned, UpNext, WarningIsLiveUnlessRaced
<1> QED BY <1>1, IdleInvariance, PTL
=============================================================================
