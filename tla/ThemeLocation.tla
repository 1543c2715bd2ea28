--------------------------- MODULE ThemeLocation ----------------------------
(***************************************************************************)
(* Where the computer is, asked of a service by its IP address: the lookup *)
(* cycles of the request loop (src/internal/app/theme_location.go) and the *)
(* cache their goroutines share (src/internal/feature/theme/location.go).  *)
(*                                                                         *)
(* A cycle is one lookup and, if it fails, one more when a timer of half   *)
(* an hour has run; a new cycle is a new generation, and what is left of   *)
(* an old one - goroutines, a timer that has fired, posted functions - is  *)
(* recognised by its generation.  The cache has a lock, and asks once at a *)
(* time; after a failure it is cool for half an hour, a location is fresh  *)
(* for a day.  The age of either is a field of the cache, and the steps    *)
(* HalfHour, DayLater and TimerFires follow the order of the real times.   *)
(*                                                                         *)
(* ThemeSystem composes this module with the theme scheduler.              *)
(***************************************************************************)
EXTENDS Naturals, FiniteSets

VARIABLES
    generation, \* s.ipLocationGeneration
    retried,    \* s.ipLocationRetried
    retry,      \* s.ipLocationRetry: the timer, or NoTimer
    lookups,    \* goroutines of queryIPLocationInBackground
    cache,      \* ipCache
    posted      \* functions posted to the request loop

locVars == <<generation, retried, retry, lookups, cache, posted>>
cycle   == <<generation, retried, retry>>

\* A timer: whose it is, whether it still runs, and whether the cache has asked
\* since it was set.  One generation sets one timer at most, so that the
\* generation stands for the timer's identity
NoTimer == [gen |-> 0]
Timer(g) == [gen |-> g, running |-> TRUE, asked |-> FALSE]

TypeOK ==
    /\ generation \in Nat /\ retried \in BOOLEAN
    /\ retry = NoTimer \/ retry \in [gen : 1..generation, running : BOOLEAN, asked : BOOLEAN]
    /\ lookups \subseteq [gen : 1..generation, step : {"begin", "asking"}]
    /\ cache \in [info : {"none", "fresh", "old"}, cool : BOOLEAN, querying : BOOLEAN]
    /\ posted \subseteq [gen : 1..generation, what : {"found", "failed", "again"}]

Init ==
    /\ generation = 0 /\ retried = FALSE /\ retry = NoTimer
    /\ lookups = {} /\ posted = {}
    /\ cache = [info |-> "none", cool |-> FALSE, querying |-> FALSE]
-----------------------------------------------------------------------------
(* The request loop's calls, and what each leaves to the goroutines *)

\* Mutant of FreshCycle: the flag of the cycle before stays
FreshCycleOldFlag == retry' = NoTimer /\ UNCHANGED retried

\* cancelIPLocationRetry, and the flags of a generation that begins
FreshCycle == retry' = NoTimer /\ retried' = FALSE

Launch(g) == lookups' = lookups \cup {[gen |-> g, step |-> "begin"]}

StopCycle ==
    /\ generation' = generation + 1
    /\ FreshCycle
    /\ UNCHANGED <<lookups, cache, posted>>

\* ResetIPLocationFailureCooldown included: it leaves a request in flight alone
StartCycle(eligible) ==
    IF eligible
    THEN /\ generation' = generation + 1
         /\ FreshCycle
         /\ cache' = [cache EXCEPT !.cool = FALSE]
         /\ Launch(generation')
         /\ UNCHANGED posted
    ELSE StopCycle

\* Mutant of RetryIsMine: whatever timer has fired, the lookup is made
AnyRetry(m) == TRUE

\* s.ipLocationRetry == timer, and the generation's
RetryIsMine(m) == retry.gen = m.gen /\ m.gen = generation

\* The function the timer posts
TakeRetry(m) ==
    /\ m \in posted /\ m.what = "again"
    /\ posted' = posted \ {m}
    /\ IF RetryIsMine(m)
       THEN retry' = NoTimer /\ retried' = TRUE /\ Launch(m.gen)
       ELSE UNCHANGED <<retry, retried, lookups>>
    /\ UNCHANGED <<generation, cache>>

\* A lookup's result is for the settings in force
IsAnswer(m, eligible) == m.gen = generation /\ eligible

\* handleIPLocationFailure, or what precedes the scheduler's restart
TakeResult(m, eligible) ==
    /\ m \in posted /\ m.what \in {"found", "failed"}
    /\ posted' = posted \ {m}
    /\ retry' = IF ~IsAnswer(m, eligible) \/ (m.what = "failed" /\ retried) THEN retry
                ELSE IF m.what = "failed" THEN Timer(m.gen) ELSE NoTimer
    /\ UNCHANGED <<generation, retried, lookups, cache>>
-----------------------------------------------------------------------------
(* The goroutines: cachedIPLocation *)

\* An attempt is noted: the age of a timer that runs is then the smaller one
Noted == retry' = IF retry = NoTimer THEN retry ELSE [retry EXCEPT !.asked = TRUE]

Post(l, what) ==
    /\ lookups' = lookups \ {l}
    /\ posted' = posted \cup {[gen |-> l.gen, what |-> what]}

\* Mutant of Refused: two lookups ask at once
RefusedWhenCool == cache.info = "none" /\ cache.cool

\* No request is made: a failure not long ago, or another lookup that asks
Refused == (cache.info = "none" /\ cache.cool) \/ cache.querying

Begin(l) ==
    /\ l \in lookups /\ l.step = "begin"
    /\ \/ cache.info = "fresh" /\ Post(l, "found") /\ UNCHANGED <<cache, retry>>
       \/ cache.info # "fresh" /\ Refused /\ Post(l, "failed") /\ UNCHANGED <<cache, retry>>
       \/ /\ cache.info # "fresh" /\ ~Refused
          /\ lookups' = (lookups \ {l}) \cup {[l EXCEPT !.step = "asking"]}
          \* the attempt's time makes an old location look fresh meanwhile
          /\ cache' = [info |-> IF cache.info = "old" THEN "fresh" ELSE "none",
                       cool |-> TRUE, querying |-> TRUE]
          /\ Noted /\ UNCHANGED posted
    /\ UNCHANGED <<generation, retried>>

\* The service answers, or does not
Answer(l) ==
    /\ l \in lookups /\ l.step = "asking"
    /\ \E ok \in BOOLEAN :
          /\ cache' = [info |-> IF ok THEN "fresh" ELSE "none", cool |-> TRUE, querying |-> FALSE]
          /\ Post(l, IF ok THEN "found" ELSE "failed")
    /\ Noted
    /\ UNCHANGED <<generation, retried>>
-----------------------------------------------------------------------------
(* Time: no request takes half an hour (ipLocationRequestTimeout) *)

Running == retry # NoTimer /\ retry.running

\* A failure is half an hour old.  A timer set before it has fired
HalfHour ==
    /\ cache.cool /\ cache.info = "none"
    /\ lookups = {}
    /\ ~(Running /\ retry.asked)
    /\ cache' = [cache EXCEPT !.cool = FALSE]
    /\ UNCHANGED <<cycle, lookups, posted>>

\* A timer's half hour, which a failure that came before it has had too
TimerFires ==
    /\ Running
    /\ lookups = {}
    /\ retry.asked \/ ~cache.cool \/ cache.info # "none"
    /\ retry' = [retry EXCEPT !.running = FALSE]
    /\ posted' = posted \cup {[gen |-> retry.gen, what |-> "again"]}
    /\ UNCHANGED <<generation, retried, lookups, cache>>

\* ipLocationSuccessCacheTTL
DayLater ==
    /\ cache.info = "fresh"
    /\ lookups = {} /\ posted = {} /\ ~Running
    /\ cache' = [cache EXCEPT !.info = "old"]
    /\ UNCHANGED <<cycle, lookups, posted>>

Background == \E l \in lookups : Begin(l) \/ Answer(l)
Time       == HalfHour \/ TimerFires \/ DayLater
=============================================================================
