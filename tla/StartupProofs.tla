---------------------------- MODULE StartupProofs ----------------------------
(***************************************************************************)
(* Startup for every registry, every set of tiers and every settings: its  *)
(* steps implement the one step of AppLifecycle, and what it chooses and   *)
(* sizes is as promised, however the free memory changes meanwhile.        *)
(***************************************************************************)
EXTENDS StartupProperties, FiniteSetTheorems, SequenceTheorems, TLAPS

(***************************************************************************)
(* One engine per process, for any number of concurrent requests           *)
(* (AppLifecycle).  Once the process serves, the pool is cached, so no     *)
(* request ever finds itself building one.                                 *)
(***************************************************************************)

\* The engines that are loaded are those of the cached pool: none before
\* startup and after shutdown, at most one in between, and at most one that
\* did not let itself be shut down.
PoolCached ==
  /\ app \in {"starting", "ready", "stopped", "stuck", "failed"}
  /\ pool \in Names \cup {None}
  /\ app \in {"starting", "stopped"} => live = {}
  /\ app = "stuck" => \E e \in Names : live = {e}
  /\ app = "ready" => pool # None
  /\ app = "ready" => live = {pool}
  /\ app = "failed" => live = {pool} \/ live = {}

\* No request builds a pool.
NobodyBuildsPool ==
  pc \in [Requests -> {"idle", "controller", "resolved", "running"}]

EngineInv == PoolCached /\ NobodyBuildsPool

\* There is a name for the first object of the process.
LEMMA FirstName == Unused({}) \in Names
<1>1. Cardinality(Requests) \in Nat
  BY LifecycleConstants, FS_CardinalityType
<1>2. 1 \in Names
  BY <1>1 DEF Names
<1>3. QED BY <1>2 DEF Unused

\* Every step keeps the loaded engine that of the cached pool.
LEMMA EngineStep == EngineInv /\ [LifecycleNext]_lifecycleVars => EngineInv'
<1> SUFFICES ASSUME EngineInv, [LifecycleNext]_lifecycleVars
             PROVE  EngineInv'
  OBVIOUS
<1> USE DEF EngineInv, PoolCached, NobodyBuildsPool
<1>0. 0 \notin Names
  BY DEF Names
<1>1. CASE InitializeApp
  <2>1. CASE app' = "failed" /\ UNCHANGED <<pool, live>>
    BY <1>1, <2>1 DEF InitializeApp
  <2>2. CASE /\ app' \in {"ready", "failed"}
             /\ pool' = Unused(live)
             /\ live' = live \cup {Unused(live)}
    <3>1. app = "starting" /\ live = {} /\ UNCHANGED pc
      BY <1>1 DEF InitializeApp
    <3>2. pool' \in Names /\ live' = {pool'} /\ pool' # None
      BY <1>0, <2>2, <3>1, FirstName DEF None
    <3>3. QED BY <2>2, <3>1, <3>2
  <2>3. QED BY <1>1, <2>1, <2>2 DEF InitializeApp
<1>2. CASE Shutdown
  <2>1. app = "ready" /\ pool' = None /\ UNCHANGED pc /\ pool \in Names /\ live = {pool}
    BY <1>2 DEF Shutdown
  <2>2. CASE app' = "stopped" /\ live' = live \ {pool}
    BY <2>1, <2>2
  <2>3. CASE app' = "stuck" /\ live' = live
    BY <2>1, <2>3
  <2>4. QED BY <1>2, <2>2, <2>3 DEF Shutdown
<1>3. ASSUME NEW r \in Requests, Resolve(r)
      PROVE  EngineInv'
  BY <1>3 DEF Resolve
<1>4. ASSUME NEW r \in Requests, Handles(r)
      PROVE  EngineInv'
  <2>1. pc[r] # "pool"
    OBVIOUS
  <2>2. CASE Built(r)
    <3>1. UNCHANGED <<app, pool, live>> /\ pc' = [pc EXCEPT ![r] = "resolved"]
      BY <2>1, <2>2 DEF Built
    <3>2. QED BY <3>1
  <2>3. CASE Admit(r)
    BY <2>3 DEF Admit
  <2>4. CASE AnswersAtOnce(r) \/ Finish(r)
    BY <2>4 DEF AnswersAtOnce, Finish, Leaves
  <2>5. QED BY <1>4, <2>2, <2>3, <2>4 DEF Handles
<1>5. CASE UNCHANGED lifecycleVars
  BY <1>5 DEF lifecycleVars
<1>6. QED BY <1>1, <1>2, <1>3, <1>4, <1>5 DEF LifecycleNext

\* The strengthened invariant holds of every behaviour.
LEMMA EngineInvariant == LifecycleSpec => []EngineInv
<1>1. LifecycleInit => EngineInv
  BY DEF LifecycleInit, EngineInv, PoolCached, NobodyBuildsPool
<1>2. QED BY <1>1, EngineStep, PTL DEF LifecycleSpec

\* The process never holds two engines (deps.py:87-93), however many requests
\* resolve its singletons at once.
THEOREM NeverTwoEngines == LifecycleSpec => []OneEngineLoaded
<1>1. EngineInv => OneEngineLoaded
  <2> SUFFICES ASSUME EngineInv PROVE Cardinality(live) <= 1
    BY DEF OneEngineLoaded
  <2>1. live = {} \/ \E e : live = {e}
    BY DEF EngineInv, PoolCached
  <2>2. Cardinality({}) = 0 /\ \A e : Cardinality({e}) = 1
    BY FS_EmptySet, FS_Singleton
  <2>3. CASE live = {}
    BY <2>2, <2>3
  <2>4. CASE live # {}
    <3>1. PICK e : live = {e}
      BY <2>1, <2>4
    <3>2. Cardinality(live) = 1
      BY <3>1, FS_Singleton
    <3>3. QED BY <3>2
  <2>5. QED BY <2>3, <2>4
<1>2. QED BY <1>1, EngineInvariant, PTL

\* Whatever is loaded is in the cached pool, and after a shutdown nothing is,
\* except for an engine whose own shutdown raised (deps.py:272-285).
THEOREM ShutdownReleasesEngine == LifecycleSpec => []EngineReleasedAtShutdown
<1>1. EngineInv => EngineReleasedAtShutdown
  BY DEF EngineInv, PoolCached, EngineReleasedAtShutdown
<1>2. QED BY <1>1, EngineInvariant, PTL

(***************************************************************************)
(* The race to build the admission controller: what it can do, and that it *)
(* is over once nobody builds any more.                                    *)
(***************************************************************************)

\* A request has a controller from when it is resolved until it leaves, and
\* requests are about only while the process serves.
ControllerTypes ==
  /\ controller \in Names \cup {None}
  /\ mine \in [Requests -> Names \cup {None}]
  /\ \A r \in Requests :
       /\ pc[r] \in {"idle", "controller"} => mine[r] = None
       /\ pc[r] \in {"resolved", "running"} => mine[r] \in Names
       /\ app # "ready" => pc[r] = "idle"

\* Each controller keeps to its own ceiling (admission.py:11-12).
OwnCeilings == \A c \in Names : Cardinality(RunningOn(c)) <= MaxNumSeqs

ControllerInv == EngineInv /\ ControllerTypes /\ OwnCeilings

\* There are as many names as objects can be about: the one that builds gets
\* a name nobody has.
LEMMA FreshController ==
  ASSUME ControllerTypes, NEW r \in Requests, mine[r] = None
  PROVE  LET held == {controller} \cup {mine[s] : s \in Requests}
         IN  Unused(held) \in Names \ held
<1> DEFINE held   == {controller} \cup {mine[s] : s \in Requests}
           others == Requests \ {r}
           theirs == {mine[s] : s \in others}
           N      == Cardinality(Requests)
<1>1. IsFiniteSet(Requests) /\ N \in Nat
  BY LifecycleConstants, FS_CardinalityType
<1>2. IsFiniteSet(others) /\ Cardinality(others) = N - 1
  BY <1>1, FS_RemoveElement
<1>3. IsFiniteSet(theirs) /\ Cardinality(theirs) <= Cardinality(others)
  <2> DEFINE f == [s \in others |-> mine[s]]
  <2>1. f \in Surjection(others, theirs)
    BY DEF Surjection
  <2> HIDE DEF f, others, theirs
  <2>2. QED BY <1>2, <2>1, FS_Surjection
<1> DEFINE known == theirs \cup {controller}
<1> HIDE DEF theirs, others, N
<1>4. IsFiniteSet(known) /\ Cardinality(known) <= N
  <2>1. Cardinality(theirs) \in Nat /\ Cardinality(theirs) <= N - 1
    BY <1>2, <1>3, FS_CardinalityType
  <2>2. /\ IsFiniteSet(known)
        /\ Cardinality(known)
             = IF controller \in theirs THEN Cardinality(theirs) ELSE Cardinality(theirs) + 1
    BY <1>3, FS_AddElement
  <2>3. QED BY <1>1, <2>1, <2>2
<1>5. held \subseteq known \cup {None}
  BY DEF theirs, others
<1>6. None \notin Names
  BY DEF None, Names
<1>7. \E n \in Names : n \notin held
  <2>1. SUFFICES ASSUME Names \subseteq held PROVE FALSE
    OBVIOUS
  <2>2. Names \in SUBSET known
    BY <1>5, <1>6, <2>1
  <2> HIDE DEF known
  <2>3. Cardinality(Names) <= Cardinality(known)
    BY <1>4, <2>2, FS_Subset
  <2>4. Cardinality(Names) = N + 1
    <3> DEFINE last == N + 1
    <3>1. 1 \in Int /\ last \in Int /\ ~(1 > last) /\ last - 1 + 1 = N + 1
      BY <1>1
    <3>2. Names = 1..last
      BY DEF Names, N
    <3> HIDE DEF last
    <3>3. QED BY <3>1, <3>2, FS_Interval
  <2>5. Cardinality(known) \in Nat
    BY <1>4, FS_CardinalityType
  <2>6. QED BY <1>1, <1>4, <2>3, <2>4, <2>5
<1> HIDE DEF held
<1>8. QED BY <1>7 DEF Unused, held

\* What a step that moves one request does to a controller's running ones.
LEMMA RunningMoves ==
  ASSUME ControllerTypes, NEW r \in Requests, NEW to, NEW new,
         pc \in [Requests -> {"idle", "controller", "resolved", "running"}],
         pc' = [pc EXCEPT ![r] = to], mine' = [mine EXCEPT ![r] = new], to # "running",
         OwnCeilings
  PROVE  OwnCeilings'
<1> SUFFICES ASSUME NEW c \in Names PROVE Cardinality(RunningOn(c)') <= MaxNumSeqs
  BY DEF OwnCeilings, Names
<1>1. RunningOn(c)' \subseteq RunningOn(c)
  BY DEF RunningOn, ControllerTypes
<1>2. IsFiniteSet(RunningOn(c))
  BY LifecycleConstants, FS_Subset DEF RunningOn
<1>3. Cardinality(RunningOn(c)) <= MaxNumSeqs
  BY DEF OwnCeilings
<1>4. IsFiniteSet(RunningOn(c)') /\ Cardinality(RunningOn(c)') <= Cardinality(RunningOn(c))
  BY <1>1, <1>2, FS_Subset
<1>5. QED
  BY <1>2, <1>3, <1>4, FS_CardinalityType, LifecycleConstants

LEMMA ControllerStep == ControllerInv /\ [LifecycleNext]_lifecycleVars => ControllerInv'
<1> SUFFICES ASSUME ControllerInv, [LifecycleNext]_lifecycleVars PROVE ControllerInv'
  OBVIOUS
<1>1. EngineInv /\ EngineInv' /\ ControllerTypes /\ OwnCeilings
  BY EngineStep DEF ControllerInv
<1>2. pc \in [Requests -> {"idle", "controller", "resolved", "running"}]
  BY <1>1 DEF EngineInv, NobodyBuildsPool
<1>3. CASE UNCHANGED <<controller, pc, mine>> /\ (app # "ready" \/ UNCHANGED app)
  <2>1. ControllerTypes'
    BY <1>1, <1>2, <1>3 DEF ControllerTypes, Names
  <2>2. OwnCeilings'
    BY <1>1, <1>3 DEF OwnCeilings, RunningOn, Names
  <2>3. QED BY <1>1, <2>1, <2>2 DEF ControllerInv
<1>4. CASE Shutdown
  <2>1. controller' = None /\ UNCHANGED <<pc, mine>> /\ \A r \in Requests : pc[r] = "idle"
    BY <1>4 DEF Shutdown
  <2>2. ControllerTypes'
    BY <1>1, <2>1 DEF ControllerTypes, Names
  <2>3. OwnCeilings'
    BY <1>1, <2>1 DEF OwnCeilings, RunningOn, Names
  <2>4. QED BY <1>1, <2>2, <2>3 DEF ControllerInv
<1>5. ASSUME NEW r \in Requests, NEW to \in {"idle", "controller", "resolved"},
             NEW new \in Names \cup {None},
             pc' = [pc EXCEPT ![r] = to], mine' = [mine EXCEPT ![r] = new],
             controller' \in Names \cup {None}, UNCHANGED app, app = "ready",
             to = "resolved" <=> new \in Names
      PROVE  ControllerInv'
  <2>1. OwnCeilings'
    BY <1>1, <1>2, <1>5, RunningMoves
  <2>2. None \notin Names
    BY DEF None, Names
  <2>3. ControllerTypes'
    BY <1>1, <1>2, <1>5, <2>2 DEF ControllerTypes, Names
  <2>4. QED BY <1>1, <2>1, <2>3 DEF ControllerInv
<1>6. ASSUME NEW r \in Requests, Resolve(r) PROVE ControllerInv'
  <2>1. /\ app = "ready" /\ UNCHANGED <<app, controller>> /\ pool # None
        /\ pc' = [pc EXCEPT ![r] = IF controller = None THEN "controller" ELSE "resolved"]
        /\ mine' = [mine EXCEPT ![r] = controller]
    BY <1>1, <1>6 DEF Resolve, EngineInv, PoolCached
  <2>2. controller \in Names \cup {None} /\ None \notin Names
    BY <1>1 DEF ControllerTypes, None, Names
  <2>3. CASE controller = None
    BY <1>5, <2>1, <2>2, <2>3
  <2>4. CASE controller # None
    BY <1>5, <2>1, <2>2, <2>4
  <2>5. QED BY <2>3, <2>4
<1>7. ASSUME NEW r \in Requests, Built(r) PROVE ControllerInv'
  <2> DEFINE own == Unused({controller} \cup {mine[s] : s \in Requests})
  <2>1. /\ pc[r] = "controller" /\ UNCHANGED app
        /\ controller' = IF controller = None THEN own ELSE controller
        /\ pc' = [pc EXCEPT ![r] = "resolved"] /\ mine' = [mine EXCEPT ![r] = own]
    BY <1>2, <1>7 DEF Built
  <2>2. own \in Names
    BY <1>1, <2>1, FreshController DEF ControllerTypes
  <2>3. app = "ready" /\ controller \in Names \cup {None}
    BY <1>1, <2>1 DEF ControllerTypes
  <2> HIDE DEF own
  <2>4. QED BY <1>5, <2>1, <2>2, <2>3
<1>8. ASSUME NEW r \in Requests, pc[r] # "idle", Leaves(r) PROVE ControllerInv'
  <2>1. /\ pc' = [pc EXCEPT ![r] = "idle"] /\ mine' = [mine EXCEPT ![r] = None]
        /\ UNCHANGED <<app, controller>>
    BY <1>8 DEF Leaves
  <2>2. app = "ready" /\ controller \in Names \cup {None} /\ None \notin Names
    BY <1>1, <1>8 DEF ControllerTypes, None, Names
  <2>3. QED BY <1>5, <2>1, <2>2
<1>9. ASSUME NEW r \in Requests, Admit(r) PROVE ControllerInv'
  <2>1. /\ pc[r] = "resolved" /\ Cardinality(RunningOn(mine[r])) < MaxNumSeqs
        /\ pc' = [pc EXCEPT ![r] = "running"] /\ UNCHANGED <<app, controller, mine>>
    BY <1>9 DEF Admit
  <2>2. ControllerTypes'
    BY <1>1, <1>2, <2>1 DEF ControllerTypes, Names
  <2>3. ASSUME NEW c \in Names PROVE Cardinality(RunningOn(c)') <= MaxNumSeqs
    <3>1. IsFiniteSet(RunningOn(c)) /\ Cardinality(RunningOn(c)) \in Nat
      BY LifecycleConstants, FS_Subset, FS_CardinalityType DEF RunningOn
    <3>2. CASE c = mine[r]
      <4>1. RunningOn(c)' = RunningOn(c) \cup {r}
        BY <1>2, <2>1, <3>2 DEF RunningOn
      <4>2. Cardinality(RunningOn(c) \cup {r}) <= Cardinality(RunningOn(c)) + 1
        <5>1. Cardinality(RunningOn(c) \cup {r})
                = IF r \in RunningOn(c) THEN Cardinality(RunningOn(c))
                  ELSE Cardinality(RunningOn(c)) + 1
          BY <3>1, FS_AddElement, Zenon
        <5>2. QED BY <3>1, <5>1
      <4>3. Cardinality(RunningOn(c)') <= Cardinality(RunningOn(c)) + 1
        BY <4>1, <4>2
      <4>4. Cardinality(RunningOn(c)') \in Nat
        BY <3>1, <4>1, FS_AddElement, FS_CardinalityType
      <4>5. QED BY <2>1, <3>1, <3>2, <4>3, <4>4, LifecycleConstants
    <3>3. CASE c # mine[r]
      <4>1. RunningOn(c)' = RunningOn(c)
        BY <1>2, <2>1, <3>3 DEF RunningOn
      <4>2. QED BY <1>1, <4>1 DEF OwnCeilings
    <3>4. QED BY <3>2, <3>3
  <2>4. OwnCeilings'
    BY <2>3 DEF OwnCeilings, Names
  <2>5. QED BY <1>1, <2>2, <2>4 DEF ControllerInv
<1>10. CASE InitializeApp
  BY <1>3, <1>10 DEF InitializeApp
<1>11. CASE UNCHANGED lifecycleVars
  BY <1>3, <1>11 DEF lifecycleVars
<1>12. QED
  BY <1>4, <1>6, <1>7, <1>8, <1>9, <1>10, <1>11
     DEF LifecycleNext, Handles, AnswersAtOnce, Finish

LEMMA ControllerInvariant == LifecycleSpec => []ControllerInv
<1>1. LifecycleInit => ControllerInv
  <2> SUFFICES ASSUME LifecycleInit PROVE ControllerInv
    OBVIOUS
  <2>1. EngineInv /\ ControllerTypes
    BY DEF LifecycleInit, EngineInv, PoolCached, NobodyBuildsPool, ControllerTypes
  <2>2. \A c \in Names : RunningOn(c) = {}
    BY DEF LifecycleInit, RunningOn
  <2>3. OwnCeilings
    BY <2>2, FS_EmptySet, LifecycleConstants DEF OwnCeilings
  <2>4. QED BY <2>1, <2>3 DEF ControllerInv
<1>2. QED BY <1>1, ControllerStep, PTL DEF LifecycleSpec

\* However requests race to build a controller, each controller that comes of it
\* keeps to its ceiling.
THEOREM EachControllerKeepsItsCeiling == LifecycleSpec => []OwnCeilings
<1>1. ControllerInv => OwnCeilings
  BY DEF ControllerInv
<1>2. QED BY <1>1, ControllerInvariant, PTL

\* The requests that hold a controller of their own, which is not the cached one.
Strangers == {r \in Requests : mine[r] \notin {None, controller}}

\* EngineCeilingHolds fails by the strangers and by nothing else: the engine
\* never runs more requests than one controller's ceiling and those.
THEOREM ExcessIsStrangers ==
  LifecycleSpec =>
    [](Cardinality({r \in Requests : pc[r] = "running"}) <= MaxNumSeqs + Cardinality(Strangers))
<1> DEFINE running == {r \in Requests : pc[r] = "running"}
           shared  == RunningOn(controller)
<1>1. ASSUME ControllerInv PROVE Cardinality(running) <= MaxNumSeqs + Cardinality(Strangers)
  <2>1. ControllerTypes /\ OwnCeilings /\ None \notin Names
    BY <1>1 DEF ControllerInv, None, Names
  <2>2. running \subseteq shared \cup Strangers
    BY <2>1 DEF ControllerTypes, RunningOn, Strangers
  <2>3. IsFiniteSet(shared) /\ IsFiniteSet(Strangers)
    BY LifecycleConstants, FS_Subset DEF RunningOn, Strangers
  <2>4. Cardinality(shared) <= MaxNumSeqs
    <3>1. CASE controller \in Names
      BY <2>1, <3>1 DEF OwnCeilings
    <3>2. CASE controller \notin Names
      <4>1. shared = {}
        BY <2>1, <3>2 DEF ControllerTypes, RunningOn
      <4>2. QED BY <4>1, FS_EmptySet, LifecycleConstants
    <3>3. QED BY <3>1, <3>2
  <2> HIDE DEF running, shared
  <2> DEFINE both == shared \cup Strangers
             meet == shared \cap Strangers
  <2>5. IsFiniteSet(meet) /\ IsFiniteSet(both)
    BY <2>3, FS_Intersection, FS_Union
  <2>6. Cardinality(both) = Cardinality(shared) + Cardinality(Strangers) - Cardinality(meet)
    BY <2>3, FS_Union
  <2> HIDE DEF both, meet
  <2>7. IsFiniteSet(running) /\ Cardinality(running) <= Cardinality(both)
    BY <2>2, <2>5, FS_Subset DEF both
  <2>8. /\ Cardinality(running) \in Nat /\ Cardinality(both) \in Nat
        /\ Cardinality(shared) \in Nat /\ Cardinality(Strangers) \in Nat
        /\ Cardinality(meet) \in Nat
    BY <2>3, <2>5, <2>7, FS_CardinalityType
  <2>9. QED BY <2>4, <2>6, <2>7, <2>8, LifecycleConstants
<1>2. ControllerInv => Cardinality(running) <= MaxNumSeqs + Cardinality(Strangers)
  BY <1>1
<1>3. QED BY <1>2, ControllerInvariant, PTL

\* The race is over when a controller is cached and nobody builds another, or
\* when the process has stopped.
RaceOver ==
  \/ controller # None /\ \A r \in Requests : pc[r] # "controller"
  \/ app \in {"stopped", "stuck"}

\* Once it is over it never begins again, and strangers only leave: the safety
\* that SettlesOnOneController rests on (deps.py, lru_cache(maxsize=1)).
THEOREM StrangersOnlyLeave ==
  LifecycleSpec => [][RaceOver => RaceOver' /\ Strangers' \subseteq Strangers]_lifecycleVars
<1> DEFINE Settles == RaceOver => RaceOver' /\ Strangers' \subseteq Strangers
<1>1. ASSUME ControllerInv, LifecycleNext, RaceOver PROVE RaceOver' /\ Strangers' \subseteq Strangers
  <2>1. /\ ControllerTypes
        /\ app = "ready" => pool # None
        /\ pc \in [Requests -> {"idle", "controller", "resolved", "running"}]
    BY <1>1 DEF ControllerInv, EngineInv, PoolCached, NobodyBuildsPool
  <2>2. CASE Shutdown
    <3>1. app' \in {"stopped", "stuck"} /\ UNCHANGED mine /\ \A r \in Requests : mine[r] = None
      BY <2>1, <2>2 DEF Shutdown, ControllerTypes
    <3>2. QED BY <3>1 DEF RaceOver, Strangers
  <2>3. CASE InitializeApp
    BY <1>1, <2>3 DEF InitializeApp, RaceOver, Strangers
  <2>4. ASSUME NEW r \in Requests, Resolve(r) PROVE RaceOver' /\ Strangers' \subseteq Strangers
    <3>1. /\ app = "ready" /\ controller # None /\ UNCHANGED controller
          /\ pc' = [pc EXCEPT ![r] = "resolved"] /\ mine' = [mine EXCEPT ![r] = controller]
      BY <1>1, <2>1, <2>4 DEF Resolve, RaceOver
    <3>2. RaceOver'
      BY <1>1, <2>1, <3>1 DEF RaceOver
    <3>3. Strangers' \subseteq Strangers
      BY <2>1, <3>1 DEF Strangers, ControllerTypes
    <3>4. QED BY <3>2, <3>3
  <2>5. ASSUME NEW r \in Requests, Built(r) PROVE FALSE
    BY <1>1, <2>1, <2>5 DEF Built, RaceOver, ControllerTypes
  <2>6. ASSUME NEW r \in Requests, Leaves(r) PROVE RaceOver' /\ Strangers' \subseteq Strangers
    <3>1. /\ pc' = [pc EXCEPT ![r] = "idle"] /\ mine' = [mine EXCEPT ![r] = None]
          /\ UNCHANGED <<app, controller>>
      BY <2>6 DEF Leaves
    <3>2. RaceOver'
      BY <1>1, <2>1, <3>1 DEF RaceOver
    <3>3. Strangers' \subseteq Strangers
      BY <2>1, <3>1 DEF Strangers, ControllerTypes
    <3>4. QED BY <3>2, <3>3
  <2>7. ASSUME NEW r \in Requests, Admit(r) PROVE RaceOver' /\ Strangers' \subseteq Strangers
    <3>1. pc' = [pc EXCEPT ![r] = "running"] /\ UNCHANGED <<app, controller, mine>>
      BY <2>7 DEF Admit
    <3>2. QED BY <1>1, <2>1, <3>1 DEF RaceOver, Strangers
  <2>8. QED
    BY <1>1, <2>2, <2>3, <2>4, <2>5, <2>6, <2>7
       DEF LifecycleNext, Handles, AnswersAtOnce, Finish
<1>2. ControllerInv /\ [LifecycleNext]_lifecycleVars => [Settles]_lifecycleVars
  BY <1>1
<1>3. QED BY <1>2, ControllerInvariant, PTL DEF LifecycleSpec

(***************************************************************************)
(* Sizing and variant selection (VramSizing), for every entry, tier and    *)
(* amount of memory.                                                       *)
(***************************************************************************)

\* The estimates are amounts of memory.
LEMMA EstimateTypes ==
  ASSUME NEW m \in ModelEntry
  PROVE  /\ BytesPerParam(m) \in Nat
         /\ WeightEstimate(m) \in Nat
         /\ KvCacheEstimate(m) \in Nat
         /\ FootprintEstimate(m) \in Nat
         /\ WeightEstimate(m) <= FootprintEstimate(m)
<1>1. /\ m.named \in Nat /\ m.config \in ArchConfig /\ m.maxModelLen \in Nat
      /\ m.overhead \in Nat /\ m.quantization \in {"none", "int8", "int4"}
  BY DEF ModelEntry
<1>2. /\ m.config.params \in Nat /\ m.config.embedding \in Nat
      /\ m.config.kvPerToken \in Nat
  BY <1>1 DEF ArchConfig
<1>3. BytesPerParam(m) \in {55, 100, 200}
  BY <1>1 DEF BytesPerParam
<1>4. Params(m) \in Nat
  BY <1>1, <1>2 DEF Params
<1>5. EmbeddingParams(m) \in Nat /\ EmbeddingParams(m) <= Params(m)
  BY <1>2, <1>4 DEF EmbeddingParams, Least
<1>6. WeightEstimate(m) \in Nat
  <2>1. (Params(m) - EmbeddingParams(m)) * BytesPerParam(m) \in Nat
    BY <1>3, <1>4, <1>5
  <2>2. QED BY <1>5, <2>1 DEF WeightEstimate, GiB
<1>7. KvCacheEstimate(m) \in Nat
  <2>1. (4000 * m.maxModelLen) \div 2048 \in Nat
    BY <1>1
  <2>2. m.config.kvPerToken * m.maxModelLen \in Nat
    BY <1>1, <1>2
  <2>3. QED BY <2>1, <2>2 DEF KvCacheEstimate
<1>8. QED BY <1>1, <1>3, <1>6, <1>7 DEF FootprintEstimate

\* Rounding moves by half of the last digit at most.
LEMMA RoundedDivBounds ==
  ASSUME NEW a \in Int, NEW b \in Nat \ {0}
  PROVE  /\ RoundedDiv(a, b) \in Int
         /\ 2 * RoundedDiv(a, b) * b <= 2 * a + b
         /\ 2 * a - b < 2 * RoundedDiv(a, b) * b
<1> DEFINE q == (2 * a + b) \div (2 * b)
<1>1. 2 * b \in Nat /\ 2 * b > 0 /\ 2 * a + b \in Int
  OBVIOUS
<1>2. q \in Int /\ (2 * b) * q <= 2 * a + b /\ 2 * a + b < (2 * b) * q + 2 * b
  BY <1>1, Z3
<1> HIDE DEF q
<1>3. (2 * b) * q = 2 * q * b
  BY <1>2, Z3
<1>4. RoundedDiv(a, b) = q
  BY DEF RoundedDiv, q
<1>5. q * b \in Int
  BY <1>2
<1>6. QED BY <1>2, <1>3, <1>4, <1>5

\* Rounding keeps to a whole number that bounds what is rounded.
LEMMA RoundedDivWithin ==
  ASSUME NEW a \in Int, NEW b \in Nat \ {0}, NEW n \in Int, a <= n * b
  PROVE  RoundedDiv(a, b) <= n
<1> DEFINE q == RoundedDiv(a, b)
<1>1. q \in Int /\ 2 * q * b <= 2 * a + b
  BY RoundedDivBounds
<1> HIDE DEF q
<1>2. SUFFICES ASSUME q >= n + 1 PROVE FALSE
  BY <1>1 DEF q
<1>3. q * b >= (n + 1) * b
  BY <1>1, <1>2, Z3
<1>4. (n + 1) * b = n * b + b /\ n * b \in Int /\ q * b \in Int /\ 2 * q * b = 2 * (q * b)
  BY <1>1, Z3
<1>5. QED BY <1>1, <1>3, <1>4

\* What is allotted before rounding is within the free memory and the headroom,
\* within the user's cap or down at the weights, and has the weights if they fit.
LEMMA AllottedBounds ==
  ASSUME NEW m \in ModelEntry, NEW total \in Nat \ {0}, NEW seen \in Nat \cup {Unknown}
  PROVE  LET a == Allotted(m, total, seen)
         IN  /\ a \in Int
             /\ a <= PoolGpuHeadroom * total
             /\ seen # Unknown => a <= FreeVramSafety * seen
             /\ m.userCap # Unknown => a <= m.userCap * total \/ a <= 100 * WeightEstimate(m)
             /\ ~WeightsDoNotFit(m, seen) /\ 100 * WeightEstimate(m) <= PoolGpuHeadroom * total
                  => 100 * WeightEstimate(m) <= a
<1>1. WeightEstimate(m) \in Nat /\ FootprintEstimate(m) \in Nat
  BY EstimateTypes
<1>2. m.userCap \in 0..100 \cup {Unknown}
  BY DEF ModelEntry
<1> DEFINE capped == WithinUserCap(WithinFree(100 * FootprintEstimate(m), seen), m, total)
           floored == Greatest(capped, 100 * WeightEstimate(m))
           weights == 100 * WeightEstimate(m)
           cap == m.userCap * total
<1>3. WithinFree(100 * FootprintEstimate(m), seen) \in Int
  BY <1>1 DEF WithinFree, Least, FreeVramSafety
<1>4. m.userCap # Unknown => cap \in Int
  BY <1>2 DEF Unknown
<1>5. capped \in Int /\ (m.userCap # Unknown => capped <= cap)
  BY <1>3, <1>4 DEF WithinUserCap, Least
<1> HIDE DEF capped, cap
<1>6. weights \in Int /\ floored \in Int /\ weights <= floored
      /\ (floored = capped \/ floored = weights)
  BY <1>1, <1>5 DEF Greatest
<1> HIDE DEF floored, weights
<1>7. Allotted(m, total, seen) = Least(WithinFree(floored, seen), PoolGpuHeadroom * total)
  BY DEF Allotted, floored, capped
<1>8. WithinFree(floored, seen) \in Int /\ WithinFree(floored, seen) <= floored
      /\ (seen # Unknown => WithinFree(floored, seen) <= FreeVramSafety * seen)
      /\ (~WeightsDoNotFit(m, seen) => weights <= WithinFree(floored, seen))
  BY <1>6 DEF WithinFree, Least, WeightsDoNotFit, FreeVramSafety, Unknown, weights
<1>9. QED BY <1>4, <1>5, <1>6, <1>7, <1>8 DEF Least, PoolGpuHeadroom, weights, cap, FreeVramSafety, Unknown

\* The utilisation granted is at most 0.92 and, within half of its last digit,
\* no more than 98% of the free memory, where that was probed, and no more than
\* the user's cap, unless the weights need more (vllm_pool_config.py:307-340).
THEOREM GrantIsBounded ==
  ASSUME NEW m \in ModelEntry, NEW total \in Nat \ {0}, NEW seen \in Nat \cup {Unknown}
  PROVE  LET granted == Granted(m, total, seen)
         IN  /\ granted \in Int
             /\ granted <= 100 * PoolGpuHeadroom
             /\ seen # Unknown => (2 * granted - 1) * total <= 200 * (FreeVramSafety * seen)
             /\ m.userCap # Unknown =>
                  \/ granted <= 100 * m.userCap
                  \/ (2 * granted - 1) * total <= 2 * 10000 * WeightEstimate(m)
<1> DEFINE a == Allotted(m, total, seen)
           g == Granted(m, total, seen)
           w == WeightEstimate(m)
<1>1. /\ a \in Int /\ a <= PoolGpuHeadroom * total
      /\ seen # Unknown => a <= FreeVramSafety * seen
      /\ m.userCap # Unknown => a <= m.userCap * total \/ a <= 100 * w
  BY AllottedBounds
<1>2. w \in Nat /\ m.userCap \in 0..100 \cup {Unknown}
  BY EstimateTypes DEF ModelEntry
<1> HIDE DEF a, w
<1>3. g = RoundedDiv(100 * a, total)
  BY DEF Granted, a
<1> HIDE DEF g
<1>4. g \in Int /\ 2 * g * total <= 2 * (100 * a) + total
  BY <1>1, <1>3, RoundedDivBounds
<1>5. (2 * g - 1) * total = 2 * g * total - total /\ 2 * g * total \in Int
  BY <1>4, Z3
<1>6. (2 * g - 1) * total <= 200 * a
  BY <1>1, <1>4, <1>5
<1>7. g <= 100 * PoolGpuHeadroom
  <2>1. 100 * a <= 9200 * total
    BY <1>1 DEF PoolGpuHeadroom
  <2>2. g <= 9200
    BY <1>1, <1>3, <2>1, RoundedDivWithin
  <2>3. QED BY <2>2 DEF PoolGpuHeadroom
<1>8. ASSUME seen # Unknown PROVE (2 * g - 1) * total <= 200 * (FreeVramSafety * seen)
  BY <1>1, <1>5, <1>6, <1>8 DEF FreeVramSafety
<1>9. ASSUME m.userCap # Unknown, a <= m.userCap * total PROVE g <= 100 * m.userCap
  <2>1. m.userCap \in Int /\ m.userCap * total \in Int
    BY <1>2, <1>9 DEF Unknown
  <2>2. 100 * (m.userCap * total) = (100 * m.userCap) * total
    BY <2>1, Z3
  <2>3. 100 * a <= (100 * m.userCap) * total
    BY <1>1, <1>9, <2>1, <2>2
  <2>4. QED BY <1>1, <1>3, <2>1, <2>3, RoundedDivWithin
<1>10. ASSUME a <= 100 * w PROVE (2 * g - 1) * total <= 2 * 10000 * w
  BY <1>1, <1>2, <1>5, <1>6, <1>10
<1>11. QED BY <1>1, <1>4, <1>7, <1>8, <1>9, <1>10 DEF g, w

\* A model whose weights fit the free memory and the headroom of the GPU is
\* granted its weights, less at most half of the last digit: a user's cap that is
\* too low gives way (vllm_pool_config.py:307-340).
THEOREM WeightsAreGranted ==
  ASSUME NEW m \in ModelEntry, NEW total \in Nat \ {0}, NEW seen \in Nat \cup {Unknown},
         ~WeightsDoNotFit(m, seen),
         100 * WeightEstimate(m) <= PoolGpuHeadroom * total
  PROVE  2 * 10000 * WeightEstimate(m) <= (2 * Granted(m, total, seen) + 1) * total
<1> DEFINE a == Allotted(m, total, seen)
           g == Granted(m, total, seen)
           w == WeightEstimate(m)
<1>1. a \in Int /\ 100 * w <= a
  BY AllottedBounds
<1>2. w \in Nat
  BY EstimateTypes
<1> HIDE DEF a, w
<1>3. g = RoundedDiv(100 * a, total)
  BY DEF Granted, a
<1> HIDE DEF g
<1>4. g \in Int /\ 2 * (100 * a) - total < 2 * g * total
  BY <1>1, <1>3, RoundedDivBounds
<1>5. (2 * g + 1) * total = 2 * g * total + total /\ 2 * g * total \in Int
  BY <1>4, Z3
<1>6. QED BY <1>1, <1>2, <1>4, <1>5 DEF g, w

\* The tier is one of the tiers, and its floor is cleared or it is the first.
LEMMA TierExists ==
  ASSUME NEW tiers \in Seq(VramTier), tiers # <<>>, NEW total \in Nat
  PROVE  ResolveTier(total, tiers) \in DOMAIN tiers
<1> DEFINE cleared == ClearedUpTo(total, tiers)
<1>1. Len(tiers) \in Nat /\ DOMAIN tiers = 1..Len(tiers) /\ Len(tiers) >= 1
  <2>1. Len(tiers) # 0
    BY EmptySeq
  <2>2. QED BY <2>1
<1>2. cleared \subseteq 1..Len(tiers)
  BY <1>1 DEF ClearedUpTo
<1>3. IsFiniteSet(1..Len(tiers)) /\ Cardinality(1..Len(tiers)) = Len(tiers)
  BY <1>1, FS_Interval
<1>4. Cardinality(cleared) \in Nat /\ Cardinality(cleared) <= Len(tiers)
  BY <1>2, <1>3, FS_Subset, FS_CardinalityType
<1>5. QED BY <1>1, <1>4 DEF ResolveTier, Greatest

\* select_variant() has at most one result; it is of the family and fits, and
\* no variant that fits is of higher precision (variant_selector.py:40-79).
THEOREM SelectionIsBest ==
  ASSUME NEW registry \in Seq(ModelEntry), NEW family, NEW available, NEW tier,
         NEW i \in SelectVariant(registry, family, available, tier)
  PROVE  /\ i \in Variants(registry, family)
         /\ Fits(registry[i], available, tier)
         /\ SelectVariant(registry, family, available, tier) = {i}
         /\ \A j \in Variants(registry, family) :
              BytesPerParam(registry[j]) > BytesPerParam(registry[i])
                => ~Fits(registry[j], available, tier)
<1> DEFINE fitting == Fitting(registry, family, available, tier)
<1>1. \A j \in DOMAIN registry : j \in Int /\ BytesPerParam(registry[j]) \in Int
  BY EstimateTypes
<1>2. fitting \subseteq DOMAIN registry
  BY DEF Fitting, Variants
<1>3. i \in fitting /\ \A j \in fitting \ {i} : Precedes(registry, i, j)
  BY DEF SelectVariant
<1>4. i \in Variants(registry, family) /\ Fits(registry[i], available, tier)
  BY <1>3 DEF Fitting
<1>5. ASSUME NEW j \in SelectVariant(registry, family, available, tier), j # i
      PROVE  FALSE
  <2>1. j \in fitting /\ \A k \in fitting \ {j} : Precedes(registry, j, k)
    BY DEF SelectVariant
  <2>2. Precedes(registry, i, j) /\ Precedes(registry, j, i)
    BY <1>3, <1>5, <2>1
  <2>3. QED BY <1>1, <1>2, <1>3, <2>1, <2>2 DEF Precedes
<1>6. ASSUME NEW j \in Variants(registry, family),
             BytesPerParam(registry[j]) > BytesPerParam(registry[i]),
             Fits(registry[j], available, tier)
      PROVE  FALSE
  <2>1. j \in fitting
    BY <1>6 DEF Fitting
  <2>2. j # i
    BY <1>1, <1>2, <1>3, <1>6
  <2>3. Precedes(registry, i, j)
    BY <1>3, <2>1, <2>2
  <2>4. QED BY <1>1, <1>2, <1>3, <1>6, <2>1, <2>3 DEF Precedes
<1>7. QED BY <1>4, <1>5, <1>6

(***************************************************************************)
(* Startup in steps (Startup).                                             *)
(***************************************************************************)

\* A step of startup raises or loads an engine, or is not seen from outside.
LEMMA StartupStepRefines ==
  ASSUME [StartupNext]_startupVars
  PROVE  [LifecycleNext]_lifecycleVars
<1>1. ASSUME app = "starting", Raise, UNCHANGED <<controller, pc, mine>>
      PROVE  InitializeApp
  BY <1>1 DEF Raise, InitializeApp
<1>2. ASSUME NEW s, GoesOnTo(s), UNCHANGED <<controller, pc, mine>>
      PROVE  UNCHANGED lifecycleVars
  BY <1>2 DEF GoesOnTo, lifecycleVars
<1>3. CASE BuildRouter
  BY <1>1, <1>2, <1>3 DEF BuildRouter, LifecycleNext
<1>4. CASE BuildPool
  BY <1>1, <1>2, <1>4 DEF BuildPool, LifecycleNext
<1>5. CASE PrepareEngine
  BY <1>1, <1>2, <1>5 DEF PrepareEngine, LifecycleNext
<1>6. CASE CheckBudget
  BY <1>1, <1>2, <1>6 DEF CheckBudget, LifecycleNext
<1>7. CASE LoadEngine
  <2>1. CASE Raise
    BY <1>1, <1>7, <2>1 DEF LoadEngine, LifecycleNext
  <2>2. CASE ~Raise
    BY <1>7, <2>2 DEF LoadEngine, InitializeApp, LifecycleNext
  <2>3. QED BY <2>1, <2>2
<1>8. CASE OtherProcess \/ ProbeExpires
  BY <1>8 DEF OtherProcess, ProbeExpires
<1>9. CASE Serving
  BY <1>9 DEF Serving, LifecycleNext
<1>10. CASE UNCHANGED startupVars
  BY <1>10 DEF startupVars
<1>11. QED
  BY <1>3, <1>4, <1>5, <1>6, <1>7, <1>8, <1>9, <1>10 DEF StartupNext, InitializeStep

\* Startup in its steps implements the startup that AppLifecycle takes for
\* one step (api/deps.py:225-269).
THEOREM StartupImplementsLifecycle == StartupSpec => LifecycleSpec
<1>1. StartupInit => LifecycleInit
  BY DEF StartupInit
<1>2. QED BY <1>1, StartupStepRefines, PTL DEF StartupSpec, LifecycleSpec

\* So the process with the real startup never holds two engines either.
THEOREM StartupLoadsOneEngine == StartupSpec => []OneEngineLoaded
  BY StartupImplementsLifecycle, NeverTwoEngines, PTL

\* And has every engine in the cached pool, unless its shutdown raised.
THEOREM StartupEngineReleased == StartupSpec => []EngineReleasedAtShutdown
  BY StartupImplementsLifecycle, ShutdownReleasesEngine, PTL

-----------------------------------------------------------------------------
(***************************************************************************)
(* The invariant: what a probe can have seen, and that default and model   *)
(* are what their names resolve to in what was seen.                       *)
(***************************************************************************)
Seen == IF settings.total = 0 THEN {Unknown} ELSE 0..settings.total

ProbeInv ==
  /\ settings \in Settings
  /\ free \in Seen
  /\ cache = <<>> \/ (\E f \in Seen : cache = <<f>>)
  /\ poolSaw \in Seen \cup {Unknown}

StepInv ==
  /\ app = "starting" => step \in {"router", "pool", "engine", "check", "loading"}
  /\ app = "ready" => step = "loaded"
  /\ step \in {"router", "pool"} => model = 0
  /\ step \in {"engine", "check", "loading", "loaded"} => model # 0

DefaultInv ==
  step \in {"pool", "engine", "check", "loading", "loaded"} =>
    default \in ResolveName(settings.default, RouterAvailable(routerSaw))

ModelInv ==
  model # 0 =>
    /\ model \in DOMAIN Registry
    /\ poolSaw \in Seen
    /\ \A n \in settings.loaded : ResolveName(n, Available(poolSaw)) = {model}
    /\ ~WeightsDoNotFit(Registry[model], poolSaw)

StartupInv == ProbeInv /\ StepInv /\ DefaultInv /\ ModelInv

\* A probe finds what the GPU can have free.
LEMMA ProbeSees == ProbeInv => Probe \in Seen
BY DEF ProbeInv, Probe

\* The initial states.
LEMMA StartupInvInit == StartupInit => StartupInv
<1> SUFFICES ASSUME StartupInit PROVE StartupInv
  OBVIOUS
<1>1. app = "starting" /\ step = "router" /\ cache = <<>> /\ poolSaw = Unknown
      /\ model = 0 /\ settings \in Settings
  BY DEF StartupInit, LifecycleInit
<1>2. free \in Seen
  <2>1. settings.total \in Nat /\ FreeLevels \subseteq Nat
    BY <1>1, StartupConstants
  <2>2. CASE settings.total = 0
    BY <2>2 DEF StartupInit, Seen
  <2>3. CASE settings.total # 0
    <3>1. free \in {f \in FreeLevels : f <= settings.total}
      BY <2>3 DEF StartupInit
    <3>2. QED BY <2>1, <2>3, <3>1 DEF Seen
  <2>4. QED BY <2>2, <2>3
<1>3. QED BY <1>1, <1>2 DEF StartupInv, ProbeInv, StepInv, DefaultInv, ModelInv

\* The pool's resolution is the one thing that has several names.
LEMMA OneModel ==
  ASSUME NEW found, NEW loaded, NEW m,
         \A n \in loaded : found[n] # {},
         UNION {found[n] : n \in loaded} = {m}
  PROVE  \A n \in loaded : found[n] = {m}
<1> SUFFICES ASSUME NEW n \in loaded PROVE found[n] = {m}
  OBVIOUS
<1>1. \A i \in found[n] : i = m
  BY Zenon
<1>2. PICK i \in found[n] : TRUE
  BY Zenon
<1>3. QED BY <1>1, <1>2

\* Every step keeps the invariant.
LEMMA StartupInvStep == StartupInv /\ [StartupNext]_startupVars => StartupInv'
<1> SUFFICES ASSUME StartupInv, [StartupNext]_startupVars PROVE StartupInv'
  OBVIOUS
<1>0. Probe \in Seen
  BY ProbeSees DEF StartupInv
<1> USE DEF StartupInv, ProbeInv, StepInv, DefaultInv, ModelInv
<1>1. ASSUME settings' = settings
      PROVE  Seen' = Seen
  BY <1>1 DEF Seen
<1> USE DEF ResolveName, RouterAvailable, Available, Total, Tier
<1>2. CASE BuildRouter
  <2>1. /\ app = "starting" /\ step = "router" /\ model = 0
        /\ cache' = <<Probe>> /\ routerSaw' = Probe
        /\ UNCHANGED <<settings, free, poolSaw, model>>
    BY <1>2 DEF BuildRouter
  <2>2. CASE Raise
    BY <1>0, <1>1, <2>1, <2>2 DEF Raise
  <2>3. CASE ~Raise
    <3>1. /\ default' \in ResolveName(settings.default, RouterAvailable(Probe))
          /\ GoesOnTo("pool")
      BY <1>2, <2>3 DEF BuildRouter
    <3>2. QED BY <1>0, <1>1, <2>1, <3>1 DEF GoesOnTo
  <2>4. QED BY <2>2, <2>3
<1>3. CASE BuildPool
  <2>1. /\ app = "starting" /\ step = "pool" /\ model = 0
        /\ cache' = <<Probe>> /\ poolSaw' = Probe
        /\ UNCHANGED <<settings, free, routerSaw, default>>
    BY <1>3 DEF BuildPool
  <2>2. CASE Raise /\ UNCHANGED model
    BY <1>0, <1>1, <2>1, <2>2 DEF Raise
  <2>3. CASE ~(Raise /\ UNCHANGED model)
    <3> DEFINE found == [n \in settings.loaded |-> ResolveName(n, Available(Probe))]
               distinct == UNION {found[n] : n \in settings.loaded}
    <3>1. /\ model' \in distinct /\ GoesOnTo("engine")
          /\ Cardinality(distinct) = 1
          /\ \A n \in settings.loaded : found[n] # {}
          /\ ~WeightsDoNotFit(Registry[model'], Probe)
      BY <1>3, <2>3 DEF BuildPool
    <3>2. distinct = {model'} /\ model' \in DOMAIN Registry
      <4>1. ASSUME NEW n \in settings.loaded
            PROVE  found[n] \subseteq DOMAIN Registry
        BY DEF Registered, SelectVariant, Fitting, Variants
      <4>2. IsFiniteSet(DOMAIN Registry)
        BY StartupConstants, LenProperties, FS_Interval
      <4>3. distinct \subseteq DOMAIN Registry /\ IsFiniteSet(distinct)
        <5>1. distinct \subseteq DOMAIN Registry
          <6>1. SUFFICES ASSUME NEW m \in distinct PROVE m \in DOMAIN Registry
            OBVIOUS
          <6> HIDE DEF found
          <6>2. PICK n \in settings.loaded : m \in found[n]
            OBVIOUS
          <6>3. found[n] \subseteq DOMAIN Registry
            BY <4>1 DEF found
          <6>4. QED BY <6>2, <6>3
        <5>2. QED BY <4>2, <5>1, FS_Subset
      <4>4. PICK m : distinct = {m}
        BY <3>1, <4>3, FS_Singleton
      <4>5. model' = m
        BY <3>1, <4>4
      <4>6. QED BY <3>1, <4>3, <4>4, <4>5
    <3>3. \A n \in settings.loaded : ResolveName(n, Available(Probe)) = {model'}
      <4> HIDE DEF ResolveName, Available
      <4>1. \A n \in settings.loaded : found[n] = {model'}
        BY <3>1, <3>2, OneModel
      <4>2. QED BY <4>1
    <3>4. ModelInv'
      <4>1. model' \in DOMAIN Registry
        BY <3>2
      <4>2. poolSaw' \in Seen'
        BY <1>0, <1>1, <2>1
      <4>3. \A n \in settings.loaded : ResolveName(n, Available(poolSaw))' = {model'}
        BY <2>1, <3>3
      <4> HIDE DEF ResolveName, Available, Total, Tier
      <4>4. QED BY <2>1, <3>1, <4>1, <4>2, <4>3
    <3>5. ProbeInv'
      BY <1>0, <1>1, <2>1
    <3>6. model' # 0
      <4>1. DOMAIN Registry = 1..Len(Registry) /\ Len(Registry) \in Nat
        BY StartupConstants, LenProperties
      <4>2. QED BY <3>2, <4>1
    <3>7. StepInv'
      BY <2>1, <3>1, <3>6 DEF GoesOnTo
    <3>8. DefaultInv'
      BY <2>1
    <3> HIDE DEF ProbeInv, StepInv, DefaultInv, ModelInv
    <3>9. QED BY <3>4, <3>5, <3>7, <3>8
  <2>4. QED BY <2>2, <2>3
<1>4. CASE PrepareEngine
  <2>1. /\ app = "starting" /\ step = "engine"
        /\ UNCHANGED <<settings, free, cache, routerSaw, poolSaw, default, model>>
        /\ Raise \/ GoesOnTo("check")
    BY <1>4 DEF PrepareEngine
  <2>2. QED BY <1>1, <2>1 DEF Raise, GoesOnTo
<1>5. CASE CheckBudget
  <2>1. /\ app = "starting" /\ step = "check" /\ cache' = <<Probe>>
        /\ UNCHANGED <<settings, free, routerSaw, poolSaw, default, model>>
        /\ Raise \/ GoesOnTo("loading")
    BY <1>5 DEF CheckBudget
  <2>2. QED BY <1>0, <1>1, <2>1 DEF Raise, GoesOnTo
<1>6. CASE LoadEngine
  <2>1. /\ app = "starting" /\ step = "loading" /\ cache' = <<>>
        /\ UNCHANGED <<settings, free, routerSaw, poolSaw, default, model>>
        /\ \/ app' = "ready" /\ step' = "loaded"
           \/ app' = "failed" /\ step' = "raised"
    BY <1>6 DEF LoadEngine, Raise
  <2>2. QED BY <1>1, <2>1
<1>7. CASE OtherProcess
  <2>1. /\ free # Unknown /\ free' \in FreeLevels /\ free' <= settings.total
        /\ UNCHANGED <<app, step, settings, cache, routerSaw, poolSaw, default, model>>
    BY <1>7 DEF OtherProcess, lifecycleVars
  <2>2. free' \in Seen
    <3>1. FreeLevels \subseteq Nat /\ settings.total \in Nat
      BY StartupConstants
    <3>2. QED BY <2>1, <3>1 DEF Seen
  <2>3. QED BY <1>1, <2>1, <2>2
<1>8. CASE ProbeExpires
  BY <1>1, <1>8 DEF ProbeExpires, lifecycleVars
<1>9. CASE Serving /\ UNCHANGED startupOnlyVars
  <2>1. app' \in {app, "stopped", "stuck"} /\ UNCHANGED startupOnlyVars
    BY <1>9 DEF Serving, Shutdown, Resolve, Handles, Built, Admit, AnswersAtOnce,
                Finish, Leaves
  <2>2. QED BY <1>1, <2>1 DEF startupOnlyVars
<1>10. CASE UNCHANGED startupVars
  BY <1>1, <1>10 DEF startupVars, startupOnlyVars, lifecycleVars
<1>11. QED
  BY <1>2, <1>3, <1>4, <1>5, <1>6, <1>7, <1>8, <1>9, <1>10
     DEF StartupNext, InitializeStep

\* The invariant holds of every behaviour.
LEMMA StartupInvariant == StartupSpec => []StartupInv
BY StartupInvInit, StartupInvStep, PTL DEF StartupSpec

-----------------------------------------------------------------------------

\* When router and pool see the same memory, the default is the model that is
\* loaded (deps.py:99 and :156).
THEOREM DefaultAlwaysServed == StartupSpec => []DefaultIsServed
<1>1. StartupInv => DefaultIsServed
  <2> SUFFICES ASSUME StartupInv, app = "ready",
                      settings.loaded = {settings.default}, routerSaw = poolSaw
               PROVE  Served(settings.default) /\ default = model
    BY DEF DefaultIsServed
  <2>1. step = "loaded" /\ model # 0
    BY DEF StartupInv, StepInv
  <2>2. ResolveName(settings.default, Available(poolSaw)) = {model}
    BY <2>1 DEF StartupInv, ModelInv
  <2>3. default \in ResolveName(settings.default, Available(poolSaw))
    BY <2>1 DEF StartupInv, DefaultInv, RouterAvailable
  <2>4. default = model
    BY <2>2, <2>3
  <2>5. QED BY <2>2, <2>4 DEF Served, Routed, ResolveName
<1>2. QED BY <1>1, StartupInvariant, PTL

\* The model that is chosen from a family was selected in the memory the pool
\* saw.
LEMMA ChosenIsSelected ==
  ASSUME StartupInv, model # 0, NEW n \in settings.loaded, Registered(n) = {}
  PROVE  /\ model \in SelectVariant(Registry, n, Available(poolSaw), Tier)
         /\ model \in DOMAIN Registry /\ Registry[model] \in ModelEntry
         /\ Tier \in VramTier /\ Tier.ceiling <= PoolGpuHeadroom
         /\ Total \in Nat \ {0} /\ Available(poolSaw) \in Nat /\ Available(poolSaw) <= Total
         /\ poolSaw \in Nat \cup {Unknown}
<1>1. ResolveName(n, Available(poolSaw)) = {model}
  BY DEF StartupInv, ModelInv
<1>2. model \in SelectVariant(Registry, n, Available(poolSaw), Tier)
  BY <1>1 DEF ResolveName
<1>3. model \in DOMAIN Registry
  BY DEF StartupInv, ModelInv
<1>4. Registry[model] \in ModelEntry
  BY <1>3, StartupConstants
<1>5. settings.total \in Nat /\ poolSaw \in Seen
  BY StartupConstants DEF StartupInv, ProbeInv, ModelInv
<1>6. ResolveTier(settings.total, Tiers) \in DOMAIN Tiers
  BY <1>5, StartupConstants, TierExists
<1>7. Tier \in VramTier /\ Tier.ceiling <= PoolGpuHeadroom
  BY <1>6, StartupConstants, CeilingsWithinHeadroom DEF Tier
<1>8. Total \in Nat \ {0} /\ Available(poolSaw) \in Nat /\ Available(poolSaw) <= Total
  BY <1>5 DEF Total, Available, Seen, GiB, Unknown
<1>9. QED BY <1>2, <1>3, <1>4, <1>5, <1>7, <1>8 DEF Seen

\* A variant chosen from a family is granted the memory of its weights, to half
\* of the last digit of its utilisation, whatever the user's cap (variant_selector.py:63, vllm_pool_config.py:307).
THEOREM VariantsGetTheirWeights == StartupSpec => []VariantGetsItsWeights
<1>1. StartupInv => VariantGetsItsWeights
  <2> SUFFICES ASSUME StartupInv, model # 0,
                      NEW n \in settings.loaded, Registered(n) = {}
               PROVE  2 * 10000 * WeightEstimate(Registry[model]) <= (2 * Utilization + 1) * Total
    BY DEF VariantGetsItsWeights, ChosenFromFamily
  <2> DEFINE m == Registry[model]
             available == Available(poolSaw)
  <2>1. /\ m \in ModelEntry /\ Tier \in VramTier /\ Tier.ceiling <= PoolGpuHeadroom
        /\ Total \in Nat \ {0} /\ available \in Nat /\ available <= Total
        /\ poolSaw \in Nat \cup {Unknown}
    BY ChosenIsSelected
  <2>2. 100 * WeightEstimate(m) <= available * Tier.ceiling
    BY ChosenIsSelected DEF SelectVariant, Fitting, Fits
  <2>3. WeightEstimate(m) \in Nat
    BY <2>1, EstimateTypes
  <2>4. Tier.ceiling \in 0..92
    BY <2>1 DEF VramTier, PoolGpuHeadroom
  <2> HIDE DEF available, m
  <2>5. available * Tier.ceiling <= 92 * available
    BY <2>1, <2>4
  <2>6. 92 * available <= 92 * Total
    BY <2>1
  <2>7. 100 * WeightEstimate(m) <= PoolGpuHeadroom * Total
    BY <2>1, <2>2, <2>3, <2>4, <2>5, <2>6 DEF PoolGpuHeadroom
  <2>8. ~WeightsDoNotFit(m, poolSaw)
    BY DEF StartupInv, ModelInv, m
  <2>9. 2 * 10000 * WeightEstimate(m) <= (2 * Granted(m, Total, poolSaw) + 1) * Total
    BY <2>1, <2>7, <2>8, WeightsAreGranted
  <2>10. QED BY <2>9 DEF Utilization, m
<1>2. QED BY <1>1, StartupInvariant, PTL

\* No variant of higher precision would have fitted.
THEOREM MostPreciseIsChosen == StartupSpec => []NoMorePreciseVariantFits
<1>1. StartupInv => NoMorePreciseVariantFits
  <2> SUFFICES ASSUME StartupInv, model # 0, NEW n \in settings.loaded,
                      Registered(n) = {}, NEW i \in Variants(Registry, n),
                      BytesPerParam(Registry[i]) > BytesPerParam(Registry[model])
               PROVE  100 * WeightEstimate(Registry[i]) > Tier.ceiling * Available(poolSaw)
    BY DEF NoMorePreciseVariantFits, ChosenFromFamily
  <2>1. ~Fits(Registry[i], Available(poolSaw), Tier)
    BY ChosenIsSelected, SelectionIsBest, StartupConstants
  <2>2. WeightEstimate(Registry[i]) \in Nat
    BY StartupConstants, EstimateTypes DEF Variants
  <2>3. Tier.ceiling \in Nat /\ Available(poolSaw) \in Nat
    BY ChosenIsSelected DEF VramTier
  <2>4. Tier.ceiling * Available(poolSaw) = Available(poolSaw) * Tier.ceiling
        /\ Tier.ceiling * Available(poolSaw) \in Int
    BY <2>3
  <2>5. QED BY <2>1, <2>2, <2>4 DEF Fits
<1>2. QED BY <1>1, StartupInvariant, PTL

\* An engine is refused for want of memory only if memory was taken since it
\* was sized, whatever the roundings on the way (vllm_engine.py:118-119 and
\* :432, vllm_pool_config.py:340), from MarginCoversRounding on.
THEOREM SizingMeetsTheCheck == StartupSpec => []SizedEngineIsAccepted
<1>1. StartupInv => SizedEngineIsAccepted
  <2> SUFFICES ASSUME StartupInv, step = "check", Probe >= poolSaw, MarginCoversRounding,
                      BudgetRefused(Probe)
               PROVE  FALSE
    BY DEF SizedEngineIsAccepted
  <2>1. model # 0 /\ poolSaw \in Seen /\ Probe \in Seen /\ settings.total \in Nat
    BY ProbeSees, StartupConstants DEF StartupInv, StepInv, ModelInv, ProbeInv
  <2>2. Registry[model] \in ModelEntry
    <3>1. model \in DOMAIN Registry
      BY <2>1 DEF StartupInv, ModelInv
    <3>2. QED BY <3>1, StartupConstants
  <2> DEFINE free0 == RoundedDiv(Probe, 100)
             total0 == RoundedDiv(Total, 100)
             u == Utilization
  <2>3. Probe # Unknown /\ 10000 * free0 < u * total0
    BY DEF BudgetRefused
  <2>4. poolSaw \in Nat /\ Probe \in Nat /\ Total \in Nat \ {0} /\ poolSaw # Unknown
        /\ Total >= 0 /\ Probe >= poolSaw
    BY <2>1, <2>3 DEF Seen, Total, GiB, Unknown
  <2>5. u \in Int /\ u <= 9200 /\ (2 * u - 1) * Total <= 200 * (98 * poolSaw)
    BY <2>2, <2>4, GrantIsBounded DEF Utilization, FreeVramSafety, PoolGpuHeadroom
  <2>6. free0 \in Int /\ 2 * Probe - 100 < 200 * free0
    <3>1. free0 \in Int /\ 2 * Probe - 100 < 2 * free0 * 100
      BY <2>4, RoundedDivBounds
    <3> HIDE DEF free0
    <3>2. QED BY <3>1
  <2>7. total0 \in Int /\ 200 * total0 <= 2 * Total + 100 /\ 2 * Total - 100 < 200 * total0
    <3>1. total0 \in Int /\ 2 * total0 * 100 <= 2 * Total + 100 /\ 2 * Total - 100 < 2 * total0 * 100
      BY <2>4, RoundedDivBounds
    <3> HIDE DEF total0
    <3>2. QED BY <3>1
  <2>8. 400 * poolSaw >= Total + 400 * 4800
    BY DEF MarginCoversRounding
  <2> HIDE DEF u, free0, total0
  <2>9. (2 * u - 1) * Total = 2 * (u * Total) - Total /\ u * Total \in Int
    BY <2>4, <2>5, Z3
  <2>10. CASE u >= 0
    <3>1. u * (200 * total0) <= u * (2 * Total + 100)
      BY <2>4, <2>5, <2>7, <2>10, Z3
    <3>2. /\ u * (200 * total0) = 200 * (u * total0)
          /\ u * (2 * Total + 100) = 2 * (u * Total) + 100 * u
          /\ u * total0 \in Int
      BY <2>4, <2>5, <2>7, Z3
    <3>3. QED BY <2>3, <2>4, <2>5, <2>6, <2>8, <2>9, <3>1, <3>2
  <2>11. CASE u < 0
    <3>1. total0 >= 0 /\ free0 >= 0
      BY <2>4, <2>6, <2>7
    <3>2. u * total0 <= 0
      BY <2>5, <2>7, <2>11, <3>1, Z3
    <3>3. QED BY <2>3, <2>5, <2>6, <2>7, <3>1, <3>2
  <2>12. QED BY <2>5, <2>10, <2>11
<1>2. QED BY <1>1, StartupInvariant, PTL
=============================================================================
