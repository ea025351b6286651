---------------------------- MODULE AppLifecycle ----------------------------
(***************************************************************************)
(* The singletons of the process (api/deps.py) over its life: the lifespan *)
(* of the application builds the engine pool before it serves, requests    *)
(* resolve their ChatService from the cached pool and AdmissionController, *)
(* and shutdown stops the engine, if it lets itself be stopped, and clears *)
(* the caches.                                                             *)
(*                                                                         *)
(* get_chat_service() is a synchronous dependency, so FastAPI calls it in  *)
(* a thread of its pool, and several requests may be inside it at once.    *)
(* functools.lru_cache does not lock while it calls the function it wraps: *)
(* two concurrent misses both build, the first to end is cached, and each  *)
(* caller gets the object it built itself.                                 *)
(*                                                                         *)
(* The registry and the router are cached the same way but hold no mutable *)
(* state; they are left out.  The controller's gates are those of module   *)
(* Admission; here a controller only bounds the requests it lets run.      *)
(***************************************************************************)
EXTENDS Integers, FiniteSets

CONSTANTS
  Requests,     \* HTTP requests the process can have in flight
  MaxNumSeqs    \* the ceiling of one controller

ASSUME LifecycleConstants ==
  /\ IsFiniteSet(Requests)
  /\ MaxNumSeqs \in Nat \ {0}

VARIABLES
  app,         \* "starting", "ready", "failed" at startup, "stopped", or
               \* "stuck": stopped, but the engine's own shutdown raised
  pool,        \* the cached EnginePool, None when there is none
  live,        \* the engines that are loaded
  controller,  \* the cached AdmissionController, or None
  pc,          \* per request: "idle", "building" its "pool" or
               \* "controller", "resolved", "running" in the engine
  mine         \* the controller of the request's ChatService, or None

lifecycleVars == <<app, pool, live, controller, pc, mine>>

\* Names of objects: one cached and one per request can be alive at once.
\* A name is used again once nobody holds the object.
None == 0
Names == 1..(Cardinality(Requests) + 1)

Unused(held) == CHOOSE n \in Names : n \notin held

RunningOn(c) == {r \in Requests : pc[r] = "running" /\ mine[r] = c}

-----------------------------------------------------------------------------
(***************************************************************************)
(* initialize_app(), before any request is accepted.  The constructor of   *)
(* the engine may raise; an engine that comes up unhealthy makes startup   *)
(* raise too, with the pool cached and its engine loaded.                  *)
(***************************************************************************)
InitializeApp ==
  /\ app = "starting"
  /\ \/ app' = "failed" /\ UNCHANGED <<pool, live>>
     \/ /\ app' \in {"ready", "failed"}
        /\ pool' = Unused(live)
        /\ live' = live \cup {Unused(live)}
  /\ UNCHANGED <<controller, pc, mine>>

\* get_chat_service() looks the singletons up, the pool first; a miss starts
\* to build.  Building a controller probes the GPU (profile_hardware), so it
\* takes long enough for other threads to come in.
Resolve(r) ==
  /\ app = "ready" /\ pc[r] = "idle"
  /\ pc' = [pc EXCEPT ![r] = IF pool = None THEN "pool"
                             ELSE IF controller = None THEN "controller" ELSE "resolved"]
  /\ mine' = [mine EXCEPT ![r] = controller]
  /\ UNCHANGED <<app, pool, live, controller>>

\* The object is built, stored if the cache is still empty, and returned.
BuiltUncached(r) ==
  /\ pc[r] = "controller"
  /\ mine' = [mine EXCEPT ![r] = Unused({controller} \cup {mine[s] : s \in Requests})]
  /\ pc' = [pc EXCEPT ![r] = "resolved"]
  /\ UNCHANGED <<app, pool, live, controller>>

Built(r) ==
  /\ pc[r] \in {"pool", "controller"}
  /\ IF pc[r] = "pool"
       THEN /\ live' = live \cup {Unused(live)}
            /\ pool' = IF pool = None THEN Unused(live) ELSE pool
            /\ pc' = [pc EXCEPT ![r] = IF controller = None THEN "controller" ELSE "resolved"]
            /\ mine' = [mine EXCEPT ![r] = controller]
            /\ UNCHANGED controller
       ELSE LET own == Unused({controller} \cup {mine[s] : s \in Requests})
            IN  /\ controller' = IF controller = None THEN own ELSE controller
                /\ pc' = [pc EXCEPT ![r] = "resolved"]
                /\ mine' = [mine EXCEPT ![r] = own]
                /\ UNCHANGED <<pool, live>>
  /\ UNCHANGED app

-----------------------------------------------------------------------------
(***************************************************************************)
(* The request with its ChatService, on the event loop.                    *)
(***************************************************************************)
Leaves(r) ==
  /\ pc' = [pc EXCEPT ![r] = "idle"]
  /\ mine' = [mine EXCEPT ![r] = None]
  /\ UNCHANGED <<app, pool, live, controller>>

\* The gate of its own controller lets it run.
Admit(r) ==
  /\ pc[r] = "resolved"
  /\ Cardinality(RunningOn(mine[r])) < MaxNumSeqs
  /\ pc' = [pc EXCEPT ![r] = "running"]
  /\ UNCHANGED <<app, pool, live, controller, mine>>

\* /health, which resolves a ChatService only to ask it for the engine's
\* state, or a request its gate refuses.
AnswersAtOnce(r) == pc[r] = "resolved" /\ Leaves(r)

Finish(r) == pc[r] = "running" /\ Leaves(r)

\* shutdown_app(), after the server has drained its requests: the engine is
\* shut down only when the cache holds a pool.  An exception from the engine's
\* shutdown is logged and swallowed, in the engine, the pool and here; the
\* engine may then go on, while every reference to it is dropped all the same.
ShutdownClearingFirst ==
  /\ app = "ready" /\ \A r \in Requests : pc[r] = "idle"
  /\ app' = "stopped"
  /\ pool' = None /\ controller' = None
  /\ UNCHANGED <<live, pc, mine>>

Shutdown ==
  /\ app = "ready" /\ \A r \in Requests : pc[r] = "idle"
  /\ \/ app' = "stopped" /\ live' = live \ {pool}
     \/ app' = "stuck" /\ live' = live
  /\ pool' = None /\ controller' = None
  /\ UNCHANGED <<pc, mine>>

-----------------------------------------------------------------------------

LifecycleInit ==
  /\ app = "starting"
  /\ pool = None /\ live = {} /\ controller = None
  /\ pc = [r \in Requests |-> "idle"]
  /\ mine = [r \in Requests |-> None]

Handles(r) == Built(r) \/ Admit(r) \/ AnswersAtOnce(r) \/ Finish(r)

LifecycleNext ==
  \/ InitializeApp \/ Shutdown
  \/ \E r \in Requests : Resolve(r) \/ Handles(r)

LifecycleSpec == LifecycleInit /\ [][LifecycleNext]_lifecycleVars

(***************************************************************************)
(* Startup returns, threads run, and every request ends: what the service  *)
(* is shown to ensure (EveryRequestEnds) for a client that reads or leaves.*)
(***************************************************************************)
LifecycleFairSpec ==
  /\ LifecycleSpec
  /\ WF_lifecycleVars(InitializeApp)
  /\ \A r \in Requests : WF_lifecycleVars(Handles(r))
=============================================================================
