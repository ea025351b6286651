----------------------- MODULE AppLifecycleProperties ------------------------
(***************************************************************************)
(* What the process guarantees about its singletons.                       *)
(***************************************************************************)
EXTENDS AppLifecycle

\* The process never holds two engines, however many requests resolve the
\* pool at once: one process has the memory for one model (deps.py:87-93).
OneEngineLoaded == Cardinality(live) <= 1

\* No engine is loaded that nobody could stop any more: whatever is loaded is
\* in the cached pool, where shutdown_app() finds it (deps.py:275), from the
\* start to a start that failed, and after a shutdown nothing is loaded.  The
\* one exception is an engine whose own shutdown raised: the exception is
\* swallowed (vllm_engine.py:698, pool.py:61, deps.py:279) and the engine given up.
EngineReleasedAtShutdown ==
  /\ app # "stuck" => live \subseteq {pool}
  /\ app = "stopped" => live = {}

\* Requests that raced to build the controller may each hold their own, but
\* not for ever: from some time on, all requests share the cached one.
SettlesOnOneController ==
  <>[](\A r \in Requests : mine[r] \in {None, controller})

\* All the requests running in the engine are within the ceiling of one
\* controller (admission.py:11-12).  It fails after a race to build it.
EngineCeilingHolds ==
  Cardinality({r \in Requests : pc[r] = "running"}) <= MaxNumSeqs
=============================================================================
