------------------------------ MODULE Startup -------------------------------
(***************************************************************************)
(* The start of a server process in its steps (initialize_app(),           *)
(* api/deps.py): the router resolves its default model, the pool resolves  *)
(* the model to load, sizes it, and constructs the engine.  Each of the    *)
(* three probes the free memory of the GPU, which other processes (the     *)
(* other server of a comparison among them) change meanwhile; a probe is   *)
(* cached for two seconds.  Once the process is ready, or has failed, it   *)
(* goes on as module AppLifecycle describes.                               *)
(***************************************************************************)
EXTENDS AppLifecycle, VramSizing

CONSTANTS
  Registry,    \* the entries of models.yaml, in their order
  Tiers,       \* the tiers of vram_tiers.yaml, sorted by floor
  Settings,    \* what the environment and the machine may be: [default,
               \* loaded (a set of names), total (0 without a GPU), tiersFile]
  FreeLevels   \* the amounts of free memory a probe can see

ASSUME StartupConstants ==
  /\ Registry \in Seq(ModelEntry)
  /\ \A i, j \in DOMAIN Registry : Registry[i].name = Registry[j].name => i = j
  /\ Tiers \in Seq(VramTier) /\ Tiers # <<>> /\ Sorted(Tiers)
  /\ FreeLevels \subseteq Nat
  /\ \A s \in Settings : s.total \in Nat /\ s.tiersFile \in BOOLEAN

\* The ceilings of vram_tiers.yaml are within the headroom sizing keeps.
ASSUME CeilingsWithinHeadroom == \A i \in DOMAIN Tiers : Tiers[i].ceiling <= PoolGpuHeadroom

VARIABLES
  step,       \* what initialize_app() does next
  settings,   \* the settings of this process
  free,       \* the GPU's free memory, Unknown without a GPU
  cache,      \* the cached probe: <<>> or <<free>>
  routerSaw,  \* the free memory the router's probe saw
  poolSaw,    \* the free memory the pool's probe saw
  default,    \* the router's default model, an index of Registry, 0 for none
  model       \* the model the pool loads, likewise

startupOnlyVars == <<step, settings, free, cache, routerSaw, poolSaw, default, model>>
startupVars == <<lifecycleVars, startupOnlyVars>>

-----------------------------------------------------------------------------

\* probe_gpu_memory_gib(); a probe that finds no GPU is Unknown.
Probe == IF cache = <<>> THEN free ELSE cache[1]

Total == IF settings.total = 0 THEN 8 * GiB ELSE settings.total

\* What a probe leaves to choose a variant by, for the pool and the router.
Available(saw) == IF saw = Unknown THEN Total ELSE saw

AvailableOfTotal(saw) == Total
RouterAvailable(saw) == Available(saw)

\* The tier of the whole GPU's memory; without the file, none.
Tier == Tiers[ResolveTier(settings.total, Tiers)]

Registered(name) == {i \in DOMAIN Registry : Registry[i].name = name}

\* A concrete name stands for itself, a family for its best variant; no
\* result is an error raised.
ResolveName(name, available) ==
  IF Registered(name) # {} THEN Registered(name)
  ELSE IF settings.tiersFile THEN SelectVariant(Registry, name, available, Tier)
  ELSE {}

\* TaskRouter.select(): a registered name passes, any other gets the default.
Routed(name) == IF Registered(name) # {} THEN Registered(name) ELSE {default}

\* EnginePool.get() has the engine of the routed model.
Served(name) == Routed(name) = {model}

\* The utilisation of the engine, in ten-thousandths of the GPU.
Utilization == Granted(Registry[model], Total, poolSaw)

-----------------------------------------------------------------------------
(***************************************************************************)
(* The environment, while the process starts.                              *)
(***************************************************************************)
OtherProcess ==
  /\ app = "starting" /\ free # Unknown
  /\ \E f \in FreeLevels : f <= settings.total /\ free' = f
  /\ UNCHANGED <<lifecycleVars, step, settings, cache, routerSaw, poolSaw, default, model>>

ProbeExpires ==
  /\ app = "starting" /\ cache # <<>>
  /\ cache' = <<>>
  /\ UNCHANGED <<lifecycleVars, step, settings, free, routerSaw, poolSaw, default, model>>

-----------------------------------------------------------------------------
(***************************************************************************)
(* The steps of initialize_app().  An exception ends the process before it *)
(* serves.                                                                 *)
(***************************************************************************)
Raise ==
  /\ app' = "failed" /\ step' = "raised"
  /\ UNCHANGED <<pool, live>>

GoesOnTo(s) == step' = s /\ UNCHANGED <<app, pool, live>>

\* _build_router(): DefaultModelPolicy refuses an unregistered default.
BuildRouter ==
  /\ app = "starting" /\ step = "router"
  /\ cache' = <<Probe>> /\ routerSaw' = Probe
  /\ LET found == ResolveName(settings.default, RouterAvailable(Probe))
     IN  \/ found = {} /\ Raise /\ UNCHANGED default
         \/ \E i \in found : default' = i /\ GoesOnTo("pool")
  /\ UNCHANGED <<controller, pc, mine, settings, free, poolSaw, model>>

\* _build_engine_pool(): exactly one distinct model, whose weights fit.
BuildPool ==
  /\ app = "starting" /\ step = "pool"
  /\ cache' = <<Probe>> /\ poolSaw' = Probe
  /\ LET found == [n \in settings.loaded |-> ResolveName(n, Available(Probe))]
         distinct == UNION {found[n] : n \in settings.loaded}
         unsuited == \/ \E n \in settings.loaded : found[n] = {}
                     \/ Cardinality(distinct) # 1
                     \/ \E i \in distinct : WeightsDoNotFit(Registry[i], Probe)
     IN  \/ unsuited /\ Raise /\ UNCHANGED model
         \/ /\ ~unsuited
            /\ \E i \in distinct : model' = i
            /\ GoesOnTo("engine")
  /\ UNCHANGED <<controller, pc, mine, settings, free, routerSaw, default>>

\* VLLMEngine() up to its own look at the GPU: vLLM may be missing, and
\* Hugging Face may refuse access to the model or not know it.
PrepareEngine ==
  /\ app = "starting" /\ step = "engine"
  /\ Raise \/ GoesOnTo("check")
  /\ UNCHANGED <<controller, pc, mine, settings, free, cache, routerSaw, poolSaw, default, model>>

\* _check_vram_budget(), on a probe of its own; free and total memory are
\* rounded to hundredths of a GiB before they are compared.
BudgetRefused(saw) ==
  /\ saw # Unknown
  /\ 10000 * RoundedDiv(saw, 100) < Utilization * RoundedDiv(Total, 100)

CheckBudget ==
  /\ app = "starting" /\ step = "check"
  /\ cache' = <<Probe>>
  /\ IF BudgetRefused(Probe) THEN Raise ELSE GoesOnTo("loading")
  /\ UNCHANGED <<controller, pc, mine, settings, free, routerSaw, poolSaw, default, model>>

\* AsyncLLM.from_engine_args() raises, or gives an engine that is healthy or
\* not; loading takes longer than a probe stays cached.
LoadEngineHalfway ==
  /\ app = "starting" /\ step = "loading"
  /\ step' = "raised" /\ app' = "failed"
  /\ live' = live \cup {Unused(live)} /\ cache' = <<>>
  /\ UNCHANGED <<pool, controller, pc, mine, settings, free, routerSaw, poolSaw, default, model>>

LoadEngineUncached ==
  /\ app = "starting" /\ step = "loading"
  /\ step' = "loaded" /\ app' = "ready"
  /\ live' = live \cup {Unused(live)} /\ cache' = <<>>
  /\ UNCHANGED <<pool, controller, pc, mine, settings, free, routerSaw, poolSaw, default, model>>

LoadEngine ==
  /\ app = "starting" /\ step = "loading"
  /\ \/ Raise
     \/ /\ app' \in {"ready", "failed"}
        /\ step' = IF app' = "ready" THEN "loaded" ELSE "raised"
        /\ pool' = Unused(live)
        /\ live' = live \cup {Unused(live)}
  /\ cache' = <<>>
  /\ UNCHANGED <<controller, pc, mine, settings, free, routerSaw, poolSaw, default, model>>

-----------------------------------------------------------------------------

StartupInit ==
  /\ LifecycleInit
  /\ settings \in Settings
  /\ free \in IF settings.total = 0 THEN {Unknown} ELSE {f \in FreeLevels : f <= settings.total}
  /\ step = "router" /\ cache = <<>>
  /\ routerSaw = Unknown /\ poolSaw = Unknown
  /\ default = 0 /\ model = 0

InitializeStep == BuildRouter \/ BuildPool \/ PrepareEngine \/ CheckBudget \/ LoadEngine

Serving == Shutdown \/ \E r \in Requests : Resolve(r) \/ Handles(r)

StartupNext ==
  \/ InitializeStep \/ OtherProcess \/ ProbeExpires
  \/ Serving /\ UNCHANGED startupOnlyVars

StartupSpec == StartupInit /\ [][StartupNext]_startupVars

(***************************************************************************)
(* Startup is a sequence of calls that each return or raise; requests end  *)
(* as in AppLifecycle.                                                     *)
(***************************************************************************)
StartupFairSpec ==
  /\ StartupSpec
  /\ WF_startupVars(InitializeStep)
  /\ \A r \in Requests : WF_startupVars(Handles(r) /\ UNCHANGED startupOnlyVars)
=============================================================================
