------------------------- MODULE StartupProperties --------------------------
(***************************************************************************)
(* What startup guarantees about the model it loads and the one it routes  *)
(* to, and that it is the startup AppLifecycle takes for granted.          *)
(***************************************************************************)
EXTENDS Startup, AppLifecycleProperties

ChosenFromFamily == model # 0 /\ \E n \in settings.loaded : Registered(n) = {}

\* When router and pool are given the same name and see the same memory, the
\* model requests fall back to is the one that is loaded: they resolve it
\* separately (deps.py:99 and :156) and must come to the same variant.
DefaultIsServed ==
  app = "ready" /\ settings.loaded = {settings.default} /\ routerSaw = poolSaw
    => Served(settings.default) /\ default = model

\* A variant chosen from a family gets the memory of its weights, less at
\* most half of the last digit that rounding leaves (0.00005 of the GPU):
\* selection measures with the tier's ceiling and sizing with the free
\* memory, the user's cap and a headroom of its own (variant_selector.py:63,
\* vllm_pool_config.py:307), and what the one lets pass the other can grant.
VariantGetsItsWeights ==
  ChosenFromFamily =>
    2 * 10000 * WeightEstimate(Registry[model]) <= (2 * Utilization + 1) * Total

\* Whatever is loaded from a family, no variant of higher precision would
\* have fitted the memory seen.
NoMorePreciseVariantFits ==
  ChosenFromFamily =>
    \A i \in UNION {Variants(Registry, n) : n \in {f \in settings.loaded : Registered(f) = {}}} :
      BytesPerParam(Registry[i]) > BytesPerParam(Registry[model])
        => 100 * WeightEstimate(Registry[i]) > Tier.ceiling * Available(poolSaw)

\* The 2% of the free memory that sizing keeps back are more than what the
\* roundings can add: so from 0.48 GiB and 1/400 of the GPU on.
MarginCoversRounding == 400 * poolSaw >= Total + 400 * 4800

\* An engine is refused for want of memory only if memory was taken since it
\* was sized: sizing and the engine's check, which probe separately and round
\* differently, agree (vllm_engine.py:118-119 and :432, vllm_pool_config.py:340).
SizedEngineIsAccepted ==
  step = "check" /\ Probe >= poolSaw /\ MarginCoversRounding => ~BudgetRefused(Probe)

\* To everybody else startup is one step that raises or loads one engine,
\* and it does come to an end.
ImplementsLifecycle == LifecycleFairSpec
=============================================================================
