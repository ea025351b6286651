----------------------------- MODULE VramSizing -----------------------------
(***************************************************************************)
(* How a model is chosen and sized for the GPU it finds, as pure           *)
(* operators: the weight, KV-cache and footprint estimates and the         *)
(* utilisation of utils/vllm_pool_config.py, the tier of                   *)
(* utils/vram_tiers.py and the variant of routing/variant_selector.py.     *)
(*                                                                         *)
(* Memory is counted in 1/10000 GiB, parameters in 1/100 of 2^30, bytes    *)
(* per parameter and shares in percent, so that every formula of the code  *)
(* is one over integers.  A quantization string is represented by its      *)
(* class.                                                                  *)
(***************************************************************************)
EXTENDS Integers, Sequences, FiniteSets, Rounding

Unknown == -1      \* a probe without a GPU; a value the entry does not give
GiB == 10000
FreeVramSafety == 98
PoolGpuHeadroom == 92

Least(a, b) == IF a <= b THEN a ELSE b
Greatest(a, b) == IF a >= b THEN a ELSE b

\* What AutoConfig knows of a model: its parameters, those of one embedding
\* matrix, whether lm_head shares it, and the KV cache of one token.
ArchConfig == [params : Nat, embedding : Nat, tied : BOOLEAN, kvPerToken : Nat]
NoConfig == [params |-> 0, embedding |-> 0, tied |-> TRUE, kvPerToken |-> 0]

\* An entry of models.yaml.  named is the count parsed from its path (0 for
\* none) and overhead the margin of its architecture.
ModelEntry ==
  [name : STRING, family : STRING, quantization : {"none", "int8", "int4"},
   named : Nat, config : ArchConfig, maxModelLen : Nat, overhead : Nat,
   userCap : 0..100 \cup {Unknown}]

VramTier == [floor : Nat, ceiling : 0..100]

-----------------------------------------------------------------------------
(***************************************************************************)
(* Estimates.                                                              *)
(***************************************************************************)
BytesPerParam(m) ==
  CASE m.quantization = "int4" -> 55
    [] m.quantization = "int8" -> 100
    [] OTHER                   -> 200

\* The name wins over the configuration; neither known gives 0.
Params(m) == IF m.named # 0 THEN m.named ELSE m.config.params

EmbeddingParams(m) ==
  Least(m.config.embedding * (IF m.config.tied THEN 1 ELSE 2), Params(m))

\* Quantisation leaves the embeddings at two bytes.
WeightEstimate(m) ==
  IF Params(m) = 0 THEN (3 * GiB) \div 2
  ELSE (Params(m) - EmbeddingParams(m)) * BytesPerParam(m) + EmbeddingParams(m) * 200

KvCacheEstimate(m) ==
  IF m.config = NoConfig THEN (4000 * m.maxModelLen) \div 2048
  ELSE m.config.kvPerToken * m.maxModelLen

\* 0.35 GiB of runtime headroom and 0.45 GiB for CUDA graphs.
FootprintEstimate(m) == WeightEstimate(m) + KvCacheEstimate(m) + 8000 + m.overhead

-----------------------------------------------------------------------------
(***************************************************************************)
(* _single_engine_utilization().  Shares of the GPU are multiplied by      *)
(* 100 * total until the last step, which rounds to four digits.           *)
(***************************************************************************)
WeightsDoNotFit(m, free) ==
  free # Unknown /\ 100 * WeightEstimate(m) > FreeVramSafety * free

WithinFree(x, free) == IF free = Unknown THEN x ELSE Least(x, FreeVramSafety * free)

WithinUserCap(x, m, total) ==
  IF m.userCap = Unknown THEN x ELSE Least(x, m.userCap * total)

\* The free memory not looked at.
AllottedOfTotal(m, total, free) ==
  Least(Greatest(WithinUserCap(100 * FootprintEstimate(m), m, total),
                 100 * WeightEstimate(m)),
        PoolGpuHeadroom * total)

\* The weights no longer a floor under the user's cap.
AllottedSansFloor(m, total, free) ==
  Least(WithinUserCap(WithinFree(100 * FootprintEstimate(m), free), m, total),
        PoolGpuHeadroom * total)

Allotted(m, total, free) ==
  LET capped  == WithinUserCap(WithinFree(100 * FootprintEstimate(m), free), m, total)
      floored == Greatest(capped, 100 * WeightEstimate(m))
  IN  Least(WithinFree(floored, free), PoolGpuHeadroom * total)

\* The utilisation granted to the engine, in ten-thousandths of the GPU.
Granted(m, total, free) == RoundedDiv(100 * Allotted(m, total, free), total)

-----------------------------------------------------------------------------
(***************************************************************************)
(* The tier, an index of a sequence that load_tiers() has sorted by floor: *)
(* the last of those cleared without a gap, else the first.                *)
(***************************************************************************)
Sorted(tiers) == \A i, j \in DOMAIN tiers : i < j => tiers[i].floor <= tiers[j].floor

ClearedUpTo(total, tiers) ==
  {i \in DOMAIN tiers : \A j \in 1..i : total >= tiers[j].floor}

\* The cleared ones are 1..k, the last of them is the k-th.
ResolveTier(total, tiers) == Greatest(1, Cardinality(ClearedUpTo(total, tiers)))

-----------------------------------------------------------------------------
(***************************************************************************)
(* Variants: the indices of the registry whose family (or, without one,    *)
(* whose name) is asked for.  select_variant() takes the first that fits   *)
(* in the stable order of decreasing precision.                            *)
(***************************************************************************)
FamilyOf(m) == IF m.family = "" THEN m.name ELSE m.family

Variants(registry, family) == {i \in DOMAIN registry : FamilyOf(registry[i]) = family}

Fits(m, available, tier) == 100 * WeightEstimate(m) <= available * tier.ceiling

LighterFirst(registry, i, j) ==
  \/ BytesPerParam(registry[i]) < BytesPerParam(registry[j])
  \/ BytesPerParam(registry[i]) = BytesPerParam(registry[j]) /\ i < j

Precedes(registry, i, j) ==
  \/ BytesPerParam(registry[i]) > BytesPerParam(registry[j])
  \/ BytesPerParam(registry[i]) = BytesPerParam(registry[j]) /\ i < j

Fitting(registry, family, available, tier) ==
  {i \in Variants(registry, family) : Fits(registry[i], available, tier)}

\* At most one index; none is NoVariantFitsError.
SelectVariant(registry, family, available, tier) ==
  {i \in Fitting(registry, family, available, tier) :
     \A j \in Fitting(registry, family, available, tier) \ {i} : Precedes(registry, i, j)}
=============================================================================
