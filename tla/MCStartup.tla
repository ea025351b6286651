----------------------------- MODULE MCStartup ------------------------------
(***************************************************************************)
(* A 4 GiB GPU, a family of three variants (3, 1.7 and 1.1 GiB of weights) *)
(* of which the int4 one has a user cap below its weights, which rounding  *)
(* cuts to 28.01% of the GPU, and one model without family or known size.  *)
(***************************************************************************)
EXTENDS StartupProperties

MCArch == [params |-> 150, embedding |-> 10, tied |-> FALSE, kvPerToken |-> 1]

MCQwen(name, quantization, cap) ==
  [name |-> name, family |-> "qwen", quantization |-> quantization, named |-> 151,
   config |-> MCArch, maxModelLen |-> 2048, overhead |-> 0, userCap |-> cap]

MCRegistry ==
  << MCQwen("qwen-int8", "int8", Unknown), MCQwen("qwen-awq", "int4", 20),
     MCQwen("qwen-bf16", "none", Unknown),
     [MCQwen("opt", "none", Unknown) EXCEPT !.family = "", !.named = 0, !.config = NoConfig] >>

MCTiers == << [floor |-> 2 * GiB, ceiling |-> 90],
              [floor |-> 6 * GiB, ceiling |-> 92] >>

MCOn(total, name, loaded, tiersFile) ==
  [total |-> total, default |-> name, loaded |-> loaded, tiersFile |-> tiersFile]

MCSettings ==
  { MCOn(4 * GiB, "qwen", {"qwen"}, TRUE), MCOn(4 * GiB, "opt", {"opt"}, FALSE),
    MCOn(4 * GiB, "opt", {"qwen"}, TRUE), MCOn(4 * GiB, "qwen", {"qwen", "opt"}, TRUE),
    MCOn(4 * GiB, "qwen", {"qwen"}, FALSE), MCOn(0, "qwen", {"qwen"}, TRUE) }

MCFreeLevels == {5000, 13000, 25000, 40000}
=============================================================================
