--------------------------- MODULE AdmissionGates ---------------------------
(***************************************************************************)
(* The synchronous half of AdmissionController.admit(): the context gate   *)
(* (gate 2) and the KV-budget gate (gate 3) of routing/admission.py.       *)
(*                                                                         *)
(* Both gates run without an await, so one admission decision is a pure    *)
(* function of the request and of the tokens reserved at that instant.     *)
(* Token counts are naturals.  The KV budget is capacity * margin, a       *)
(* float in the code; every comparison the code makes against it has an    *)
(* integer on the other side, so its floor decides the same way and        *)
(* int(available) is that floor.                                           *)
(*                                                                         *)
(* An operator standing right before the one whose name it extends         *)
(* (OverContextAtLimit before OverContext) is a deliberately wrong form of *)
(* it, used by nothing: put in its place, it must break the property that  *)
(* PROJECT.json names for it.  The same holds in the other modules.        *)
(***************************************************************************)
EXTENDS Integers

CONSTANTS
  None,             \* Python's None: a limit or a count that is absent
  TierContextCap,   \* VramTier.max_model_len_cap, None when no tier resolved
  EntryContextCap,  \* ModelEntry.max_model_len of the routed model, or None
  KvCapacity,       \* engine.kv_capacity_tokens, None when not reported
  MarginPercent,    \* kv_safety_margin, in percent (90)
  DefaultContextCap,\* context ceiling without a tier (4096)
  DefaultOutput,    \* output tokens when the request names none (512)
  MinClamped,       \* _MIN_CLAMPED_OUTPUT_TOKENS (16)
  CharsPerToken     \* _CHARS_PER_TOKEN_FALLBACK (4)

Positive == Nat \ {0}

ASSUME GateConstants ==
  /\ None \notin Int
  /\ TierContextCap \in Positive \cup {None}
  /\ EntryContextCap \in Positive \cup {None}
  /\ KvCapacity \in Nat \cup {None}
  /\ MarginPercent \in 1..100
  /\ DefaultContextCap \in Positive
  /\ DefaultOutput \in Positive
  /\ MinClamped \in Positive
  /\ CharsPerToken \in Positive

(***************************************************************************)
(* The fields of a ChatCompletionRequest that admission reads, with what   *)
(* the engine's count_prompt_tokens() answers for its messages.            *)
(***************************************************************************)
Request ==
  [priority  : {"interactive", "batch"},
   strict    : BOOLEAN,
   counted   : Nat \cup {None},       \* engine.count_prompt_tokens(request)
   chars     : Nat,                   \* total length of the message contents
   maxOutput : Positive \cup {None},  \* max_output_tokens
   maxTokens : Positive \cup {None},  \* max_tokens
   maxContext: Positive \cup {None}]  \* max_context_tokens

-----------------------------------------------------------------------------

Lesser(a, b)  == IF a <= b THEN a ELSE b
Greater(a, b) == IF a >= b THEN a ELSE b

\* value, or the fallback when it is None.
Given(value, fallback) == IF value = None THEN fallback ELSE value

\* A ceiling narrowed by a limit that may be absent.
Tightened(ceiling, limit) == IF limit = None THEN ceiling ELSE Lesser(ceiling, limit)

ContextCeiling(q) ==
  Tightened(Tightened(Given(TierContextCap, DefaultContextCap), EntryContextCap),
            q.maxContext)

RequestedOutput(q) == Given(q.maxOutput, Given(q.maxTokens, DefaultOutput))

\* The engine's count, or the chars/4 estimate that stands in for it.
PromptTokens(q) == Given(q.counted, Greater(1, q.chars \div CharsPerToken))

-----------------------------------------------------------------------------
\* Gate 2: the context ceiling.

ContextRoom(q) == ContextCeiling(q) - PromptTokens(q)

OverContextAtLimit(q) == PromptTokens(q) + RequestedOutput(q) >= ContextCeiling(q)

OverContext(q) == PromptTokens(q) + RequestedOutput(q) > ContextCeiling(q)

ContextRejectsMinimum(q) ==
  \/ PromptTokens(q) > ContextCeiling(q)
  \/ OverContext(q) /\ (q.priority = "batch" \/ ContextRoom(q) <= MinClamped)

\* The two conditions under which gate 2 raises ContextTooLongError.
ContextRejects(q) ==
  \/ PromptTokens(q) > ContextCeiling(q)
  \/ OverContext(q) /\ (q.priority = "batch" \/ ContextRoom(q) < MinClamped)

ContextOutput(q) == IF OverContext(q) THEN ContextRoom(q) ELSE RequestedOutput(q)

-----------------------------------------------------------------------------
\* Gate 3: the KV budget left by the reservations held right now.

KvGateRuns == KvCapacity # None

KvBudget == (KvCapacity * MarginPercent) \div 100

KvAvailableSansPrompt(q, reservedNow) == KvBudget - reservedNow
KvAvailableSansReserved(q, reservedNow) == KvBudget - PromptTokens(q)
KvAvailableAdding(q, reservedNow) == KvBudget + reservedNow - PromptTokens(q)

KvAvailable(q, reservedNow) == KvBudget - reservedNow - PromptTokens(q)

OverBudget(q, reservedNow) ==
  KvGateRuns /\ KvAvailable(q, reservedNow) < ContextOutput(q)

\* The condition under which gate 3 raises EngineSaturatedError.
BudgetRejects(q, reservedNow) ==
  /\ OverBudget(q, reservedNow)
  /\ q.priority = "batch" \/ KvAvailable(q, reservedNow) < MinClamped

EffectiveOutput(q, reservedNow) ==
  IF OverBudget(q, reservedNow)
    THEN Greater(MinClamped, KvAvailable(q, reservedNow))
    ELSE ContextOutput(q)

-----------------------------------------------------------------------------
(***************************************************************************)
(* The outcome of the two gates, in the order the code tests them:         *)
(* "context" (400), "strict" (400), "saturated" (429) or "admitted".       *)
(***************************************************************************)
VerdictStrictOnContextOnly(q, reservedNow) ==
  IF ContextRejects(q) THEN "context"
  ELSE IF OverContext(q) /\ q.strict THEN "strict"
  ELSE IF BudgetRejects(q, reservedNow) THEN "saturated"
  ELSE "admitted"

Verdict(q, reservedNow) ==
  IF ContextRejects(q) THEN "context"
  ELSE IF OverContext(q) /\ q.strict THEN "strict"
  ELSE IF BudgetRejects(q, reservedNow) THEN "saturated"
  ELSE IF OverBudget(q, reservedNow) /\ q.strict THEN "strict"
  ELSE "admitted"

ReservedTokens(q, reservedNow) == PromptTokens(q) + EffectiveOutput(q, reservedNow)

\* Codes of the ResponseWarnings of type "substituted" on an admitted request.
Substitutions(q, reservedNow) ==
  {c \in {"max_tokens_clamped_to_context", "max_tokens_clamped_to_kv_budget"} :
     \/ c = "max_tokens_clamped_to_context"   /\ OverContext(q)
     \/ c = "max_tokens_clamped_to_kv_budget" /\ OverBudget(q, reservedNow)}

\* Codes of type "degraded": what admission could not check and let through.
Degradations(q) ==
  {c \in {"sequence_gate_skipped", "prompt_tokens_estimated", "kv_gate_skipped"} :
     \/ c = "sequence_gate_skipped"   /\ TierContextCap = None
     \/ c = "prompt_tokens_estimated" /\ q.counted = None
     \/ c = "kv_gate_skipped"         /\ ~KvGateRuns}
=============================================================================
