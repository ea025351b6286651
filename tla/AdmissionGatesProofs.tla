------------------------ MODULE AdmissionGatesProofs ------------------------
(***************************************************************************)
(* The promises of AdmissionContract, for every request and every value of *)
(* the limits: the two gates are plain arithmetic, so each promise follows *)
(* from the types of the few numbers it compares.                          *)
(***************************************************************************)
EXTENDS AdmissionPressure, TLAPS

\* The numbers the gates compare are integers (natural for the prompt count,
\* positive for ceilings and requested output).
LEMMA GateTypes ==
  ASSUME NEW q \in Request
  PROVE  /\ PromptTokens(q) \in Nat
         /\ RequestedOutput(q) \in Positive
         /\ ContextCeiling(q) \in Positive
         /\ KvGateRuns => KvBudget \in Nat
<1>1. PromptTokens(q) \in Nat
  BY GateConstants DEF Request, PromptTokens, Given, Greater, Positive
<1>2. RequestedOutput(q) \in Positive
  BY GateConstants DEF Request, RequestedOutput, Given, Positive
<1>3. ContextCeiling(q) \in Positive
  BY GateConstants DEF Request, ContextCeiling, Tightened, Given, Lesser, Positive
<1>4. KvGateRuns => KvBudget \in Nat
  BY GateConstants DEF KvGateRuns, KvBudget
<1>5. QED BY <1>1, <1>2, <1>3, <1>4

\* A request whose whole output fits is admitted untouched.
THEOREM WholeRequestsAdmitted ==
  ASSUME NEW q \in Request, NEW level \in Nat
  PROVE  WholeRequestsPass(q, level)
<1>1. SUFFICES ASSUME FitsWhole(q, level)
               PROVE  ~OverContext(q) /\ ~OverBudget(q, level)
                      /\ ~(PromptTokens(q) > ContextCeiling(q))
  BY DEF WholeRequestsPass, Verdict, EffectiveOutput, Substitutions, ContextRejects,
         BudgetRejects, ContextOutput
<1>2. ~OverContext(q) /\ ~(PromptTokens(q) > ContextCeiling(q))
  BY <1>1, GateTypes DEF FitsWhole, Fits, OverContext, Positive
<1>3. ~OverBudget(q, level)
  BY <1>1, <1>2, GateTypes
     DEF FitsWhole, Fits, OverBudget, KvAvailable, ContextOutput, Positive
<1>4. QED BY <1>2, <1>3

\* A clamped admission is the largest output that fits, and only happens to
\* an interactive request that is not strict.
THEOREM ClampedToLargestFit ==
  ASSUME NEW q \in Request, NEW level \in Nat
  PROVE  ClampIsLargestFit(q, level)
<1> DEFINE out == EffectiveOutput(q, level)
<1>1. SUFFICES ASSUME Verdict(q, level) = "admitted", ~FitsWhole(q, level)
               PROVE  /\ out \in MinClamped..(RequestedOutput(q) - 1)
                      /\ Fits(q, level, out)
                      /\ ~Fits(q, level, out + 1)
                      /\ q.priority = "interactive" /\ ~q.strict
                      /\ Substitutions(q, level) # {}
  BY DEF ClampIsLargestFit
<1>2. /\ ~ContextRejects(q) /\ ~BudgetRejects(q, level)
      /\ OverContext(q) => ~q.strict
      /\ OverBudget(q, level) => ~q.strict
  BY <1>1 DEF Verdict
<1>3. OverContext(q) \/ OverBudget(q, level)
  <2>1. SUFFICES ASSUME ~OverContext(q), ~OverBudget(q, level) PROVE FALSE
    OBVIOUS
  <2>2. PromptTokens(q) + RequestedOutput(q) <= ContextCeiling(q)
    BY <2>1, GateTypes DEF OverContext, Positive
  <2>3. KvGateRuns => level + PromptTokens(q) + RequestedOutput(q) <= KvBudget
    BY <2>1, GateTypes DEF OverBudget, KvAvailable, ContextOutput, Positive
  <2>4. QED BY <2>2, <2>3, <1>1 DEF FitsWhole, Fits
<1>4. q.priority = "interactive" /\ ~q.strict
  BY <1>2, <1>3 DEF ContextRejects, BudgetRejects, Request
<1>5. Substitutions(q, level) # {}
  BY <1>3 DEF Substitutions
<1>6. /\ OverContext(q) => ContextRoom(q) >= MinClamped
      /\ OverBudget(q, level) => KvAvailable(q, level) >= MinClamped
  BY <1>2, GateTypes, GateConstants
     DEF ContextRejects, BudgetRejects, ContextRoom, OverBudget, KvAvailable, Positive
<1>7. CASE OverBudget(q, level)
  <2>1. out = KvBudget - level - PromptTokens(q) /\ KvGateRuns
    BY <1>6, <1>7, GateTypes, GateConstants
       DEF EffectiveOutput, Greater, KvAvailable, OverBudget, Positive
  <2>2. out < ContextOutput(q) /\ out >= MinClamped
    BY <2>1, <1>6, <1>7 DEF OverBudget, KvAvailable
  <2>3. /\ ContextOutput(q) <= RequestedOutput(q)
        /\ PromptTokens(q) + ContextOutput(q) <= ContextCeiling(q)
        /\ ContextOutput(q) \in Int
    BY GateTypes DEF ContextOutput, OverContext, ContextRoom, Positive
  <2>4. QED
    BY <2>1, <2>2, <2>3, <1>4, <1>5, GateTypes, GateConstants DEF Fits, Positive
<1>8. CASE ~OverBudget(q, level)
  <2>1. OverContext(q) /\ out = ContextCeiling(q) - PromptTokens(q)
    BY <1>3, <1>8 DEF EffectiveOutput, ContextOutput, ContextRoom
  <2>2. out >= MinClamped /\ out <= RequestedOutput(q) - 1 /\ out \in Int
    BY <2>1, <1>6, GateTypes, GateConstants DEF OverContext, ContextRoom, Positive
  <2>3. KvGateRuns => level + PromptTokens(q) + out <= KvBudget
    BY <1>8, <2>1, <2>2, GateTypes
       DEF OverBudget, KvAvailable, ContextOutput, ContextRoom, Positive
  <2>4. QED
    BY <2>1, <2>2, <2>3, <1>4, <1>5, GateTypes, GateConstants DEF Fits, Positive
<1>9. QED BY <1>7, <1>8

\* A refused request did not fit, and no clamp was open to it.
THEOREM RefusalsJustified ==
  ASSUME NEW q \in Request, NEW level \in Nat
  PROVE  RefusalIsJustified(q, level)
<1>1. SUFFICES ASSUME Verdict(q, level) # "admitted"
               PROVE  /\ ~FitsWhole(q, level)
                      /\ q.priority = "batch" \/ q.strict \/ ~Fits(q, level, MinClamped)
  BY DEF RefusalIsJustified
<1>2. ~FitsWhole(q, level)
  BY <1>1, WholeRequestsAdmitted DEF WholeRequestsPass
<1>3. SUFFICES ASSUME q.priority # "batch", ~q.strict
               PROVE  ~Fits(q, level, MinClamped)
  BY <1>2
<1>4. \/ PromptTokens(q) > ContextCeiling(q)
      \/ ContextRoom(q) < MinClamped
      \/ KvGateRuns /\ KvAvailable(q, level) < MinClamped
  BY <1>1, <1>3 DEF Verdict, ContextRejects, BudgetRejects, OverBudget
<1>5. QED
  BY <1>4, GateTypes, GateConstants DEF Fits, ContextRoom, KvAvailable, Positive

\* Strict mode admits exactly what the default admits unclamped, unchanged.
THEOREM StrictAdmitsUnclamped ==
  ASSUME NEW q \in Request, NEW level \in Nat
  PROVE  StrictAdmitsTheUnclamped(q, level)
<1> DEFINE lenient == Leniently(q)
           strict  == Strictly(q)
<1>1. /\ lenient.strict = FALSE /\ strict.strict = TRUE
      /\ lenient.priority = q.priority /\ strict.priority = q.priority
  BY DEF Leniently, Strictly, Request
<1>2. /\ PromptTokens(lenient) = PromptTokens(q) /\ PromptTokens(strict) = PromptTokens(q)
      /\ RequestedOutput(lenient) = RequestedOutput(q)
      /\ RequestedOutput(strict) = RequestedOutput(q)
      /\ ContextCeiling(lenient) = ContextCeiling(q)
      /\ ContextCeiling(strict) = ContextCeiling(q)
  BY DEF Leniently, Strictly, Request, PromptTokens, RequestedOutput, ContextCeiling
<1>3. /\ OverContext(strict) = OverContext(lenient)
      /\ ContextRejects(strict) = ContextRejects(lenient)
      /\ ContextOutput(strict) = ContextOutput(lenient)
  BY <1>1, <1>2 DEF OverContext, ContextRejects, ContextRoom, ContextOutput
<1>4. /\ OverBudget(strict, level) = OverBudget(lenient, level)
      /\ BudgetRejects(strict, level) = BudgetRejects(lenient, level)
      /\ EffectiveOutput(strict, level) = EffectiveOutput(lenient, level)
  BY <1>1, <1>2, <1>3 DEF OverBudget, BudgetRejects, EffectiveOutput, KvAvailable
<1>5. Substitutions(lenient, level) = {}
        <=> ~OverContext(lenient) /\ ~OverBudget(lenient, level)
  BY DEF Substitutions
<1>6. QED
  BY <1>1, <1>3, <1>4, <1>5 DEF StrictAdmitsTheUnclamped, Verdict

(***************************************************************************)
(* The same promises along every behaviour of rising pressure.             *)
(***************************************************************************)
PressureTypeOK == request \in Request /\ reservedNow \in Nat

LEMMA PressureTypes == PressureSpec => []PressureTypeOK
<1>1. PressureInit => PressureTypeOK
  BY PressureConstants DEF PressureInit, PressureTypeOK
<1>2. PressureTypeOK /\ [OthersReserve]_pressureVars => PressureTypeOK'
  BY PressureConstants DEF PressureTypeOK, OthersReserve, pressureVars
<1>3. QED BY <1>1, <1>2, PTL DEF PressureSpec

\* A request whose whole output fits passes untouched at every level.
THEOREM WholePassesHolds == PressureSpec => []WholePasses
<1>1. PressureTypeOK => WholePasses
  BY WholeRequestsAdmitted DEF PressureTypeOK, WholePasses
<1>2. QED BY <1>1, PressureTypes, PTL

\* A clamped admission keeps the largest output that fits, at every level.
THEOREM ClampLargestHolds == PressureSpec => []ClampLargest
<1>1. PressureTypeOK => ClampLargest
  BY ClampedToLargestFit DEF PressureTypeOK, ClampLargest
<1>2. QED BY <1>1, PressureTypes, PTL

\* No refusal is gratuitous, at any level.
THEOREM RefusalJustifiedHolds == PressureSpec => []RefusalJustified
<1>1. PressureTypeOK => RefusalJustified
  BY RefusalsJustified DEF PressureTypeOK, RefusalJustified
<1>2. QED BY <1>1, PressureTypes, PTL

\* Strict and default mode agree on the unclamped requests, at every level.
THEOREM StrictUnclampedHolds == PressureSpec => []StrictUnclamped
<1>1. PressureTypeOK => StrictUnclamped
  BY StrictAdmitsUnclamped DEF PressureTypeOK, StrictUnclamped
<1>2. QED BY <1>1, PressureTypes, PTL

\* The gates are monotone in the pressure: what is admitted at a level is
\* admitted at every lower one, with at least the same output.
THEOREM GatesAreMonotone ==
  ASSUME NEW q \in Request, NEW low \in Nat, NEW high \in Nat, low <= high,
         Verdict(q, high) = "admitted"
  PROVE  /\ Verdict(q, low) = "admitted"
         /\ EffectiveOutput(q, high) <= EffectiveOutput(q, low)
<1>1. /\ ~ContextRejects(q) /\ ~(OverContext(q) /\ q.strict)
      /\ ~BudgetRejects(q, high) /\ ~(OverBudget(q, high) /\ q.strict)
  BY DEF Verdict
<1>2. ContextOutput(q) \in Int
  BY GateTypes DEF ContextOutput, ContextRoom, Positive
<1>3. KvGateRuns => /\ KvAvailable(q, low) \in Int /\ KvAvailable(q, high) \in Int
                    /\ KvAvailable(q, high) <= KvAvailable(q, low)
  BY GateTypes DEF KvAvailable
<1>4. OverBudget(q, low) => OverBudget(q, high)
  BY <1>3, GateTypes DEF OverBudget, ContextOutput, ContextRoom, Positive
<1>5. BudgetRejects(q, low) => BudgetRejects(q, high)
  BY <1>3, <1>4, GateConstants DEF BudgetRejects, OverBudget, Positive
<1>6. Verdict(q, low) = "admitted"
  BY <1>1, <1>4, <1>5 DEF Verdict
<1>7. OverBudget(q, high) => /\ KvAvailable(q, high) >= MinClamped
                             /\ KvAvailable(q, high) < ContextOutput(q)
  BY <1>1, <1>3, GateConstants DEF BudgetRejects, OverBudget, Positive
<1>8. EffectiveOutput(q, high) <= EffectiveOutput(q, low)
  <2>1. CASE ~OverBudget(q, high)
    BY <1>4, <1>2, <2>1 DEF EffectiveOutput
  <2>2. CASE OverBudget(q, high)
    <3>1. EffectiveOutput(q, high) = KvAvailable(q, high)
      BY <1>3, <1>7, <2>2, GateConstants DEF EffectiveOutput, Greater, OverBudget, Positive
    <3>2. KvAvailable(q, high) <= EffectiveOutput(q, low)
      BY <1>3, <1>2, <1>7, <2>2, GateConstants
         DEF EffectiveOutput, Greater, OverBudget, Positive
    <3>3. QED BY <3>1, <3>2
  <2>3. QED BY <2>1, <2>2
<1>9. QED BY <1>6, <1>8

\* No step of pressure turns a refusal into an admission or raises an output.
THEOREM PressureNeverHelpsHolds == PressureSpec => PressureNeverHelps
<1> DEFINE Worse == Verdict(request, reservedNow)' = "admitted" =>
             /\ Verdict(request, reservedNow) = "admitted"
             /\ EffectiveOutput(request, reservedNow)' <= EffectiveOutput(request, reservedNow)
<1>1. PressureTypeOK /\ PressureTypeOK' /\ [OthersReserve]_pressureVars => [Worse]_pressureVars
  <2>1. SUFFICES ASSUME PressureTypeOK, OthersReserve PROVE Worse
    OBVIOUS
  <2>2. reservedNow' \in Nat /\ reservedNow <= reservedNow' /\ request' = request
    BY <2>1, PressureConstants DEF PressureTypeOK, OthersReserve
  <2>3. /\ Verdict(request, reservedNow)' = Verdict(request, reservedNow')
        /\ EffectiveOutput(request, reservedNow)' = EffectiveOutput(request, reservedNow')
    BY <2>2
  <2>4. QED BY <2>1, <2>2, <2>3, GatesAreMonotone DEF PressureTypeOK
<1>2. QED BY <1>1, PressureTypes, PTL DEF PressureSpec, PressureNeverHelps

(***************************************************************************)
(* The two gates in one formula, and whom the 429 of gate 3 tells to retry *)
(* in vain.                                                                *)
(***************************************************************************)

\* A clamp may bring the output down to its minimum.
Clampable(q) == q.priority = "interactive" /\ ~q.strict

\* Admission is neither more nor less than this: the request fits whole, or
\* may be clamped and the smallest output fits (admission.py:349-435).
THEOREM AdmittedExactly ==
  ASSUME NEW q \in Request, NEW level \in Nat
  PROVE  Verdict(q, level) = "admitted"
           <=> FitsWhole(q, level) \/ (Clampable(q) /\ Fits(q, level, MinClamped))
<1>1. ASSUME Verdict(q, level) = "admitted", ~FitsWhole(q, level)
      PROVE  Clampable(q) /\ Fits(q, level, MinClamped)
  <2> DEFINE out == EffectiveOutput(q, level)
  <2>1. /\ out \in MinClamped..(RequestedOutput(q) - 1) /\ Fits(q, level, out)
        /\ Clampable(q)
    BY <1>1, ClampedToLargestFit DEF ClampIsLargestFit, Clampable
  <2> HIDE DEF out
  <2>2. Fits(q, level, MinClamped)
    BY <2>1, GateTypes, GateConstants DEF Fits, Positive
  <2>3. QED BY <2>1, <2>2
<1>2. ASSUME FitsWhole(q, level) PROVE Verdict(q, level) = "admitted"
  BY <1>2, WholeRequestsAdmitted DEF WholeRequestsPass
<1>3. ASSUME Clampable(q), Fits(q, level, MinClamped) PROVE Verdict(q, level) = "admitted"
  <2>1. RefusalIsJustified(q, level)
    BY RefusalsJustified
  <2>2. q.priority # "batch" /\ ~q.strict
    BY <1>3 DEF Clampable
  <2>3. QED BY <1>3, <2>1, <2>2 DEF RefusalIsJustified
<1>4. QED BY <1>1, <1>2, <1>3

\* The KV budget has room for the request when nobody else reserves.
RoomAlone(q) ==
  \/ PromptTokens(q) + RequestedOutput(q) <= KvBudget
  \/ Clampable(q) /\ PromptTokens(q) + MinClamped <= KvBudget

\* A retry after "saturated" helps once the others are gone exactly when the
\* budget has room for the request alone: RetryCanSucceed fails of the other
\* requests and of no more (admission.py:404-421, api/errors.py:42-43).
THEOREM RetryHelpsExactly ==
  ASSUME NEW q \in Request, NEW level \in Nat, Verdict(q, level) = "saturated"
  PROVE  RetryCanSucceed(q, level) <=> RoomAlone(q)
<1>1. ~ContextRejects(q) /\ ~(OverContext(q) /\ q.strict) /\ KvGateRuns
  BY DEF Verdict, BudgetRejects, OverBudget
<1>2. RetryCanSucceed(q, level)
        <=> FitsWhole(q, 0) \/ (Clampable(q) /\ Fits(q, 0, MinClamped))
  BY AdmittedExactly DEF RetryCanSucceed
<1>3. OverContext(q) => Clampable(q)
  BY <1>1 DEF ContextRejects, Clampable, Request
<1>4. OverContext(q) => /\ PromptTokens(q) + MinClamped <= ContextCeiling(q)
                        /\ MinClamped < RequestedOutput(q)
  BY <1>1, GateTypes, GateConstants
     DEF ContextRejects, OverContext, ContextRoom, Positive
<1>5. ~OverContext(q) => PromptTokens(q) + RequestedOutput(q) <= ContextCeiling(q)
  BY GateTypes DEF OverContext, Positive
<1>6. ASSUME RoomAlone(q) PROVE FitsWhole(q, 0) \/ (Clampable(q) /\ Fits(q, 0, MinClamped))
  <2>1. CASE OverContext(q)
    <3>1. Clampable(q) /\ PromptTokens(q) + MinClamped <= KvBudget
      BY <1>1, <1>3, <1>4, <1>6, <2>1, GateTypes, GateConstants DEF RoomAlone, Positive
    <3>2. QED BY <1>1, <1>4, <2>1, <3>1, GateTypes, GateConstants DEF Fits, Positive
  <2>2. CASE ~OverContext(q) /\ PromptTokens(q) + RequestedOutput(q) <= KvBudget
    <3>1. PromptTokens(q) \in Nat /\ RequestedOutput(q) \in Nat
      BY GateTypes DEF Positive
    <3>2. 0 + PromptTokens(q) + RequestedOutput(q) <= KvBudget
      BY <2>2, <3>1
    <3>3. QED BY <1>5, <2>2, <3>2 DEF FitsWhole, Fits
  <2>3. CASE /\ ~OverContext(q) /\ ~(PromptTokens(q) + RequestedOutput(q) <= KvBudget)
    <3>1. Clampable(q) /\ PromptTokens(q) + MinClamped <= KvBudget
      BY <1>6, <2>3 DEF RoomAlone
    <3>2. MinClamped < RequestedOutput(q)
      BY <1>1, <2>3, <3>1, GateTypes, GateConstants DEF Positive
    <3>3. QED BY <1>1, <1>5, <2>3, <3>1, <3>2, GateTypes, GateConstants DEF Fits, Positive
  <2>4. QED BY <2>1, <2>2, <2>3
<1>7. ASSUME FitsWhole(q, 0) \/ (Clampable(q) /\ Fits(q, 0, MinClamped)) PROVE RoomAlone(q)
  BY <1>1, <1>7, GateTypes, GateConstants DEF RoomAlone, FitsWhole, Fits, Positive
<1>8. QED BY <1>2, <1>6, <1>7

\* Of a request that is larger, no retry is ever answered otherwise than by an
\* error, whatever the others hold by then.
THEOREM RetryInVain ==
  ASSUME NEW q \in Request, NEW level \in Nat, Verdict(q, level) = "saturated", ~RoomAlone(q)
  PROVE  \A later \in Nat : Verdict(q, later) # "admitted"
<1>1. Verdict(q, 0) # "admitted"
  BY RetryHelpsExactly DEF RetryCanSucceed
<1>2. ASSUME NEW later \in Nat, Verdict(q, later) = "admitted" PROVE FALSE
  <2>1. 0 \in Nat /\ 0 <= later
    OBVIOUS
  <2>2. Verdict(q, 0) = "admitted"
    BY <1>2, <2>1, GatesAreMonotone
  <2>3. QED BY <1>1, <2>2
<1>3. QED BY <1>2
=============================================================================
