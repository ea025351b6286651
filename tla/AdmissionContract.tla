-------------------------- MODULE AdmissionContract --------------------------
(***************************************************************************)
(* What gates 2 and 3 promise, said without following their steps: which   *)
(* output sizes fit, and how the verdict and the admitted size relate to   *)
(* them.  AdmissionGatesProofs proves each promise for every value of the  *)
(* constants; MCAdmissionGates checks them over all small requests.        *)
(***************************************************************************)
EXTENDS AdmissionGates

\* out output tokens respect both the context ceiling and the KV budget.
Fits(q, reservedNow, out) ==
  /\ PromptTokens(q) + out <= ContextCeiling(q)
  /\ KvGateRuns => reservedNow + PromptTokens(q) + out <= KvBudget

FitsWhole(q, reservedNow) == Fits(q, reservedNow, RequestedOutput(q))

\* A request whose whole output fits is admitted with exactly that output:
\* no gate clamps or refuses it, whatever its priority and strictness
\* (admission.py:362-434).
WholeRequestsPass(q, reservedNow) ==
  FitsWhole(q, reservedNow) =>
    /\ Verdict(q, reservedNow) = "admitted"
    /\ EffectiveOutput(q, reservedNow) = RequestedOutput(q)
    /\ Substitutions(q, reservedNow) = {}

\* An admitted request that did not fit was clamped to the largest output
\* that does fit, never below the minimum, and only when it is interactive
\* and not strict; the substitution is reported (admission.py:363-432).
ClampIsLargestFit(q, reservedNow) ==
  Verdict(q, reservedNow) = "admitted" /\ ~FitsWhole(q, reservedNow) =>
    LET out == EffectiveOutput(q, reservedNow)
    IN  /\ out \in MinClamped..(RequestedOutput(q) - 1)
        /\ Fits(q, reservedNow, out)
        /\ ~Fits(q, reservedNow, out + 1)
        /\ q.priority = "interactive" /\ ~q.strict
        /\ Substitutions(q, reservedNow) # {}

\* A refusal is never gratuitous: the request did not fit whole, and either
\* its sender ruled out a clamp (batch, strict) or even the minimum output
\* does not fit (admission.py:356-421).
RefusalIsJustified(q, reservedNow) ==
  Verdict(q, reservedNow) # "admitted" =>
    /\ ~FitsWhole(q, reservedNow)
    /\ q.priority = "batch" \/ q.strict \/ ~Fits(q, reservedNow, MinClamped)

\* The 429 of gate 3 tells its client to retry shortly, and "telling the
\* client to retry is the whole point of a 429" (api/errors.py:42-43): once
\* every reservation is released, the same request is admitted.
RetryCanSucceed(q, reservedNow) ==
  Verdict(q, reservedNow) = "saturated" => Verdict(q, 0) = "admitted"

Leniently(q) == [q EXCEPT !.strict = FALSE]
Strictly(q)  == [q EXCEPT !.strict = TRUE]

\* Strict mode admits exactly the requests the default admits unchanged, and
\* with the same output (DEC-052, admission.py:371-380 and 416-421).
StrictAdmitsTheUnclamped(q, reservedNow) ==
  LET lenient == Leniently(q)
      strict  == Strictly(q)
  IN  /\ Verdict(strict, reservedNow) = "admitted" <=>
           Verdict(lenient, reservedNow) = "admitted"
             /\ Substitutions(lenient, reservedNow) = {}
      /\ Verdict(strict, reservedNow) = "admitted" =>
           EffectiveOutput(strict, reservedNow) = EffectiveOutput(lenient, reservedNow)
=============================================================================
