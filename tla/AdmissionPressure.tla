------------------------- MODULE AdmissionPressure --------------------------
(***************************************************************************)
(* One request under rising KV pressure: while other requests reserve      *)
(* tokens, as AdmissionController._tracker counts them, what would gates 2 *)
(* and 3 answer at each level?                                             *)
(***************************************************************************)
EXTENDS AdmissionContract

CONSTANTS
  Examined,      \* the requests put to the gates
  MaxReserved    \* bound: the highest reservation level examined

ASSUME PressureConstants ==
  /\ Examined \subseteq Request
  /\ MaxReserved \in Nat

VARIABLES request, reservedNow

pressureVars == <<request, reservedNow>>

PressureInit ==
  /\ request \in Examined
  /\ reservedNow = 0

\* Another request's tracker.add(): the tokens it reserved are held.
OthersReserve ==
  /\ \E tokens \in 1..(MaxReserved - reservedNow) : reservedNow' = reservedNow + tokens
  /\ UNCHANGED request

PressureSpec == PressureInit /\ [][OthersReserve]_pressureVars

\* The promises of AdmissionContract, for the request under examination.
WholePasses       == WholeRequestsPass(request, reservedNow)
ClampLargest      == ClampIsLargestFit(request, reservedNow)
RefusalJustified  == RefusalIsJustified(request, reservedNow)
RetrySucceeds     == RetryCanSucceed(request, reservedNow)
StrictUnclamped   == StrictAdmitsTheUnclamped(request, reservedNow)

\* More reserved tokens never help: no step of pressure turns a refusal into
\* an admission or raises the output a request is admitted with.
PressureNeverHelps ==
  [][Verdict(request, reservedNow)' = "admitted" =>
       /\ Verdict(request, reservedNow) = "admitted"
       /\ EffectiveOutput(request, reservedNow)' <= EffectiveOutput(request, reservedNow)]_pressureVars
=============================================================================
