-------------------------- MODULE MCAdmissionGates --------------------------
(***************************************************************************)
(* Evaluates gates 2 and 3 on every small request under every KV pressure: *)
(* the values lie on both sides of each limit of the configuration.        *)
(***************************************************************************)
EXTENDS AdmissionPressure

Counts == {None, 0, 1, 3, 6, 9}
Limits == {None, 1, 4, 6}

SmallRequests ==
  [priority: {"interactive", "batch"}, strict: BOOLEAN, counted: Counts,
   chars: {0, 7, 13}, maxOutput: Limits, maxTokens: {None, 5}, maxContext: {None, 4, 8}]
=============================================================================
