---------------------------- MODULE MCMeasurement ----------------------------
(***************************************************************************)
(* A suite of two prompts, up to two runs of it and requests of others.    *)
(* The directory holds results of several models, machines and suites, and *)
(* what a crash left of one.  Of the second suite there are two that tie   *)
(* at a score of 0, the first of which is not viable.                      *)
(***************************************************************************)
EXTENDS MeasurementProperties

MCOld(model, suite, time, hardware, throughput, ttft, vram) ==
  [model |-> model, suite |-> suite, time |-> time, whole |-> TRUE, hardware |-> hardware,
   throughput |-> throughput, ttft |-> ttft, vram |-> vram]

MCOldResults ==
  { { [MCOld(2, 1, -4, "this", 40, 1, 0) EXCEPT !.whole = FALSE],
      MCOld(1, 1, -3, "unknown", 10, 2, 3),
      MCOld(1, 1, -2, "this", 20, 3, 4),
      MCOld(2, 1, -1, "other", 30, 2, 2),
      MCOld(3, 1, 0, "this", 40, 2, 2),
      MCOld(4, 1, 0, "this", 40, 4, 2),
      MCOld(5, 1, 0, "this", 50, 1, 4),
      MCOld(2, 2, 0, "this", 0, 4, 4), MCOld(3, 2, 0, "this", 0, 4, 3) } }
=============================================================================
