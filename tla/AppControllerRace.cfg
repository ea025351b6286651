CONSTANTS
  Requests = {r1, r2, r3}
  MaxNumSeqs = 1
SPECIFICATION LifecycleSpec
INVARIANTS EngineCeilingHolds
CHECK_DEADLOCK FALSE
