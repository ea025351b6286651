CONSTANTS
  None = None
  TierContextCap = 12
  EntryContextCap = 9
  KvCapacity = 14
  MarginPercent = 90
  DefaultContextCap = 11
  DefaultOutput = 3
  MinClamped = 1
  CharsPerToken = 4
  Requests = {r1, r2, r3, r4}
  Shapes <- MCShapes
  TierMaxNumSeqs = 3
  EntryMaxNumSeqs = 2
  BatchWaiterMultiplier = 1
  ZeroWait = {}
SPECIFICATION Spec
SYMMETRY MCSymmetry
INVARIANTS TypeOK PermitConservation InFlightBounded NoLostWakeUp BatchAccounting BudgetRespected TrackerIsSum
