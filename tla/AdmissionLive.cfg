CONSTANTS
  None = None
  TierContextCap = 12
  EntryContextCap = 9
  KvCapacity = 14
  MarginPercent = 90
  DefaultContextCap = 11
  DefaultOutput = 3
  MinClamped = 1
  CharsPerToken = 4
  Requests = {r1, r2, r3}
  Shapes <- MCShapes
  TierMaxNumSeqs = 3
  EntryMaxNumSeqs = 1
  BatchWaiterMultiplier = 2
  ZeroWait = {"batch"}
SPECIFICATION FairSpec
PROPERTIES EveryWaiterAnswered ImplementsSlots
