CONSTANTS
  None = None
  TierContextCap = 12
  EntryContextCap = 8
  KvCapacity = 10
  MarginPercent = 90
  DefaultContextCap = 11
  DefaultOutput = 3
  MinClamped = 2
  CharsPerToken = 4
  Requests = {r1, r2}
  Shapes <- MCShapes
  TierMaxNumSeqs = 3
  EntryMaxNumSeqs = 1
  BatchWaiterMultiplier = 1
  ZeroWait = {}
  Kinds = {"stream"}
  Chunks <- MCChunks
  StreamTimeoutOn = TRUE
  MaxContent = 2
SPECIFICATION ServiceSpec
INVARIANT EngineWithinLimit
