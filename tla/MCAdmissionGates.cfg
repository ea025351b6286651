CONSTANTS
  None = None
  TierContextCap = 12
  EntryContextCap = 10
  KvCapacity = 11
  MarginPercent = 90
  DefaultContextCap = 11
  DefaultOutput = 3
  MinClamped = 2
  CharsPerToken = 4
  MaxReserved = 13
  Examined <- SmallRequests
SPECIFICATION PressureSpec
INVARIANTS WholePasses ClampLargest RefusalJustified StrictUnclamped
PROPERTY PressureNeverHelps
CHECK_DEADLOCK FALSE
