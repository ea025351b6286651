CONSTANTS
  None = None
  TierContextCap = 12
  EntryContextCap = 10
  KvCapacity = 10
  MarginPercent = 90
  DefaultContextCap = 11
  DefaultOutput = 3
  MinClamped = 2
  CharsPerToken = 4
  MaxReserved = 9
  Examined <- SmallRequests
SPECIFICATION PressureSpec
INVARIANT RetrySucceeds
CHECK_DEADLOCK FALSE
