CONSTANTS
  Requests = {1, 2}
  MaxRecords = 1
  MaxContent = 1
  Statuses = {200, 503}
  Models = {1}
  Suites = {1, 2}
  SuiteSize = 2
  MaxRuns = 2
  VramLevels = {2, 4}
  TotalVram = 4
  OldResults <- MCOldResults
SPECIFICATION MeasurementFairSpec
INVARIANTS RecordedOnce SameFigures DominanceRespected
PROPERTIES EveryStreamRecorded SelectionChangesOnlyByResults
CHECK_DEADLOCK FALSE
