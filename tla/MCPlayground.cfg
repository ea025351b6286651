CONSTANTS
  Models = {"a", "b"}
  Wanted <- MCWanted
  MaxServers = 3
  Verbose = {1}
  MaxLog = 4
  MaxPrompts = 2
SPECIFICATION PlaygroundFairSpec
INVARIANTS MappingIsServed CleanupMatchesStart PanelsUnmixed
PROPERTIES FeedFaithful EverySubmissionEnds
CHECK_DEADLOCK FALSE
