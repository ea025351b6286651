CONSTANTS
  Requests = {r1, r2, r3}
  MaxNumSeqs = 1
  Registry <- MCRegistry
  Tiers <- MCTiers
  Settings <- MCSettings
  FreeLevels <- MCFreeLevels
SPECIFICATION StartupFairSpec
INVARIANTS OneEngineLoaded EngineReleasedAtShutdown DefaultIsServed VariantGetsItsWeights NoMorePreciseVariantFits SizedEngineIsAccepted
PROPERTIES SettlesOnOneController ImplementsLifecycle
CHECK_DEADLOCK FALSE
