CONSTANTS
  ChainSpecs <- AllChains
  MaxThreads = 5
SPECIFICATION FairSpec
INVARIANTS EngineTypeOK NobodyWaitsInVain OnlyAStopThrows RetryRepeatsOnErrors
PROPERTIES NothingDispatchedAfterStop StopSettles
CHECK_DEADLOCK FALSE
