CONSTANTS
  ChainSpecs <- AllChains
  MaxThreads = 5
SPECIFICATION EngineSpec
INVARIANT ReportedWritesAreStored
CHECK_DEADLOCK FALSE
