SPECIFICATION CacheSpec
CONSTANTS
  Span <- MCSpan
  Sets <- MCSets
  Assoc <- MCAssoc
  Latency <- MCLatency
  MAIN_MEMORY_LATENCY = 10
  Blocks = {0, 1, 2}
  AccessCycles = {0, 12}
  MaxAccesses = 5
INVARIANTS MissesGoDown NoDataBeforeMemory
PROPERTY ReplacesLRU
CHECK_DEADLOCK FALSE
