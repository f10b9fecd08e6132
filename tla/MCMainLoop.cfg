SPECIFICATION MainSpec
CONSTANTS
  Instrs <- MCInstrs
  LaterInstrs <- MCLater
  None = None
  MaxInstrs = 4
  EPOCH_SIZE_INSTS = 2
  FETCH_WIDTH = 1
  Delays = {0, 1}
  Latencies = {2}
INVARIANTS NeverAborts ValuesMatch OutputsWrittenUnlessNarrow
  StoresEachValue EpochsPartition ReportCoversLast
