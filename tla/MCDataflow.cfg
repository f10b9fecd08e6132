SPECIFICATION Spec
CONSTANTS
  PIPELINE_FILL_LATENCY = 2
  DEFAULT_EXEC_LATENCY = 1
  SLOW_ALU_EXEC_LATENCY = 4
  FP_EXEC_LATENCY = 3
  Uops <- MCUops
  Regs <- MCRegs
  RFZERO = RFZERO
  None = None
  r1 = r1
  r2 = r2
  Waits = {0, 2}
  CacheLatencies = {1, 5}
  Advances = {0, 1}
  MaxUops = 3
INVARIANTS DataReadyUnlessZero LoadsSeeStores
