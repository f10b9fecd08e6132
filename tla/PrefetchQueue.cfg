SPECIFICATION Spec
CONSTANTS
  NUM_LDST_LANES = 1
  FETCH_WIDTH = 2
  PIPELINE_FILL_LATENCY = 2
  PF_MUST_ISSUE_BEFORE_CYCLES = 2
  Lines = {0, 1, 2}
  Waits = {0, 1}
  Advances = {1, 3}
  MaxUops = 4
INVARIANTS NoAbort StatsBalance
PROPERTIES PerformedInTime DrainEnds
