SPECIFICATION Spec
CONSTANTS
  WINDOW_SIZE = 3
  FETCH_WIDTH = 2
  FETCH_NUM_BRANCH = 2
  FETCH_STOP_AT_INDIRECT = TRUE
  FETCH_STOP_AT_TAKEN = TRUE
  PERFECT_BRANCH_PRED = FALSE
  PIPELINE_FILL_LATENCY = 2
  DQ_LATENCY = 2
  Ops <- AllOps
  Waits = {0, 2}
  LoadLatencies = {2, 4}
  FixedLatencies = {1}
  MissLatencies = {2}
  UninitWrongPath = {0}
  MaxUops = 4
INVARIANTS
  TypeOK
  NoAbort
  NoWrongPathFetch
  CheckpointsMatchEQ
  BundleLimits
  WrongPathBounded
PROPERTIES
  RetiresComplete
  Terminates
