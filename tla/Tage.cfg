SPECIFICATION TageSpec
CONSTANTS
  NHIST = 6
  BORN = 4
  NBANKLOW = 2
  NBANKHIGH = 1
  NOSKIP = {1, 3, 6}
  Tags = {0, 1}
  BORNTICK = 3
  U_incrment = 1
  ALTMAX = 0
  MaxUpdates = 5
INVARIANT TypeOK
PROPERTIES HitLearns AllocatesApart AllocationProgress
CHECK_DEADLOCK FALSE
