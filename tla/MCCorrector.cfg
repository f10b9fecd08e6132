SPECIFICATION Spec
CONSTANTS
  HISTBUFFERLENGTH = 8
  OLENGTH = 5
  CLENGTH = 3
  WIDTH = 2
  IMLIMAX = 2
  Statics <- MCStatics
  MaxTrace = 4
  NBR <- MCNBR
  Lengths <- MCLengths
  SLOTS = 2
  PERCMAX = 1
  EMAX = 1
  CONFMAX = 1
  THRESMAX = 3
  PTHRESMAX = 3
  BIASSK = 1
  THRES0 = 0
  WB0 = 0
  W0 = 0
  Observed = {0}
  Lookups <- MCLookups
  MaxUpdates = 4
INVARIANT HistoriesMatchTrace
PROPERTIES SumMovesRight WeightsLearnRightSide ChooserTrainedWhereUsed
CHECK_DEADLOCK FALSE
