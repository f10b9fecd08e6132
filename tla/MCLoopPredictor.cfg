SPECIFICATION Spec
CONSTANTS
  PCs = {1, 2}
  Ways = {0}
  Indexes = {0}
  Tags = {0, 1, 2}
  Index <- MCIndex
  LTAG <- MCTag
  EmptyTag = 0
  WIDTHNBITERLOOP_MASK = 3
  CONFLOOP = 1
  MinProduct = 5
  FreshAge = 1
  WITHLOOP_MAX = 0
  MaxInFlight = 2
  Outcomes <- MCOutcomes
INVARIANTS TypeOK LoopCountsKnown
PROPERTY UpdatesInOrder
