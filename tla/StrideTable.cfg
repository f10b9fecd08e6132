SPECIFICATION TableSpec
CONSTANTS
  NUM_RPT_ENTRIES = 2
  PCs = {p1, p2, p3}
  Addresses = {0, 1, 2}
  NoTag = NoTag
PROPERTIES PrefetchesSeenStride ReplacesLRU
