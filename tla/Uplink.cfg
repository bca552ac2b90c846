SPECIFICATION FairSpec
CONSTANTS
  Contexts <- CommandLines
  Heads = {43, 44}
  Floats = {4, 200}
  Short = {100, 333}
  UINT = 65536
  DEFAULT_PKT_SIZE_B = 512
  MaxRecords = 3
INVARIANTS Framed RightBins WholeRecords
PROPERTIES IsFeed Arrives
CHECK_DEADLOCK FALSE
