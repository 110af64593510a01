SPECIFICATION FairSpec
CONSTANTS
  Sectors = 4
  BlockSizes = {1, 2}
  ScanLimit = 1
  Counts = {1, 2}
INVARIANTS PrefixMoved FailStop CleanVerdictExact
PROPERTY CleanReturns
CHECK_DEADLOCK FALSE
