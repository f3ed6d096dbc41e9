CONSTANTS
  MaxRanges = 2
  MaxNets = 2
  MaxLeases = 3
  Limits <- AllLimits
SPECIFICATION Spec
INVARIANTS
  TypeOK
  RowsComplete
  JsonWellFormed
