CONSTANTS
  MaxAddr = 2
  Word = 4
  NumNets = 1
  MaxLeases = 3
  MaxRanges = 2
SPECIFICATION Spec
INVARIANTS
  TypeOK
  RangeCountersExact
  NetCountersExact
  AllNetworksExact
PROPERTIES
  ReportsPoolUsage
  CountingReturns
