CONSTANTS
  MaxAddr = 1
  Word = 4
  NumNets = 1
  MaxLeases = 2
  MaxRanges = 2
SPECIFICATION Spec
INVARIANT AllNetworksBackupsExact
