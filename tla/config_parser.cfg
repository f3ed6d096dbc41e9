CONSTANTS
  IPs <- MCIPs
  Masks <- MCMasks
  Configs <- ConfigsOrdinary
  InitialRANGES = 2
  SHARED_NETWORKS = 5
  MAXLEN = 5
  MaxFiles = 5
SPECIFICATION Spec
INVARIANTS
  TypeOK
  SlotsInBounds
  RangesOrdered
  LayoutFollowed
  RangesDeclared
  NetworksDeclared
PROPERTY ParserReturns
