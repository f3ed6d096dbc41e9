CONSTANTS
  NumNets = 1
  MaxSize = 3
  MaxRanges = 1
  DefaultCount = 100
  Inputs <- InputsCounts
SPECIFICATION Spec
INVARIANT NetAlarmsByFreeLeases
