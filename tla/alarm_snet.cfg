CONSTANTS
  NumNets = 1
  MaxSize = 2
  MaxRanges = 2
  DefaultCount = 100
  Inputs <- InputsSnet
SPECIFICATION Spec
INVARIANT RangeAlarmsExact
