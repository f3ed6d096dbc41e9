CONSTANTS
  MaxAddr = 2
  Word = 4
  Macs = {}
  NumNets = 0
  MaxRanges = 2
  MaxBlocks = 3
  Inputs <- MCInputs
SPECIFICATION Spec
INVARIANTS
  TypeOK
  ReportOfLog
  TotalsOfLog
