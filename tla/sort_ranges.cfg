CONSTANTS
  Keys <- MCKeys
  MIN_MERGE_SIZE = 4
  MaxRanges = 6
  Options <- MCOptions
  Tables <- MCTables
SPECIFICATION Spec
INVARIANTS
  TypeOK
  ReportSorted
PROPERTY RangesKept
