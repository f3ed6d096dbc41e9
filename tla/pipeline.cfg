CONSTANTS
  Argvs <- MCArgvs
  MaxLines = 2
SPECIFICATION Spec
INVARIANTS
  TypeOK
  OptionsAsGiven
  AllReleased
  StatusTellsReport
  OldReportKept
PROPERTY
  NothingUsedAfterRelease
