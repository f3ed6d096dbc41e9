CONSTANTS
  NumNets = 2
  MaxSize = 3
  MaxRanges = 2
  DefaultCount = 100
  Inputs <- InputsOrdinary
SPECIFICATION Spec
INVARIANTS
  TypeOK
  RangeAlarmsExact
  NetAlarmsExact
  
  HeadlineAgrees
  PerfdataPrinted
