CONSTANTS
  a1 = a1
  a2 = a2
  m1 = m1
  m2 = m2
  MaxBlocks = 3
  Addr <- MCAddr
  Macs <- MCMacs
  Inputs <- InputsOrdinary
SPECIFICATION Spec
INVARIANTS
  TypeOK
  UniqueAddresses
  LatestStateWins
  EthernetOfLatestState
  BackupsReported
PROPERTY ParsingEnds
