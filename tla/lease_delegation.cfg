CONSTANTS
  a1 = a1
  a2 = a2
  m1 = m1
  m2 = m2
  MaxBlocks = 2
  Addr <- MCAddr
  Macs <- MCMacs
  Inputs <- InputsDelegated
SPECIFICATION Spec
INVARIANT LatestStateWins
