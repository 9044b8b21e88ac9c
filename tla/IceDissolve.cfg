CONSTANTS
  BitXor <- MCXor
  Packets <- MCPackets
  None = none
  BufLen = 65536
  Mixes <- MCMixes
  DataSums <- MCDataSums
  RoundMax = 2
SPECIFICATION Spec
INVARIANTS
  NeverPanics
  ChecksumRight
PROPERTIES
  Stateless
CHECK_DEADLOCK FALSE
