CONSTANTS
  Mappings <- MCMappings
  Clients = {1, 17}
  Hosts = {18}
  Lens <- MCLens
  U16Max = 1499
  BufLen = 1500
  MaxDatagram = 1500
  Mtu = 1499
  QueueMax = 2
  SentMax = 2
  CopiesMax = 1
SPECIFICATION FairSpec
INVARIANTS
  TypeOK
  NeverPanics
  Accounted
  NoLostWakeup
PROPERTIES
  RefinesRelay
  SendSettled
CHECK_DEADLOCK FALSE
