CONSTANTS
  Ids = {3, 4}
  IdSpan = 6
  Draws <- MCDraws
  HostMacs <- MCHostMacs
  None = none
  RcvMax = 2
  TapMax = 1
SPECIFICATION FairSpec
INVARIANTS
  TypeOK
  RepliesReturn
  LabelHeard
  NoneForgotten
PROPERTIES
  ChannelOpens
  TapServed
CHECK_DEADLOCK FALSE
