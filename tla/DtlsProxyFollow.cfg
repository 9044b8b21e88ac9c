CONSTANTS
  Clients = {c1}
  Addrs = {a1, a2}
  Dsts = {d1}
  Endpoint = endpoint
  RtpEndpoint = rtp_endpoint
  Nobody = nobody
  Slack = 1
  MaxAge = 1
  SessionMax = 1
  MoveMax = 2
  WireMax = 2
SPECIFICATION FairSpec
INVARIANT AuthenticRoaming
PROPERTIES
  Follows
  HandshakeCompletes
CHECK_DEADLOCK FALSE
