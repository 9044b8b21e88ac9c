CONSTANTS
  Clients = {c1, c2}
  Addrs = {a1, a2}
  Dsts = {d1, d2}
  Endpoint = endpoint
  RtpEndpoint = rtp_endpoint
  Nobody = nobody
  Slack = 1
  MaxAge = 1
  SessionMax = 2
  MoveMax = 0
  WireMax = 1
SPECIFICATION Spec
SYMMETRY Symmetry
INVARIANTS
  TypeOK
  AuthenticRoaming
  TableBounded
PROPERTY FreshKept
CHECK_DEADLOCK FALSE
