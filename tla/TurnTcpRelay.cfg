CONSTANTS
  PortSpan = 1
  HostSpan = 2
  Prefix = 2
  PrefixBits = 2
  UsizeSpan = 8
  None = None
  Socks = {s1, s2}
  TCP = TCP
  TUN = TUN
  Messages = {"request", "indication", "notstun", "oversize"}
  FrameLen = 2
  SndBuf = 1
  MaxMsgs <- OneSpeaks
  MaxFds = 2
SPECIFICATION Spec
INVARIANTS TypeOK NoLeak TornOnlyIfBlocked NoLostWakeup
PROPERTY QueuedFrameKept ClosedByLeftover
