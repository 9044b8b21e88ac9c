CONSTANTS
  PortSpan = 1
  HostSpan = 1
  Prefix = 2
  PrefixBits = 2
  UsizeSpan = 8
  None = None
  Socks = {s1, s2}
  TCP = TCP
  TUN = TUN
  Messages = {"indication"}
  FrameLen = 1
  SndBuf = 1
  MaxMsgs <- Silent
  MaxFds = 2
SPECIFICATION Spec
PROPERTY HealthyStreamsStay
