CONSTANTS
  PortSpan = 1
  HostSpan = 1
  Prefix = 2
  PrefixBits = 2
  UsizeSpan = 8
  None = None
  Socks = {s1}
  TCP = TCP
  TUN = TUN
  Messages = {"request"}
  FrameLen = 2
  SndBuf = 1
  MaxMsgs <- OneEach
  MaxFds = 1
SPECIFICATION Spec
INVARIANT FramesIntact
