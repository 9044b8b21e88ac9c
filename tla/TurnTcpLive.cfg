CONSTANTS
  PortSpan = 1
  HostSpan = 1
  Prefix = 2
  PrefixBits = 2
  UsizeSpan = 8
  None = None
  Socks = {s1, s2}
  TCP = TCP
  TUN = TUN
  Messages = {"request"}
  FrameLen = 2
  SndBuf = 1
  MaxMsgs <- OneSpeaks
  MaxFds = 2
SPECIFICATION FairSpec
INVARIANT RoutesBack
PROPERTY LendsAddresses BacklogServed MessagesConsumed PartialFlushed
