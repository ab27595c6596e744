CONSTANTS
  Server = {k1, k2}
  NoServer = NoServer
  MaxFd = 3
  Sock = {s1, s2, s3}
  Free = Free
  Other = Other
  Text = {a1}
  BadText = BadText
  Port <- Ports
  MaxCalls = 3
SYMMETRY Symmetry
SPECIFICATION Spec
INVARIANT TypeOK
INVARIANT HeldByOne
INVARIANT NoSocketLost
INVARIANT ListensWhereAsked
CHECK_DEADLOCK FALSE
