SPECIFICATION FairSpec
CONSTANTS
  Clients = {k1}
  Listeners = {l1}
  NrAccepts = 2
  NrPorts = 1
  MAX_TCP_FLOWS = 1
  MAX_NR_CONN = 1
  MaxAttempts = 1
  MaxBacklog = 1
  ReusePort = FALSE
  NonBlock = TRUE
  MaxNet = 2
  MayExit = {"client", "server"}
  None = None
INVARIANTS ListedIsLive
PROPERTIES HandshakeEnds CloseReturns
CHECK_DEADLOCK FALSE
