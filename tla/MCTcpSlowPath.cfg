SPECIFICATION Spec
CONSTANTS
  Clients = {k1, k2}
  Listeners = {l1}
  NrAccepts = 2
  NrPorts = 2
  MAX_TCP_FLOWS = 1
  MAX_NR_CONN = 1
  MaxAttempts = 0
  MaxBacklog = 1
  ReusePort = FALSE
  NonBlock = FALSE
  MaxNet = 1
  MayExit = {}
  None = None
INVARIANTS TablesAgree   ConnectedIsOpen
PROPERTIES ReadinessKept
CHECK_DEADLOCK FALSE
