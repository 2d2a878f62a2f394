CONSTANTS
  NumServices = 3
  MaxRestarts = 1
  NumCallers = 1
  NumTunnels = 1
  Shutdown = shutdown
  Context = context
  Nobody = nobody
SPECIFICATION FairSpec
INVARIANTS TypeOK OneTunnel Supervised KeyMatchesTunnel
PROPERTIES CancelStopsAll
CHECK_DEADLOCK FALSE
