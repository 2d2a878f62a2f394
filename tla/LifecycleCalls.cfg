CONSTANTS
  NumServices = 5
  MaxRestarts = 1
  NumCallers = 2
  NumTunnels = 0
  Shutdown = shutdown
  Context = context
  Nobody = nobody
SPECIFICATION FairSpec
INVARIANTS NoStray AccessKept
PROPERTIES CallsEnd
CHECK_DEADLOCK FALSE
