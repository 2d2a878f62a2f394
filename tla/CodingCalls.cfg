SPECIFICATION FairSpec
CONSTANTS
  NumCalls = 5
  Paths = {r1}
  MaxPersistent = 1
  MaxRecords = 1
  None = None
  Opening = Opening
INVARIANTS TypeOK OwnerExists OneOperation NoOrphan CleanClose
PROPERTIES ClosingEnds CloseEndsProcesses
