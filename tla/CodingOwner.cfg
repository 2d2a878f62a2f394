SPECIFICATION Spec
CONSTANTS
  NumCalls = 5
  Paths = {r1}
  MaxPersistent = 1
  MaxRecords = 1
  None = None
  Opening = Opening
INVARIANT OneSession
