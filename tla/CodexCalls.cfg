CONSTANTS
  MaxFaults = 1
  MaxNotes = 1
SPECIFICATION Spec
INVARIANTS
  TypeOK
  OneServer
  ReaderFree
PROPERTIES
  IsCommand
  EndsWhenTold
CHECK_DEADLOCK FALSE
