CONSTANTS
  MaxSafetyRefs = 2
  Upstreams = {"u1"}
  Works = {"w1"}
SPECIFICATION Spec
INVARIANTS
  TypeOK
  DiscardsKept
PROPERTIES
  WorkKept
  ExpectedOpened
CHECK_DEADLOCK FALSE
