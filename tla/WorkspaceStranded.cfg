CONSTANTS
  MaxSafetyRefs = 1
  Upstreams = {}
  Works = {}
SPECIFICATION Spec
INVARIANT NeverStranded
CHECK_DEADLOCK FALSE
