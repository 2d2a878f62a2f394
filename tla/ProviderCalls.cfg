SPECIFICATION FairSpec
CONSTANTS
  Clients = {c1}
  RawRequests <- MCRawRequests
  Answers <- MCAnswers
  NoCompletion = NoCompletion
  MaxKeepalives = 1
INVARIANTS
  TypeOK
  Delivered
  NeverUnconvertible
  WordsKept
PROPERTIES
  Released
CHECK_DEADLOCK FALSE
