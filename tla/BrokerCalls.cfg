SPECIFICATION Spec
CONSTANTS
  MaxRequests = 1
  MaxGenerations = 2
  MaxResponses = 1
  MaxProgress = 1
  Exchanges = {e1, e2}
  Payloads = {p1, t1}
  ToolCalls = {t1}
  NoPayload = NoPayload
  MaxPending = 1
  MaxInflight = 1
  MaxBatchBytes = 2
  Size <- MCSize
  RequestTimeout = 1
  WaitTimeout = 1
  BridgeLease = 2
  ReceiptTTL = 1
SYMMETRY MCSymmetry
INVARIANTS
  TypeOK
  BridgeInv
  NoLostWakeup
  ReceiptSound
  AcknowledgedIsResult
PROPERTIES
  KeepsPromise
