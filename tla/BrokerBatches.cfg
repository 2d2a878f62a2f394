SPECIFICATION Spec
CONSTANTS
  MaxRequests = 3
  MaxGenerations = 2
  MaxResponses = 0
  MaxProgress = 0
  Exchanges = {e1}
  Payloads = {p1}
  ToolCalls = {}
  NoPayload = NoPayload
  MaxPending = 3
  MaxInflight = 2
  MaxBatchBytes = 2
  Size <- MCSize
  RequestTimeout = 1
  WaitTimeout = 1
  BridgeLease = 2
  ReceiptTTL = 1
INVARIANTS
  QueueFIFO
  NoOvertaking
  InflightBounded
