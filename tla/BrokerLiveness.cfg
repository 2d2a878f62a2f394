SPECIFICATION FairSpec
CONSTANTS
  MaxRequests = 1
  MaxGenerations = 2
  MaxResponses = 1
  MaxProgress = 0
  Exchanges = {e1}
  Payloads = {p1, t1}
  ToolCalls = {t1}
  NoPayload = NoPayload
  MaxPending = 1
  MaxInflight = 1
  MaxBatchBytes = 2
  Size <- MCSize
  RequestTimeout = 1
  WaitTimeout = 1
  BridgeLease = 2
  ReceiptTTL = 1
PROPERTIES
  ExchangeReturns
  OrphanAnswered
