CONSTANTS
  None = None
  Data = {0, 1, 2}
  Payload <- MCPayload
  Window = 2
  RecvWindow = 2
  SackWidth = 3
  DupThreshold = 2
  Intervals = {2}
  FastDelays = {1, 2}
  MaxSegments = 3
  AckCap = 2
SPECIFICATION FairSpec
INVARIANTS AcknowledgedHasArrived BufferBounded EndIsTheEnd
PROPERTIES ImplementsReliableStream Completes
CHECK_DEADLOCK FALSE
