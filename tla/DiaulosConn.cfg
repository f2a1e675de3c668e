CONSTANTS
  MaxStreams = 1
  MaxId = 4
  LateCap = 1
SPECIFICATION FairSpec
INVARIANTS TypeOK QueuedIsHeld CompleteMeansGot
PROPERTIES IdsAreNotReused FinishedSettles
CHECK_DEADLOCK FALSE
