CONSTANTS
  v1 = v1
  v2 = v2
  v3 = v3
  a = a
  b = b
  None = None
  Members = {v1, v2}
  Byzantine = {}
  Txs = {a, b}
  Follows <- MCAfter
  ByCommit <- MCBlindOrder
  Threshold = 1
  Window = 1
  DeferralCap = 1
  MaxHeight = 4
  LastSubmit = 0
  ByzReveals <- MCGarbage
  ByzBlocks <- MCEmptyBlock
SYMMETRY Peers
SPECIFICATION ESpec
INVARIANTS DeferredNotLost
CHECK_DEADLOCK FALSE
