CONSTANTS
  v1 = v1
  v2 = v2
  v3 = v3
  a = a
  b = b
  None = None
  Members = {v1, v2, v3}
  Byzantine = {v3}
  Txs = {a}
  Follows <- MCAlone
  ByCommit <- MCOneTx
  Threshold = 2
  Window = 2
  DeferralCap = 1
  MaxHeight = 3
  LastSubmit = 0
  ByzReveals <- MCGarbage
  ByzBlocks <- MCAnyBlock
SYMMETRY Peers
SPECIFICATION ESpec
INVARIANTS ExecutedAlike ExecutionKeepsUp NoRevealStranded
CHECK_DEADLOCK FALSE
