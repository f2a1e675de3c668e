CONSTANTS
  v1 = v1
  v2 = v2
  v3 = v3
  v4 = v4
  A = A
  B = B
  Validators = {v1, v2, v3, v4}
  Byzantine = {v4}
  Blocks = {A, B}
  Nil = Nil
  None = None
  MaxRound = 1
  Leader <- MCLeader
  Proposer <- MCProposer
SYMMETRY Followers
SPECIFICATION Spec
INVARIANTS TypeOK Agreement ParkedAgree CommittedValueHolds CertifiedBodyHeld
PROPERTY ImplementsVoteRules
CHECK_DEADLOCK FALSE
