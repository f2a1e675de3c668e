CONSTANTS
  v1 = v1
  v2 = v2
  v3 = v3
  v4 = v4
  A = A
  B = B
  Validators = {v1, v2, v3, v4}
  Byzantine = {}
  Crashers = {v1}
  MaxRestarts = 2
  Blocks = {A, B}
  Nil = Nil
  None = None
  MaxRound = 0
  Leader <- MCLeader
  Proposer <- MCProposer
SYMMETRY Followers
SPECIFICATION RSpec
INVARIANTS Agreement
CHECK_DEADLOCK FALSE
