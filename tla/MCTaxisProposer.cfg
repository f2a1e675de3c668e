CONSTANTS
  v1 = v1
  v2 = v2
  v3 = v3
  c1 = c1
  c2 = c2
  Validators = {v1, v2}
  Byzantine = {}
  Blocks <- MCGenesisBlocks
  Nil = Nil
  None = None
  MaxRound = 1
  Leader <- MCLeader
  Proposer <- MCProposer
  LastCert <- MCGenesisCert
  Line = {v1, v2}
  Ticket <- MCTicket
  CollectWindow = 1
SPECIFICATION PSpec
 
PROPERTY ImplementsVoteRules
CHECK_DEADLOCK FALSE
