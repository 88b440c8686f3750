CONSTANTS
  Clients = {c1, c2, c3, c4}
  Bodies = {b1, b2}
  OrderClientNum = 3
  ShardNum = 2
  MaxHeight = 3
  Resend = FALSE
  MaxTally = 3
  DBFaults = TRUE
  NoClient = NoClient
  NoProblock = NoProblock
SPECIFICATION Spec
SYMMETRY Symmetry
INVARIANTS TypeOK ChainMatchesTable VotesAreDistinctVoters
PROPERTIES LostRowEndsChain ImplementsLedger
CHECK_DEADLOCK FALSE
