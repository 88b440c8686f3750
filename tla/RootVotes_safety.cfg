CONSTANTS
  Clients = {c1, c2, d1, d2}
  Strays = TRUE
  SecondShard = {d1, d2}
  ShardNum = 2
  ShardOf <- MCShardOf
  ClientMax = 3
  Roots = {r1, r2}
  TxNums = {2}
  MaxHeight = 2
  DBFaults = TRUE
  NoClient = NoClient
  NoUpload = NoUpload
SPECIFICATION Spec
SYMMETRY Symmetry
INVARIANTS TypeOK RelaysOncePerRound NoTransactionCountedTwice
PROPERTIES RelaysAreOfTheQuorumRoot EarlyQuorumIsCounted ImplementsPayouts
CHECK_DEADLOCK FALSE
