CONSTANTS
  Clients = {c1, c2, c3}
  Bodies = {b1}
  OrderClientNum = 2
  ShardNum = 2
  MaxHeight = 2
  Resend = FALSE
  MaxTally = 3
  DBFaults = TRUE
  NoClient = NoClient
  NoProblock = NoProblock
  ExecClients = {d1}
  Strays = TRUE
  SecondShard = {d1}
  ShardOf <- MCShardOf
  ClientMax = 2
  Roots = {r1}
  TxNums = {1}
  NoUpload = NoUpload
SPECIFICATION FairRounds
INVARIANTS OneCommitAtATime
PROPERTIES EveryHeightCommits UploadsAreAnswered
CHECK_DEADLOCK FALSE
