CONSTANTS
  Clients = {c1, c2, c3, c4}
  Bodies = {b1, b2}
  OrderClientNum = 3
  ShardNum = 2
  MaxHeight = 2
  Resend = FALSE
  MaxTally = 3
  DBFaults = FALSE
  NoClient = NoClient
  NoProblock = NoProblock
SPECIFICATION Spec
PROPERTY CommitNeedsAllLeaders
CHECK_DEADLOCK FALSE
