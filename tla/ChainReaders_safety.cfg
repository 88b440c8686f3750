CONSTANTS
  Clients = {c1, c2, c3}
  Bodies = {b1}
  OrderClientNum = 2
  ShardNum = 1
  MaxHeight = 4
  Resend = FALSE
  MaxTally = 2
  DBFaults = TRUE
  NoClient = NoClient
  NoProblock = NoProblock
  Readers = {e1}
SPECIFICATION ReadersSpec
SYMMETRY Symmetry
INVARIANTS ReadersTypeOK BlockIsTheOneAskedFor SuffixReachesTable PanicsOnlyWhenStale
CHECK_DEADLOCK FALSE
