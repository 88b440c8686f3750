CONSTANTS
  a1 = a1
  a2 = a2
  b1 = b1
  b2 = b2
  Accounts <- MCAccounts
  ShardNum = 2
  ShardOf <- MCShardOf
  InitialValue = 1
  Windows <- MCWindows
  Readers = {r1}
  DBFaults = TRUE
  MaxHeight = 3
SPECIFICATION Spec
INVARIANTS TypeOK ListIsNotAhead RelatedAreChanged
PROPERTY ImplementsBalances
CHECK_DEADLOCK FALSE
