CONSTANTS
  ShardNum = 2
  TxNum = 6
  ValidateTxNums = {2, 4, 6}
  Active = {2}
  RelayNums = {0, 3}
  MaxHeight = 5
  DBFaults = TRUE
SPECIFICATION Spec
INVARIANTS TypeOK BatchesAreWindows ValidatedIsExecuted ExecutedWasProposed EvenlyExecuted WindowsArePackable RelayBatchesAreDisjoint
PROPERTIES NewRelaysAreExecuted
CHECK_DEADLOCK FALSE
