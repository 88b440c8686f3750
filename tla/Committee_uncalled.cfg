CONSTANTS
  Registrations = {r1, r2, r3}
  OrderClientNum = 2
  MaxHeight = 1
  MaxWaiting = 1
  DBFaults = FALSE
  SocketFaults = FALSE
SPECIFICATION Spec
INVARIANTS FullCommitteeIsCalled
CHECK_DEADLOCK FALSE
