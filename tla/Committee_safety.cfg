CONSTANTS
  Registrations = {r1, r2, r3, r4}
  OrderClientNum = 2
  MaxHeight = 1
  MaxWaiting = 1
  DBFaults = TRUE
  SocketFaults = TRUE
SPECIFICATION Spec
SYMMETRY Symmetry
INVARIANTS TypeOK OneCommittee ListedMembersAreConnected
PROPERTIES ImplementsElection
CHECK_DEADLOCK FALSE
