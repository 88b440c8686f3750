CONSTANTS
  r1 = r1
  m1 = m1
  m2 = m2
  m3 = m3
  Requests = {r1, r2, r3}
  Members = {m1, m2, m3}
  IdList <- MCIdList
  Committee <- MCCommittee
  Callers = {n1}
  SocketFaults = TRUE
  NoLock = NoLock
  Error = Error
SPECIFICATION FairSpec
INVARIANTS TypeOK OneWriterUnlessRaced NoLostWakeUp
PROPERTIES IdLocksAreTimedMap MulticastsAreDelivered
CHECK_DEADLOCK FALSE
