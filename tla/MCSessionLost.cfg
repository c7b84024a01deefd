SPECIFICATION Spec
CONSTANTS
  a1 = a1
  a2 = a2
  b1 = b1
  alice = alice
  bob = bob
  None = None
  Lower <- MCLower
  ClientIDs = {alice, bob}
  IDOf <- MCIDOf
  Conns = {a1, a2}
  KnownUsers <- NoConn
  RightPassword <- NoConn
  Filters <- PublicOnly
  PublicTopics <- MCPublic
  ProtectedTopics <- MCProtected
  MaxTopics = 2
  MaxCount = 1
INVARIANTS ManagerUpToDate
CHECK_DEADLOCK FALSE
