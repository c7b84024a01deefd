SPECIFICATION Spec
CONSTANTS
  a1 = a1
  a2 = a2
  b1 = b1
  alice = alice
  bob = bob
  None = None
  Lower <- MCLower
  ClientIDs = {alice, bob}
  IDOf <- MCIDOf
  Conns = {a1, a2, b1}
  KnownUsers <- SomeKnown
  RightPassword <- OneRight
  Filters <- SomeRefused
  PublicTopics <- MCPublic
  ProtectedTopics <- MCProtected
  MaxTopics = 2
  MaxCount = 2
INVARIANTS
  TypeOK
  NoSubscriptionForgotten
  RegularClientsAreExact
  NoGhostClients
  LowerCasePatternsProtect
PROPERTIES UnmanagedConnectionsEnd
CHECK_DEADLOCK FALSE
