SPECIFICATION Spec
CONSTANTS
  Clients = {c1, c2}
  MaxCommitments = 3
  Unknown = {2}
INVARIANTS
  TypeOK
  RouteLeadsToBroker
  SubscriptionsAreHandled
  ShutdownInOrder
  NothingLeftBehind
PROPERTIES
  SubscribersComeUpToDate
  ShutdownEnds
CHECK_DEADLOCK FALSE
