SPECIFICATION Spec
CONSTANTS
  Clients = {c1, c2}
  Topics <- LooseTopics
  Copies <- Once
  Ids = {i1, i2}
  MayEnd <- AcceptedStream
  BlockIDs <- MCBlockIDs
  Nil = Nil
INVARIANTS TypeOK RegistryMatchesListeners CountWithinHolders
PROPERTIES OnlyTwoWaysToLoseSubscribers UnwantedStreamsEnd ShutdownDrains
CHECK_DEADLOCK FALSE
