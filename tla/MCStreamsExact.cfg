SPECIFICATION Spec
CONSTANTS
  Clients = {c1, c2}
  Topics <- MetadataTopics
  Copies <- Once
  Ids = {i1, i2}
  MayEnd <- ConfirmedStream
  BlockIDs <- MCBlockIDs
  Nil = Nil
SYMMETRY Symmetry
INVARIANTS CountsExact
PROPERTIES ServesStreamsOnDemand
CHECK_DEADLOCK FALSE
