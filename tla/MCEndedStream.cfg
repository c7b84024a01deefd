SPECIFICATION Spec
CONSTANTS
  Clients = {c1, c2}
  Topics <- AcceptedTopic
  Copies <- Once
  Ids = {i1, i2}
  MayEnd <- AcceptedStream
  BlockIDs <- MCBlockIDs
  Nil = Nil
PROPERTIES StopsOnlyWhenNoSubscribers
CHECK_DEADLOCK FALSE
