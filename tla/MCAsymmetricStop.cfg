SPECIFICATION Spec
CONSTANTS
  Clients = {c1, c2}
  Topics <- LooseTopics
  Copies <- Once
  Ids = {i1, i2}
  MayEnd <- NoCalls
  BlockIDs <- MCBlockIDs
  Nil = Nil
PROPERTIES StopsOnlyWhenNoSubscribers
CHECK_DEADLOCK FALSE
