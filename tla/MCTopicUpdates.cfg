SPECIFICATION Spec
CONSTANTS
  c1 = c1
  c2 = c2
  accepted = accepted
  confirmed = confirmed
  Idle = Idle
  Kept = {confirmed}
  Subs <- TwoFormats
  MaxVersion = 2
  Feeds <- BlockStreams
  FeedOf <- FromStreams
INVARIANT StateIsOnItsWay
PROPERTIES InitialPayloadArrives RunningFeedsMissNothing
CHECK_DEADLOCK FALSE
