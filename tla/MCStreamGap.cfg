SPECIFICATION Spec
CONSTANTS
  c1 = c1
  c2 = c2
  accepted = accepted
  confirmed = confirmed
  Idle = Idle
  Kept = {}
  Subs <- TwoFormats
  MaxVersion = 2
  Feeds <- BlockStreams
  FeedOf <- FromStreams
PROPERTIES SeesEveryState
CHECK_DEADLOCK FALSE
