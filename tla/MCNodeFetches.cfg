SPECIFICATION Spec
CONSTANTS
  Programs <- MCPrograms
  NumTopics = 2
  MaxVersion = 2
INVARIANTS TypeOK EncodedByNoNewerAPI CachedFormatsAgree FetchesAreFresh NobodyForgotten
PROPERTIES TimedFetchesEnd CancelledGoroutinesEnd
CHECK_DEADLOCK FALSE
