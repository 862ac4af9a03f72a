CONSTANTS
  Methods <- AllMethods
  CallbackTimeout = TRUE
  MaxBits = 3
  MaxValue = 1
  MaxTrigger = 1
  MaxFailures = 1
SPECIFICATION FairSpec
PROPERTIES
  ChangeSaved
  FailureRetried
