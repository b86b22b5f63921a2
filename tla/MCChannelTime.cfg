SPECIFICATION ChannelSpec
CONSTANTS
  WindowSize = 1
  WordSize = 2
  MaxCounter = 15
  EpochLength = 12
  MaxSecondsWithoutCounter = 1
  YearInSeconds = 15
  MaxEpoch = 2
  MaxTime = 3
  Lifetime = 1
  MaxLatency = 1
  Methods = {"GCM"}
  MaxRequests = 2
  MaxFaults = 1
PROPERTIES ExecutedInTime ImplementsTimelyExecution
CHECK_DEADLOCK FALSE
