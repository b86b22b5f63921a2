SPECIFICATION ChannelSpec
CONSTANTS
  WindowSize = 1
  WordSize = 1
  MaxCounter = 15
  EpochLength = 12
  MaxSecondsWithoutCounter = 1
  YearInSeconds = 15
  MaxEpoch = 2
  MaxTime = 1
  Lifetime = 2
  MaxLatency = 0
  Methods = {"GCM"}
  MaxRequests = 3
  MaxFaults = 2
INVARIANTS ExecutedOnce CountersNotReused RefusalTeaches
CHECK_DEADLOCK FALSE
