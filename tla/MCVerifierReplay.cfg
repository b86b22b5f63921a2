SPECIFICATION VerifierSpec
CONSTANTS
  WindowSize = 2
  WordSize = 3
  MaxCounter = 5
  EpochLength = 1
  MaxSecondsWithoutCounter = 1
  YearInSeconds = 1
  MsgCounters = {1, 2, 3, 4, 5}
  ExpiryTimes = {1, 2}
  MaxEpoch = 2
  MaxTime = 1
INVARIANTS WindowTellsTruth NoReplay
