SPECIFICATION VerifierSpec
CONSTANTS
  WindowSize = 1
  WordSize = 1
  MaxCounter = 15
  EpochLength = 2
  MaxSecondsWithoutCounter = 0
  YearInSeconds = 2
  MsgCounters = {0, 1}
  ExpiryTimes = {1, 2}
  MaxEpoch = 2
  MaxTime = 3
INVARIANTS NeverExtended SleepCorrected ReplayTimeBounded
