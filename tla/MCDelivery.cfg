SPECIFICATION Spec
CONSTANTS
  Links = {"ble", "fleet"}
  QueueSize = 3
  MaxAttempts = 3
  MaxTransmissions = 3
  MaxRepeats = 2
INVARIANTS SuccessMeansExecuted ExecutedOnce FailureExplained NoReplyDropped
PROPERTIES CallReturns ImplementsCommandCall
CHECK_DEADLOCK FALSE
