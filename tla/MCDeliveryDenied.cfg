SPECIFICATION Spec
CONSTANTS
  Links = {"fleet"}
  QueueSize = 3
  MaxAttempts = 1
  MaxTransmissions = 1
  MaxRepeats = 0
INVARIANT FailureMeansNotExecuted
CHECK_DEADLOCK FALSE
