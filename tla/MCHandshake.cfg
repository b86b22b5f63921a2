SPECIFICATION Spec
CONSTANTS
  vcsec = vcsec
  infotainment = infotainment
  Domains = {vcsec, infotainment}
  kinds <- MCKinds
  QueueSize = 1
  MaxTries = 2
  tries <- MCTries
INVARIANTS SuccessUnlessCanceled FaultNotMasked HandlersFreed
PROPERTIES StartSessionsReturns ReadyIsSeen ImplementsSessionStart
CHECK_DEADLOCK FALSE
