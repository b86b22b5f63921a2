SPECIFICATION Spec
CONSTANTS
  Clients = {c1, c2}
  Nobody = Nobody
  MaxCalls = 4
INVARIANTS OneListener EveryListenerStoppable StopAfterReady
PROPERTY StopReturns
CHECK_DEADLOCK FALSE
