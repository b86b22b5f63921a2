SPECIFICATION Spec
CONSTANTS
  WindowSize = 3
  WordSize = 5
  MaxCounter = 9
INVARIANT WindowTellsTruth
PROPERTY ImplementsAntiReplay
