SPECIFICATION Spec
CONSTANTS
  Senders = {s1, s2}
  Keepers = {listener}
  Free = Free
  MaxCounter = 3
  Reports = {0, 2, 3}
INVARIANT CountersDistinct
PROPERTIES KeepersGetThrough SendersEnd
CHECK_DEADLOCK FALSE
