SPECIFICATION ProxySpec
CONSTANTS
  r1 = r1
  r2 = r2
  r3 = r3
  vinA = vinA
  vinB = vinB
  None = None
  Requests = {r1, r2, r3}
  Vins = {vinA, vinB}
  vinOf <- MCVinOf
  kinds <- MCKinds
  MaxEntries = 1
  MaxAttempts = 2
  maxSigned <- MCMaxSigned
  MaxSaves = 2
INVARIANTS OneHolder MapBounded NoLostWakeup AnsweredOnce
PROPERTIES SignedInOrder EveryoneAnswered
CHECK_DEADLOCK FALSE
