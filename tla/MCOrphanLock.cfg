CONSTANTS
  f1 = f1
  w1 = w1
  Files = {f1}
  Workers = {w1}
  Finalize = Finalize
  Nothing = Nothing
  MaxDeaths = 0

SPECIFICATION Spec
CHECK_DEADLOCK FALSE

INVARIANT NoOrphanLock
