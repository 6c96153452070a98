CONSTANTS
  f1 = f1
  w1 = w1
  w2 = w2
  Files = {f1}
  Workers = {w1, w2}
  Scanners = {}
  Periodic = {}
  Creator = Creator
  Finalize = Finalize
  Nothing = Nothing
  EventKinds = {}
  MaxEvents = 0

SPECIFICATION Spec
CHECK_DEADLOCK FALSE

INVARIANT FinalizeGuaranteed
