CONSTANTS
  f1 = f1
  w1 = w1
  w2 = w2
  Files = {f1}
  Workers = {w1, w2}
  Scanners = {}
  Periodic = {}
  Creator = Creator
  Finalize = Finalize
  Nothing = Nothing
  EventKinds = {"cancel"}
  MaxEvents = 1

SPECIFICATION FairSpec
CHECK_DEADLOCK FALSE

PROPERTY CancelledRunStops
