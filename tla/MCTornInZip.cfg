CONSTANTS
  f1 = f1
  w1 = w1
  w2 = w2
  boot = boot
  Files = {f1}
  Workers = {w1, w2}
  Scanners = {boot}
  Periodic = {}
  Creator = Creator
  Finalize = Finalize
  Nothing = Nothing
  EventKinds = {"fault"}
  MaxEvents = 1

SPECIFICATION Spec
CHECK_DEADLOCK FALSE

INVARIANT ZipHasNoTornFile
