CONSTANTS
  f1 = f1
  w1 = w1
  w2 = w2
  api = api
  Files = {f1}
  Workers = {w1, w2}
  Scanners = {api}
  Periodic = {api}
  Creator = Creator
  Finalize = Finalize
  Nothing = Nothing
  EventKinds = {"fault"}
  MaxEvents = 1

SPECIFICATION FairSpec

INVARIANT DoneHasOutput
INVARIANT ZipIsComplete

PROPERTY EveryJobServed
