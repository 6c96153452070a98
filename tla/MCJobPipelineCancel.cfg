CONSTANTS
  f1 = f1
  w1 = w1
  api = api
  Files = {f1}
  Workers = {w1}
  Scanners = {api}
  Periodic = {api}
  Creator = Creator
  Finalize = Finalize
  Nothing = Nothing
  EventKinds = {"cancel", "fault"}
  MaxEvents = 2

SPECIFICATION FairSpec

INVARIANT TypeOK

PROPERTY EveryJobServed
