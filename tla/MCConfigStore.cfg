CONSTANTS
  p1 = p1
  p2 = p2
  p3 = p3
  c1 = c1
  c2 = c2
  Procs = {p1, p2, p3}
  Contents = {c1, c2}
  None = None
  Empty = Empty
  Mixed = Mixed
  Unknown = Unknown
  MaxCrashes = 1

SPECIFICATION Spec
SYMMETRY Symmetry

INVARIANT TypeOK
INVARIANT KnownIsServed
