CONSTANTS
  f1 = f1
  f2 = f2
  p1 = p1
  p2 = p2
  Files = {f1, f2}
  Callers = {p1, p2}
  NoOne = NoOne

SPECIFICATION Spec
SYMMETRY Symmetry

INVARIANT TypeOK
INVARIANT RedisFollowsDisk
INVARIANT NoLostUpdate
PROPERTY ImplementsJobService
