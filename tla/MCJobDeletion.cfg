CONSTANTS
  f1 = f1
  w1 = w1
  Files = {f1}
  Workers = {w1}
  Finalize = Finalize
  Nothing = Nothing
  MaxDeaths = 1

SPECIFICATION FairSpec
CHECK_DEADLOCK FALSE

INVARIANT TypeOK
INVARIANT ResurrectedIsOver
INVARIANT ZipKept

PROPERTY DueIsSwept
