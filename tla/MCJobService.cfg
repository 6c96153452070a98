CONSTANTS
  f1 = f1
  f2 = f2
  f3 = f3
  Files = {f1, f2, f3}

SPECIFICATION Spec

INVARIANT TypeOK
INVARIANT StatusMatchesSubtasks
INVARIANT OnlyCancelCancels
INVARIANT LastAnsweredOnce
PROPERTY TerminalIsFinal
