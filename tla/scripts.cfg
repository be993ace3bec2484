CONSTANTS
  Impls = 3
  MaxTime = 3
  Crashed = 3
  Killed = 9
  None = none
  Missing = missing
  EmptyFile = emptyfile
SPECIFICATION FairSpec
\* The script has exited.
CHECK_DEADLOCK FALSE
INVARIANTS TypeOK VerdictIsEarned LastRowIsShown
PROPERTY ScriptEnds
