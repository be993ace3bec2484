CONSTANTS
  Impl = {"mutex", "rwlock", "wrongget", "skiplock", "lfhash", "lfskip"}
  Node = {n1, n2, n3, n4}
  NULL = null
  Junk = junk
  Asked <- TooFewOrOne
  Fewest = 1
  Default = 2
SPECIFICATION FairSpec
\* The map is gone.
CHECK_DEADLOCK FALSE
INVARIANTS TypeOK MapIsWhole NoBadFree OnlyUnlinkedLeak OneSectionLeaks
PROPERTY DestroyEnds
