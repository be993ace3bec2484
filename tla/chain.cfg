CONSTANTS
  Thread = {t1, t2}
  Node = {n1, n2}
  Head = head
  NULL = null
  NoValue = novalue
  Key = {1, 2}
  Word = {w1, w2}
  Data = {0, 1, 2, 11}
  Junk = junk
  Zero = 0
  ValueOf <- Values
  Impl = {"mutex", "rwlock", "wrongget"}
SPECIFICATION FairSpec
INVARIANTS TypeOK NoUseAfterFree NoLeak
PROPERTIES IsMap HolderReturns
