CONSTANTS
  Thread = {t1, t2}
  Node = {n1, n2}
  Head = head
  NULL = null
  NoValue = novalue
  Key = {1, 2}
  w1 = w1
  w2 = w2
  Word = {w1, w2}
  Data = {0, 1, 2}
  Junk = junk
  t1 = t1
  t2 = t2
  t3 = t3
  Calls <- AnyCall
  ValueOf <- BenchValue
SPECIFICATION FairSpec
\* A null dereference stops the process.
CHECK_DEADLOCK FALSE
INVARIANTS TypeOK Sorted NoDangling ReadsOwnKey
PROPERTIES NeverRecycled LockFree
