CONSTANTS
  Thread = {t1, t2}
  Node = {n1, n2, n3}
  Head = head
  NULL = null
  Key = {1, 2}
  Word = {w1}
  Data = {0, 1, 2}
  Junk = junk
  Calls <- AnyCall
  ValueOf <- BenchValue
SPECIFICATION HSpec
SYMMETRY Symmetric
CHECK_DEADLOCK FALSE
INVARIANT DelTellsTheTruth
