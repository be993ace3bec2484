CONSTANTS
  Thread = {t1}
  Node = {n1, n2, n3}
  Head = head
  NULL = null
  NoValue = novalue
  Key = {1, 2, 3}
  w1 = w1
  w2 = w2
  Word = {w1, w2}
  Data = {1, 2, 3, 11, 12, 13}
  Junk = junk
  t1 = t1
  t2 = t2
  t3 = t3
  Calls <- AnyCall
  ValueOf <- TwoValues
SPECIFICATION Spec
SYMMETRY NodeSymmetric
\* A null dereference stops the process.
CHECK_DEADLOCK FALSE
PROPERTY IsCuttingMap
