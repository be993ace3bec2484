CONSTANTS
  Thread = {t1, t2}
  Node = {n1, n2, n3}
  Head = head
  NULL = null
  Key = {1, 2, 3}
  Value = {v1, v2}
  NoValue = novalue
  Junk = junk
  MaxHeight = 2
SPECIFICATION Spec
SYMMETRY Symmetric
INVARIANTS TypeOK IsSkipList NoWildPointer
PROPERTY IsMap
