CONSTANTS
  Lines <- SomeLines
  Number <- Numbers
  Real <- Reals
  DefaultExponent = 10001
  NoToken = notoken
  Width = 32
  DwordRange = 64
  PerSecond = 12
  DefaultKeyspace = 5
  DefaultBuckets = 17
  BitXor <- OfBits
  Magic = 5
  GoodKey = 3
  BadKey = 7
  Grain = 24
  Scale = 10000
  Pow <- Powers
  NoValue = novalue
  Latencies <- SomeLatencies
  MaxOps = 2
SPECIFICATION Spec
\* bench_main has returned.
CHECK_DEADLOCK FALSE
INVARIANTS TypeOK LastValueCounts RowsKeepComing KeysStayInRange SmallKeysAreHot HitsVerify P99IsRank
