CONSTANTS
  Asked = 3
  MaxWait = 2
  ErrorMod = 2
  SampleEvery = 2
  LatCap = 1
  MaxOps = 4
  MaxTimeouts = 2
SPECIFICATION FairSpec
\* bench_main has returned.
CHECK_DEADLOCK FALSE
INVARIANTS TypeOK MapOutlivesWorkers NothingLeaks TotalsAgree SamplesAreKept
PROPERTY Terminates
