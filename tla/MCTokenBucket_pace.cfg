\* Batches below, at and above the size of the bucket, and idle stretches longer
\* than the bucket takes to fill.
CONSTANTS
  Capacity = 3
  Requests = {1, 2, 3, 5}
  Horizon = 5
  MaxLate = 1
  MaxStarts = 2
SPECIFICATION FairSpec
INVARIANTS
  WindowRate
  OneSleepSuffices
PROPERTIES
  AcquireReturns
