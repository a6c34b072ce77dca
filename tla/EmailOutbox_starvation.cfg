\* Liveness: more rows than the batch holds.
CONSTANTS
  f1 = f1
  f2 = f2
  w1 = w1
  w2 = w2
  r1 = r1
  r2 = r2
  MaxMsgs = 3
  Flushers <- OneFlush
  Workers <- NoWorkers
  Requests <- NoRequests
  Ops <- NoOps
  Batch = 1
  MaxAttempts = 1
  DailyLimit = 1
  MaxFaults = 0
  MaxExpiries = 0
  MaxOps = 0
SPECIFICATION FairSpec
CHECK_DEADLOCK FALSE
PROPERTY OverCapDrains
