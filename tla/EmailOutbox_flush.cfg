\* Two overlapping flush runs under the cap, beside operator requests; rows fit the batch.
CONSTANTS
  f1 = f1
  f2 = f2
  w1 = w1
  w2 = w2
  r1 = r1
  r2 = r2
  MaxMsgs = 2
  Flushers <- TwoFlushes
  Workers <- NoWorkers
  Requests <- OneRequest
  Ops <- AllOps
  Batch = 2
  MaxAttempts = 2
  DailyLimit = 1
  MaxFaults = 1
  MaxExpiries = 0
  MaxOps = 1
SPECIFICATION FairSpec
CHECK_DEADLOCK FALSE
INVARIANTS
  CapHolds
PROPERTY PendingDrains
