\* Two overlapping flush runs, two workers, a rollback and expired leases.
CONSTANTS
  f1 = f1
  f2 = f2
  w1 = w1
  w2 = w2
  r1 = r1
  r2 = r2
  MaxMsgs = 1
  Flushers <- TwoFlushes
  Workers <- TwoWorkers
  Requests <- TwoRequests
  Ops <- NoOps
  Batch = 2
  MaxAttempts = 3
  DailyLimit = 2
  MaxFaults = 1
  MaxExpiries = 2
  MaxOps = 0
SPECIFICATION Spec
CHECK_DEADLOCK FALSE
SYMMETRY Symmetry
INVARIANTS
  DeliveredOnce
  SentWasDelivered
  AttemptsBounded
  LeaseExclusive
